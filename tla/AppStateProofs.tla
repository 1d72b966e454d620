---------------------------- MODULE AppStateProofs ----------------------------
(***************************************************************************)
(* The saved settings, in five parts.  References: the write chain alone   *)
(* turns any document into one whose references resolve, and every step    *)
(* that writes ends in the chain, so no inductive invariant is needed.     *)
(* What the chain returns: running it again, or the normalizer of a read,  *)
(* changes nothing.  What is in a document: every step that writes gives   *)
(* the chain a well-formed one, as long as the copies that fetches and     *)
(* sheets hold are well formed and ask no question again (SettingsInv).    *)
(* No id twice: no step lists an id a second time, so a read hands out     *)
(* what was saved.  What an edit leads to: a sheet leaves alone the fields *)
(* its reader did not touch, a route edit is what the core runs with, a    *)
(* refresh takes back only what is the subscription's and keeps the active *)
(* profile, and a merged backup adds what is not here, once.               *)
(***************************************************************************)
EXTENDS AppState, FiniteSetTheorems, SequenceTheorems, WellFoundedInduction, TLAPS

(* The first rule makes every group named a listed one, and every owner a  *)
(* listed subscription, when the base group is listed                      *)
(* (fixup_dangling_groups).                                                *)
LEMMA GroupsRule ==
  ASSUME NEW s, Base \in Ids(s.groups)
  PROVE  GroupsResolve(FixupDanglingGroups(s))
  <1> DEFINE t == FixupDanglingGroups(s)
  <1>1. Ids(t.groups) = Ids(s.groups) /\ Ids(t.subs) = Ids(s.subs)
    BY DEF FixupDanglingGroups, Doc, Ids
  <1>2. \A i \in DOMAIN t.profiles : t.profiles[i].group \in Ids(s.groups)
    BY DEF FixupDanglingGroups, Doc
  <1>3. \A i \in DOMAIN t.subs : t.subs[i].target \in Ids(s.groups) \cup {None}
    BY DEF FixupDanglingGroups, Doc
  <1>4. \A i \in DOMAIN t.groups : t.groups[i].owner \in Ids(s.subs) \cup {None}
    BY DEF FixupDanglingGroups, Doc
  <1> QED
    BY <1>1, <1>2, <1>3, <1>4 DEF GroupsResolve

(* The later rules change neither the groups, the subscriptions nor the    *)
(* group of a profile (fixup_active_id, fixup_dangling_via).               *)
LEMMA ActiveRule ==
  ASSUME NEW s
  PROVE  LET t == FixupActiveId(s)
         IN /\ t.profiles = s.profiles /\ t.groups = s.groups
            /\ t.subs = s.subs
            /\ t.active \in Ids(t.profiles) \cup {None}
  BY DEF FixupActiveId, Doc

LEMMA ViaRule ==
  ASSUME NEW s, s.active \in Ids(s.profiles) \cup {None}
  PROVE  LET t == FixupDanglingVia(s)
         IN /\ t.groups = s.groups /\ t.subs = s.subs
            /\ DOMAIN t.profiles = DOMAIN s.profiles
            /\ \A i \in DOMAIN t.profiles :
                 t.profiles[i].group = s.profiles[i].group
            /\ ProfilesResolve(t)
  <1> DEFINE t == FixupDanglingVia(s)
  <1>1. Ids(t.profiles) = Ids(s.profiles)
    BY DEF FixupDanglingVia, Doc, Ids
  <1>2. t.groups = s.groups /\ t.subs = s.subs /\ t.active = s.active
    BY DEF FixupDanglingVia, Doc
  <1>3. /\ DOMAIN t.profiles = DOMAIN s.profiles
        /\ \A i \in DOMAIN t.profiles :
             /\ t.profiles[i].group = s.profiles[i].group
             /\ t.profiles[i].id = s.profiles[i].id
             /\ t.profiles[i].via \in (Ids(s.profiles) \ {t.profiles[i].id}) \cup {None}
    BY DEF FixupDanglingVia, Doc
  <1> QED
    BY <1>1, <1>2, <1>3 DEF ProfilesResolve

(* Folding the legacy rules changes only blocks and routes                 *)
(* (fold_legacy_rules).                                                    *)
LEMMA LegacyRule ==
  ASSUME NEW s
  PROVE  LET t == FoldLegacyRules(s)
         IN /\ t.profiles = s.profiles /\ t.groups = s.groups
            /\ t.subs = s.subs /\ t.active = s.active
  BY DEF FoldLegacyRules, FoldInto, Doc

(* The last rule leaves routes that name what is there and claim nothing   *)
(* twice, and changes only blocks and routes (normalize_routes).           *)
LEMMA RoutesRule ==
  ASSUME NEW s
  PROVE  LET t == NormalizeRoutes(s)
         IN /\ t.profiles = s.profiles /\ t.groups = s.groups
            /\ t.subs = s.subs /\ t.active = s.active
            /\ RoutesResolve(t)
  <1> DEFINE e == FoldLegacyRules(s)
             R == EnsureDefaultRoute(e.routes)
             t == NormalizeRoutes(s)
  <1>1. /\ t.profiles = e.profiles /\ t.groups = e.groups
        /\ t.subs = e.subs /\ t.active = e.active /\ t.blocks = e.blocks
    BY DEF NormalizeRoutes, WithDefaultRoute, FixRoutes, Doc
  <1>2. DOMAIN t.routes = DOMAIN R
    BY DEF NormalizeRoutes, WithDefaultRoute, FixRoutes, Doc
  <1>3. \A i \in DOMAIN R :
          /\ t.routes[i].blocks = R[i].blocks \cap Ids(e.blocks)
          /\ t.routes[i].profiles =
               {p \in R[i].profiles \cap Ids(e.profiles) :
                  \A j \in {k \in DOMAIN R : k < i} : p \notin R[j].profiles}
          /\ t.routes[i].groups =
               {g \in R[i].groups \cap Ids(e.groups) :
                  /\ R[i].id # Default
                  /\ \A j \in {k \in DOMAIN R : k < i} :
                       R[j].id = Default \/ g \notin R[j].groups}
    BY DEF NormalizeRoutes, WithDefaultRoute, FixRoutes, Doc
  <1> HIDE DEF t, R, e
  <1>4. \A i \in DOMAIN t.routes :
          /\ t.routes[i].profiles \subseteq Ids(t.profiles)
          /\ t.routes[i].groups \subseteq Ids(t.groups)
          /\ t.routes[i].blocks \subseteq Ids(t.blocks)
    BY <1>1, <1>2, <1>3
  <1>5. \A i, j \in DOMAIN t.routes :
          i < j => /\ t.routes[i].profiles \cap t.routes[j].profiles = {}
                   /\ t.routes[i].groups \cap t.routes[j].groups = {}
    BY <1>2, <1>3
  <1>6. RoutesResolve(t)
    BY <1>4, <1>5 DEF RoutesResolve
  <1> QED
    BY <1>1, <1>6, LegacyRule DEF t, e

(* Whatever document it is given, the write chain returns one whose        *)
(* references resolve (default_chain).                                     *)
THEOREM ChainResolves ==
  ASSUME NEW s
  PROVE  Resolves(Chain(s))
  <1> DEFINE a == FixupDanglingGroups(s)
             b == FixupActiveId(a)
             c == FixupDanglingVia(b)
             t == NormalizeRoutes(c)
  <1>1. Ids(a.groups) = Ids(s.groups)
    BY DEF FixupDanglingGroups, Doc, Ids
  <1>2. Base \in Ids(a.groups) => GroupsResolve(a)
    BY <1>1, GroupsRule
  <1>3. /\ b.profiles = a.profiles /\ b.groups = a.groups
        /\ b.subs = a.subs /\ b.active \in Ids(b.profiles) \cup {None}
    BY ActiveRule
  <1>4. /\ c.groups = b.groups /\ c.subs = b.subs
        /\ DOMAIN c.profiles = DOMAIN b.profiles
        /\ \A i \in DOMAIN c.profiles : c.profiles[i].group = b.profiles[i].group
        /\ ProfilesResolve(c)
    BY <1>3, ViaRule
  <1>5. /\ t.profiles = c.profiles /\ t.groups = c.groups
        /\ t.subs = c.subs /\ t.active = c.active /\ RoutesResolve(t)
    BY RoutesRule
  <1> HIDE DEF a, b, c, t
  <1>6. Base \in Ids(t.groups) => GroupsResolve(t)
    BY <1>2, <1>3, <1>4, <1>5 DEF GroupsResolve
  <1>7. ProfilesResolve(t)
    BY <1>4, <1>5 DEF ProfilesResolve
  <1>8. Resolves(t)
    BY <1>5, <1>6, <1>7 DEF Resolves
  <1> QED
    BY <1>8 DEF Chain, a, b, c, t

(* A step that writes ends in the chain; the others leave the document as  *)
(* it is (run_mutation, persist_with_chain).                               *)
Written == saved' = saved \/ \E s : saved' = Chain(s)

LEMMA StepWrites ==
  ASSUME [Next]_vars
  PROVE  Written
  <1>1. ASSUME ProfileStep PROVE Written
    BY <1>1 DEF ProfileStep, AddProfile, UpsertProfile, RemoveProfiles, CloneProfile, MoveProfiles, DeduplicateProfiles, SetActive, Edit, Write, Written
  <1>2. ASSUME GroupStep PROVE Written
    BY <1>2 DEF GroupStep, AddGroup, RenameGroup, RemoveGroup, ReorderGroups, Edit, Write, Written
  <1>3. ASSUME SubStep PROVE Written
    BY <1>3 DEF SubStep, AddSub, RemoveSub, SetSettings, Edit, Write, Written
  <1>4. ASSUME FetchStep PROVE Written
    BY <1>4 DEF FetchStep, FetchBegin, FetchLand, FetchFail, Edit, Write, Written
  <1>5. ASSUME SheetStep PROVE Written
    BY <1>5 DEF SheetStep, OpenSheet, SaveSheet, Edit, Write, Written
  <1>6. ASSUME AnswerStep PROVE Written
    <2>1. ASSUME NEW u, NEW change, NEW accept, NEW activate,
                 ResolveSubChange(u, change, accept, activate)
          PROVE  Written
      BY <2>1, Zenon DEF ResolveSubChange, Edit, Write, Written
    <2>2. ASSUME NEW u, WithdrawProviderConfigs(u) PROVE Written
      BY <2>2 DEF WithdrawProviderConfigs, Edit, Write, Written
    <2> QED
      BY <1>6, <2>1, <2>2 DEF AnswerStep
  <1>7. ASSUME RouteStep PROVE Written
    BY <1>7 DEF RouteStep, UpsertRuleBlock, RemoveRuleBlock, UpsertRoute, RemoveRoute, SetProfileRoute, ImportRoutingLink, ImportRoutePackage, Edit, Write, Written
  <1>8. ASSUME BackupStep PROVE Written
    BY <1>8 DEF BackupStep, ImportBackup, ReplaceState, Edit, Write, Written
  <1>9. ASSUME UNCHANGED vars PROVE Written
    BY <1>9 DEF vars, Written
  <1> QED
    BY <1>1, <1>2, <1>3, <1>4, <1>5, <1>6, <1>7, <1>8, <1>9 DEF Next

(* In every reachable state every reference in the saved settings          *)
(* resolves, for any documents to start from, any edits, any answers of a  *)
(* provider and any backups (apply_mutation, apply, default_chain).        *)
THEOREM SettingsStayIntact == Spec => []Intact
  <1>1. Init => Intact
    BY ChainResolves DEF Init, Intact
  <1>2. Intact /\ [Next]_vars => Intact'
    <2> SUFFICES ASSUME Intact, [Next]_vars PROVE Intact'
      OBVIOUS
    <2>1. CASE saved' = saved
      BY <2>1 DEF Intact, Resolves, GroupsResolve, ProfilesResolve, RoutesResolve, Ids
    <2>2. CASE \E s : saved' = Chain(s)
      BY <2>2, ChainResolves DEF Intact
    <2> QED
      BY <2>1, <2>2, StepWrites DEF Written
  <1> QED
    BY <1>1, <1>2, PTL DEF Spec

-----------------------------------------------------------------------------
(* What is read back *)

(* A nonempty set of positions has a first; by the well-foundedness of the  *)
(* subset order, as no theorem of induction can be applied.                 *)
LEMMA LeastOf ==
  ASSUME NEW n \in Nat, NEW A \in SUBSET (1 .. n), A # {}
  PROVE  \E k \in A : \A j \in A : k <= j
  <1> DEFINE T == {1 .. k : k \in A}
             S == SUBSET (1 .. n)
  <1>1. IsWellFoundedOn(StrictSubsetOrdering(1 .. n), S)
    <2>1. IsFiniteSet(1 .. n)
      BY FS_Interval
    <2>2. FiniteSubsetsOf(1 .. n) = S
      BY <2>1, FS_Subset DEF FiniteSubsetsOf
    <2> QED
      BY <2>2, FS_StrictSubsetOrderingWellFounded
  <1>2. T \subseteq S /\ T # {}
    <2>1. \A k \in A : k \in Nat /\ k <= n
      OBVIOUS
    <2>2. \A k \in A : 1 .. k \in S
      BY <2>1
    <2>3. PICK k \in A : TRUE
      OBVIOUS
    <2> QED
      BY <2>2, <2>3
  <1>3. PICK m \in T : \A y \in T : <<y, m>> \notin StrictSubsetOrdering(1 .. n)
    <2> HIDE DEF T, S
    <2> QED
      BY <1>1, <1>2, WFMin
  <1>4. PICK k \in A : m = 1 .. k
    BY <1>3
  <1>5. ASSUME NEW j \in A, j < k
        PROVE FALSE
    <2>1. 1 .. j \in T
      OBVIOUS
    <2>2. (1 .. j) \subseteq (1 .. k) /\ 1 .. j # 1 .. k
      BY <1>5
    <2>3. <<1 .. j, 1 .. k>> \in StrictSubsetOrdering(1 .. n)
      BY <2>2, <1>5 DEF StrictSubsetOrdering
    <2> QED
      BY <1>3, <1>4, <2>1, <2>3
  <1> QED
    BY <1>5

(* The first of a list with an id (SelectInSeq).                            *)
LEMMA FirstWith ==
  ASSUME NEW S, NEW r \in Seq(S), NEW id \in Ids(r)
  PROVE  /\ IndexOf(r, id) \in 1 .. Len(r) /\ r[IndexOf(r, id)].id = id
         /\ \A j \in 1 .. Len(r) : r[j].id = id => IndexOf(r, id) <= j
  <1> DEFINE I == {i \in 1 .. Len(r) : r[i].id = id}
  <1>1. Len(r) \in Nat /\ DOMAIN r = 1 .. Len(r)
    OBVIOUS
  <1>2. I \in SUBSET (1 .. Len(r)) /\ I # {}
    BY <1>1 DEF Ids
  <1>3. IndexOf(r, id) = Min(I)
    BY <1>2 DEF IndexOf, SelectInSeq
  <1>4. \E k \in I : \A j \in I : k <= j
    <2> HIDE DEF I
    <2> QED
      BY <1>1, <1>2, LeastOf
  <1>5. Min(I) \in I /\ \A j \in I : Min(I) <= j
    BY <1>4 DEF Min
  <1> QED
    BY <1>3, <1>5

(* The default route is found where it is put, and putting it first again   *)
(* moves nothing (ensure_default_route).                                    *)
LEMMA DefaultComesFirst ==
  ASSUME NEW S, NEW r \in Seq(S)
  PROVE  LET R == EnsureDefaultRoute(r)
         IN \E n \in Nat \ {0} : DOMAIN R = 1 .. n /\ R[1].id = Default
  <1>1. DefaultRoute.id = Default
    BY DEF DefaultRoute
  <1>2. CASE Default \notin Ids(r)
    <2>1. EnsureDefaultRoute(r) = <<DefaultRoute>> \o r
      BY <1>2 DEF EnsureDefaultRoute
    <2>2. r \in Seq(S \cup {DefaultRoute}) /\ <<DefaultRoute>> \in Seq(S \cup {DefaultRoute})
      OBVIOUS
    <2> QED
      BY <1>1, <2>1, <2>2
  <1>3. CASE Default \in Ids(r)
    <2> DEFINE k == IndexOf(r, Default)
    <2>1. k \in 1 .. Len(r) /\ r[k].id = Default /\ Len(r) \in Nat
      BY <1>3, FirstWith
    <2>2. r[k] \in S
      BY <2>1
    <2>3. SubSeq(r, 1, k - 1) \in Seq(S) /\ SubSeq(r, k + 1, Len(r)) \in Seq(S)
      BY <2>1
    <2>4. EnsureDefaultRoute(r) = <<r[k]>> \o (SubSeq(r, 1, k - 1) \o SubSeq(r, k + 1, Len(r)))
      BY <1>3 DEF EnsureDefaultRoute, Get, RemoveAt
    <2>5. PICK t \in Seq(S) : EnsureDefaultRoute(r) = <<r[k]>> \o t
      <3>1. SubSeq(r, 1, k - 1) \o SubSeq(r, k + 1, Len(r)) \in Seq(S)
        BY <2>3
      <3> QED
        BY <2>4, <3>1
    <2>6. DOMAIN (<<r[k]>> \o t) = 1 .. 1 + Len(t) /\ (<<r[k]>> \o t)[1] = r[k]
      <3> HIDE DEF k
      <3> QED
        BY <2>2
    <2> QED
      BY <2>1, <2>5, <2>6
  <1> QED
    BY <1>2, <1>3

LEMMA DefaultStaysFirst ==
  ASSUME NEW r, NEW n \in Nat \ {0}, r = [i \in 1 .. n |-> r[i]], r[1].id = Default
  PROVE  EnsureDefaultRoute(r) = r
  <1> DEFINE S == {r[i] : i \in 1 .. n}
  <1>1. r \in Seq(S) /\ Len(r) = n
    OBVIOUS
  <1>2. Default \in Ids(r)
    BY <1>1 DEF Ids
  <1> HIDE DEF S
  <1>3. IndexOf(r, Default) = 1
    BY <1>1, <1>2, FirstWith
  <1>4. EnsureDefaultRoute(r) = <<r[1]>> \o (SubSeq(r, 1, 1 - 1) \o SubSeq(r, 1 + 1, n))
    BY <1>1, <1>2, <1>3, Zenon DEF EnsureDefaultRoute, Get, RemoveAt
  <1>5. SubSeq(r, 1, 1 - 1) = << >> /\ SubSeq(r, 1 + 1, n) = Tail(r)
    BY <1>1
  <1>6. <<r[1]>> \o (<< >> \o Tail(r)) = r
    BY <1>1
  <1> QED
    BY <1>4, <1>5, <1>6

(* The order of the fields is that of each rule.                            *)
ProfileFields(p) == [id |-> p.id, name |-> p.name, end |-> p.end, custom |-> p.custom,
                     sub |-> p.sub, via |-> p.via, group |-> p.group]
GroupFields(g) == [id |-> g.id, name |-> g.name, owner |-> g.owner]
SubFields(u) == [id |-> u.id, name |-> u.name, enabled |-> u.enabled, configs |-> u.configs,
                 pending |-> u.pending, answered |-> u.answered, target |-> u.target]
Shaped(s) ==
  /\ s.profiles = [i \in DOMAIN s.profiles |-> ProfileFields(s.profiles[i])]
  /\ s.groups = [i \in DOMAIN s.groups |-> GroupFields(s.groups[i])]
  /\ s.subs = [i \in DOMAIN s.subs |-> SubFields(s.subs[i])]
Whole(s) == s = Doc(s.profiles, s.groups, s.subs, s.blocks, s.routes, s.active, s.dedup, s.legacy)

LEMMA GroupsRuleKeeps ==
  ASSUME NEW s, Whole(s), Shaped(s), GroupsResolve(s)
  PROVE  FixupDanglingGroups(s) = s
  <1> DEFINE t == FixupDanglingGroups(s)
  <1>1. t.profiles = s.profiles
    <2>1. t.profiles = [i \in DOMAIN s.profiles |->
              [id |-> s.profiles[i].id, name |-> s.profiles[i].name, end |-> s.profiles[i].end,
               custom |-> s.profiles[i].custom, sub |-> s.profiles[i].sub, via |-> s.profiles[i].via,
               group |-> IF s.profiles[i].group \in Ids(s.groups) THEN s.profiles[i].group ELSE Base]]
      BY DEF FixupDanglingGroups, Doc
    <2>2. \A i \in DOMAIN s.profiles : s.profiles[i].group \in Ids(s.groups)
      BY DEF GroupsResolve
    <2>3. t.profiles = [i \in DOMAIN s.profiles |-> ProfileFields(s.profiles[i])]
      BY <2>1, <2>2 DEF ProfileFields
    <2> QED
      BY <2>3 DEF Shaped
  <1>2. t.groups = s.groups
    <2>1. t.groups = [i \in DOMAIN s.groups |->
              [id |-> s.groups[i].id, name |-> s.groups[i].name,
               owner |-> IF s.groups[i].owner \in Ids(s.subs) THEN s.groups[i].owner ELSE None]]
      BY DEF FixupDanglingGroups, Doc
    <2>2. \A i \in DOMAIN s.groups : s.groups[i].owner \in Ids(s.subs) \cup {None}
      BY DEF GroupsResolve
    <2>3. t.groups = [i \in DOMAIN s.groups |-> GroupFields(s.groups[i])]
      BY <2>1, <2>2 DEF GroupFields
    <2> QED
      BY <2>3 DEF Shaped
  <1>3. t.subs = s.subs
    <2>1. t.subs = [i \in DOMAIN s.subs |->
              [id |-> s.subs[i].id, name |-> s.subs[i].name, enabled |-> s.subs[i].enabled,
               configs |-> s.subs[i].configs, pending |-> s.subs[i].pending, answered |-> s.subs[i].answered,
               target |-> IF s.subs[i].target \in Ids(s.groups) \cup {None} THEN s.subs[i].target ELSE Base]]
      BY DEF FixupDanglingGroups, Doc
    <2>2. \A i \in DOMAIN s.subs : s.subs[i].target \in Ids(s.groups) \cup {None}
      BY DEF GroupsResolve
    <2>3. t.subs = [i \in DOMAIN s.subs |-> SubFields(s.subs[i])]
      BY <2>1, <2>2 DEF SubFields
    <2> QED
      BY <2>3 DEF Shaped
  <1>4. t = Doc(t.profiles, t.groups, t.subs, s.blocks, s.routes, s.active, s.dedup, s.legacy)
    BY DEF FixupDanglingGroups, Doc
  <1> HIDE DEF t
  <1>5. t = s
    BY <1>1, <1>2, <1>3, <1>4 DEF Whole
  <1> QED
    BY <1>5 DEF t

LEMMA ActiveRuleKeeps ==
  ASSUME NEW s, Whole(s), s.active \in Ids(s.profiles) \cup {None}
  PROVE  FixupActiveId(s) = s
  BY DEF FixupActiveId, Whole

LEMMA ViaRuleKeeps ==
  ASSUME NEW s, Whole(s), Shaped(s), ProfilesResolve(s)
  PROVE  FixupDanglingVia(s) = s
  <1> DEFINE t == FixupDanglingVia(s)
  <1>1. t.profiles = [i \in DOMAIN s.profiles |->
              [id |-> s.profiles[i].id, name |-> s.profiles[i].name, end |-> s.profiles[i].end,
               custom |-> s.profiles[i].custom, sub |-> s.profiles[i].sub, group |-> s.profiles[i].group,
               via |-> IF s.profiles[i].via \in Ids(s.profiles) \ {s.profiles[i].id} THEN s.profiles[i].via ELSE None]]
    BY DEF FixupDanglingVia, Doc
  <1>2. \A i \in DOMAIN s.profiles : s.profiles[i].via \in (Ids(s.profiles) \ {s.profiles[i].id}) \cup {None}
    BY DEF ProfilesResolve
  <1>3. t.profiles = [i \in DOMAIN s.profiles |-> ProfileFields(s.profiles[i])]
    BY <1>1, <1>2 DEF ProfileFields
  <1>4. t = Doc(t.profiles, s.groups, s.subs, s.blocks, s.routes, s.active, s.dedup, s.legacy)
    BY DEF FixupDanglingVia, Doc
  <1> HIDE DEF t
  <1>5. t = s
    BY <1>3, <1>4 DEF Whole, Shaped
  <1> QED
    BY <1>5 DEF t

RouteFields(r) == [id |-> r.id, final |-> r.final, source |-> r.source, enabled |-> r.enabled,
                   blocks |-> r.blocks, profiles |-> r.profiles, groups |-> r.groups]
Routed(s) ==
  /\ s.legacy = None /\ s.routes[1].id = Default
  /\ \E n \in Nat \ {0} : s.routes = [i \in 1 .. n |-> RouteFields(s.routes[i])]
  /\ \A i \in DOMAIN s.routes : s.routes[i].id = Default => s.routes[i].enabled = TRUE /\ s.routes[i].groups = {}

LEMMA RoutesRuleKeeps ==
  ASSUME NEW s, Whole(s), Routed(s), RoutesResolve(s)
  PROVE  NormalizeRoutes(s) = s
  <1> DEFINE t == FixRoutes(s, s.routes)
  <1>1. PICK n \in Nat \ {0} : s.routes = [i \in 1 .. n |-> RouteFields(s.routes[i])]
    BY DEF Routed
  <1>2. EnsureDefaultRoute(s.routes) = s.routes
    <2>1. s.routes = [i \in 1 .. n |-> s.routes[i]]
      BY <1>1
    <2> QED
      BY <2>1, DefaultStaysFirst DEF Routed
  <1>3. NormalizeRoutes(s) = t
    BY <1>2 DEF NormalizeRoutes, FoldLegacyRules, WithDefaultRoute, Routed
  <1>4. t.routes = [i \in DOMAIN s.routes |->
          [id |-> s.routes[i].id, final |-> s.routes[i].final, source |-> s.routes[i].source,
           enabled |-> IF s.routes[i].id = Default THEN TRUE ELSE s.routes[i].enabled,
           blocks |-> s.routes[i].blocks \cap Ids(s.blocks),
           profiles |-> {p \in s.routes[i].profiles \cap Ids(s.profiles) :
                           \A j \in {k \in DOMAIN s.routes : k < i} : p \notin s.routes[j].profiles},
           groups |-> {g \in s.routes[i].groups \cap Ids(s.groups) :
                         /\ s.routes[i].id # Default
                         /\ \A j \in {k \in DOMAIN s.routes : k < i} :
                              s.routes[j].id = Default \/ g \notin s.routes[j].groups}]]
    BY DEF FixRoutes, Doc
  <1>5. ASSUME NEW i \in DOMAIN s.routes
        PROVE  /\ s.routes[i].blocks \cap Ids(s.blocks) = s.routes[i].blocks
               /\ {p \in s.routes[i].profiles \cap Ids(s.profiles) :
                     \A j \in {k \in DOMAIN s.routes : k < i} : p \notin s.routes[j].profiles} = s.routes[i].profiles
               /\ {g \in s.routes[i].groups \cap Ids(s.groups) :
                     /\ s.routes[i].id # Default
                     /\ \A j \in {k \in DOMAIN s.routes : k < i} :
                          s.routes[j].id = Default \/ g \notin s.routes[j].groups} = s.routes[i].groups
               /\ (IF s.routes[i].id = Default THEN TRUE ELSE s.routes[i].enabled) = s.routes[i].enabled
    <2>1. s.routes[i].profiles \subseteq Ids(s.profiles) /\ s.routes[i].groups \subseteq Ids(s.groups)
          /\ s.routes[i].blocks \subseteq Ids(s.blocks)
      BY DEF RoutesResolve
    <2>2. \A j \in DOMAIN s.routes : j < i => /\ s.routes[j].profiles \cap s.routes[i].profiles = {}
                                              /\ s.routes[j].groups \cap s.routes[i].groups = {}
      BY DEF RoutesResolve
    <2>3. s.routes[i].id = Default => s.routes[i].enabled = TRUE /\ s.routes[i].groups = {}
      BY DEF Routed
    <2> QED
      BY <2>1, <2>2, <2>3
  <1>6. t.routes = [i \in DOMAIN s.routes |-> RouteFields(s.routes[i])]
    BY <1>4, <1>5, Zenon DEF RouteFields
  <1>7. t.routes = s.routes
    BY <1>1, <1>6
  <1>8. t = Doc(s.profiles, s.groups, s.subs, s.blocks, t.routes, s.active, s.dedup, s.legacy)
    BY DEF FixRoutes, Doc
  <1> HIDE DEF t
  <1>9. t = s
    BY <1>7, <1>8 DEF Whole
  <1> QED
    BY <1>3, <1>9 DEF t

(* What the chain returns is written by its rules throughout.               *)
LEMMA ChainShapes ==
  ASSUME NEW s, NEW S, s.routes \in Seq(S)
  PROVE  Whole(Chain(s)) /\ Shaped(Chain(s)) /\ Routed(Chain(s)) /\ Ids(Chain(s).groups) = Ids(s.groups)
  <1> DEFINE a == FixupDanglingGroups(s)
             b == FixupActiveId(a)
             c == FixupDanglingVia(b)
             e == FoldLegacyRules(c)
             R == EnsureDefaultRoute(e.routes)
             t == FixRoutes(e, R)
  <1>1. Chain(s) = t
    BY DEF Chain, NormalizeRoutes, WithDefaultRoute
  <1>2. /\ t.profiles = c.profiles /\ t.groups = a.groups /\ t.subs = a.subs
        /\ a.routes = s.routes /\ b.routes = a.routes /\ c.routes = b.routes
    <2>1. a.routes = s.routes
      BY DEF FixupDanglingGroups, Doc
    <2>2. b.groups = a.groups /\ b.subs = a.subs /\ b.routes = a.routes
      BY DEF FixupActiveId, Doc
    <2>3. c.groups = b.groups /\ c.subs = b.subs /\ c.routes = b.routes
      BY DEF FixupDanglingVia, Doc
    <2>4. e.profiles = c.profiles /\ e.groups = c.groups /\ e.subs = c.subs
      BY LegacyRule
    <2>5. t.profiles = e.profiles /\ t.groups = e.groups /\ t.subs = e.subs
      BY DEF FixRoutes, Doc
    <2> HIDE DEF a, b, c, e, t
    <2> QED
      BY <2>1, <2>2, <2>3, <2>4, <2>5
  <1>3. Shaped(t) /\ Ids(t.groups) = Ids(s.groups)
    <2>1. c.profiles = [i \in DOMAIN b.profiles |->
            [id |-> b.profiles[i].id, name |-> b.profiles[i].name, end |-> b.profiles[i].end,
             custom |-> b.profiles[i].custom, sub |-> b.profiles[i].sub, group |-> b.profiles[i].group,
             via |-> IF b.profiles[i].via \in Ids(b.profiles) \ {b.profiles[i].id} THEN b.profiles[i].via ELSE None]]
      BY DEF FixupDanglingVia, Doc
    <2>2. a.groups = [i \in DOMAIN s.groups |-> [id |-> s.groups[i].id, name |-> s.groups[i].name,
            owner |-> IF s.groups[i].owner \in Ids(s.subs) THEN s.groups[i].owner ELSE None]]
      BY DEF FixupDanglingGroups, Doc
    <2>3. a.subs = [i \in DOMAIN s.subs |->
            [id |-> s.subs[i].id, name |-> s.subs[i].name, enabled |-> s.subs[i].enabled,
             configs |-> s.subs[i].configs, pending |-> s.subs[i].pending, answered |-> s.subs[i].answered,
             target |-> IF s.subs[i].target \in Ids(s.groups) \cup {None} THEN s.subs[i].target ELSE Base]]
      BY DEF FixupDanglingGroups, Doc
    <2> HIDE DEF a, b, c, e, t
    <2>4. c.profiles = [i \in DOMAIN c.profiles |-> ProfileFields(c.profiles[i])]
      BY <2>1 DEF ProfileFields
    <2>5. a.groups = [i \in DOMAIN a.groups |-> GroupFields(a.groups[i])]
      BY <2>2 DEF GroupFields
    <2>6. a.subs = [i \in DOMAIN a.subs |-> SubFields(a.subs[i])]
      BY <2>3 DEF SubFields
    <2>7. Ids(a.groups) = Ids(s.groups)
      BY <2>2 DEF Ids
    <2> QED
      BY <1>2, <2>4, <2>5, <2>6, <2>7 DEF Shaped
  <1>4. e.legacy = None /\ \E T : e.routes \in Seq(T)
    <2>1. CASE c.legacy = None
      BY <1>2, <2>1 DEF FoldLegacyRules
    <2>2. CASE c.legacy # None
      <3> DEFINE E == EnsureDefaultRoute(c.routes)
                 id == UniqueBlockId(c)
      <3>1. e.legacy = None /\ e.routes = [E EXCEPT ![1].blocks = @ \cup {id}]
        BY <2>2 DEF FoldLegacyRules, FoldInto, Doc
      <3>2. c.routes \in Seq(S)
        BY <1>2
      <3>3. PICK n \in Nat \ {0} : DOMAIN E = 1 .. n
        <4> HIDE DEF c
        <4> QED
          BY <3>2, DefaultComesFirst
      <3> HIDE DEF E, e, id
      <3>4. e.routes = [i \in 1 .. n |-> e.routes[i]]
        BY <3>1, <3>3
      <3>5. e.routes \in Seq({e.routes[i] : i \in 1 .. n})
        BY <3>4
      <3> QED
        BY <3>1, <3>5
    <2> QED
      BY <2>1, <2>2
  <1>5. PICK n \in Nat \ {0} : DOMAIN R = 1 .. n /\ R[1].id = Default
    <2> HIDE DEF e
    <2> QED
      BY <1>4, DefaultComesFirst
  <1>6. /\ t.legacy = e.legacy /\ DOMAIN t.routes = DOMAIN R
        /\ \A i \in DOMAIN R : t.routes[i] = RouteFields(t.routes[i]) /\ t.routes[i].id = R[i].id
        /\ \A i \in DOMAIN R : R[i].id = Default => t.routes[i].enabled = TRUE /\ t.routes[i].groups = {}
        /\ t.routes = [i \in DOMAIN R |-> t.routes[i]]
    <2> DEFINE P(i) == {p \in R[i].profiles \cap Ids(e.profiles) :
                             \A j \in {k \in DOMAIN R : k < i} : p \notin R[j].profiles}
               G(i) == {g \in R[i].groups \cap Ids(e.groups) :
                           /\ R[i].id # Default
                           /\ \A j \in {k \in DOMAIN R : k < i} : R[j].id = Default \/ g \notin R[j].groups}
    <2> HIDE DEF R, e
    <2>1. t.routes = [i \in DOMAIN R |->
            [id |-> R[i].id, final |-> R[i].final, source |-> R[i].source,
             enabled |-> IF R[i].id = Default THEN TRUE ELSE R[i].enabled,
             blocks |-> R[i].blocks \cap Ids(e.blocks), profiles |-> P(i), groups |-> G(i)]]
      BY DEF FixRoutes, Doc
    <2>2. t.legacy = e.legacy
      BY DEF FixRoutes, Doc
    <2>3. \A i \in DOMAIN R : R[i].id = Default => G(i) = {}
      OBVIOUS
    <2> HIDE DEF t, P, G
    <2>4. DOMAIN t.routes = DOMAIN R /\ t.routes = [i \in DOMAIN R |-> t.routes[i]]
      BY <2>1
    <2>5. ASSUME NEW i \in DOMAIN R
          PROVE  /\ t.routes[i] = RouteFields(t.routes[i]) /\ t.routes[i].id = R[i].id
                 /\ R[i].id = Default => t.routes[i].enabled = TRUE /\ t.routes[i].groups = {}
      <3>1. t.routes[i] = [id |-> R[i].id, final |-> R[i].final, source |-> R[i].source,
              enabled |-> IF R[i].id = Default THEN TRUE ELSE R[i].enabled,
              blocks |-> R[i].blocks \cap Ids(e.blocks), profiles |-> P(i), groups |-> G(i)]
        BY <2>1
      <3>2. t.routes[i] = RouteFields(t.routes[i]) /\ t.routes[i].id = R[i].id
        BY <3>1 DEF RouteFields
      <3>3. R[i].id = Default => t.routes[i].enabled = TRUE /\ t.routes[i].groups = G(i)
        BY <3>1
      <3> QED
        BY <2>3, <3>2, <3>3
    <2> QED
      BY <2>2, <2>4, <2>5
  <1>7. Routed(t)
    <2> HIDE DEF t, R, e
    <2>1. t.legacy = None /\ t.routes[1].id = Default
      BY <1>4, <1>5, <1>6
    <2>2. t.routes = [i \in 1 .. n |-> RouteFields(t.routes[i])]
      <3>1. t.routes = [i \in 1 .. n |-> t.routes[i]]
        BY <1>5, <1>6
      <3>2. \A i \in 1 .. n : t.routes[i] = RouteFields(t.routes[i])
        BY <1>5, <1>6
      <3> QED
        BY <3>1, <3>2
    <2>3. \A i \in DOMAIN t.routes : t.routes[i].id = Default => t.routes[i].enabled = TRUE /\ t.routes[i].groups = {}
      BY <1>6
    <2> QED
      BY <2>1, <2>2, <2>3 DEF Routed
  <1>8. Whole(t)
    BY DEF Whole, FixRoutes, Doc
  <1> QED
    BY <1>1, <1>3, <1>7, <1>8

(* A document as the chain leaves it is left alone by the normalizer, and   *)
(* by the chain: what a write puts on disk is what the next read shows, for *)
(* every document with a list of routes and the base group (default_chain,  *)
(* normalize_app_state).                                                    *)
THEOREM ChainReadsBack ==
  ASSUME NEW s, NEW S, s.routes \in Seq(S), Base \in Ids(s.groups)
  PROVE  Normalize(Chain(s)) = Chain(s) /\ Chain(Chain(s)) = Chain(s)
  <1> DEFINE t == Chain(s)
  <1>1. Whole(t) /\ Shaped(t) /\ Routed(t) /\ Base \in Ids(t.groups)
    BY ChainShapes
  <1>2. Resolves(t)
    BY ChainResolves
  <1> HIDE DEF t
  <1>3. EnsureBaseGroup(t) = t
    BY <1>1 DEF EnsureBaseGroup
  <1>4. FixupDanglingGroups(t) = t
    BY <1>1, <1>2, GroupsRuleKeeps DEF Resolves
  <1>5. FixupActiveId(t) = t
    BY <1>1, <1>2, ActiveRuleKeeps DEF Resolves, ProfilesResolve
  <1>6. FixupDanglingVia(t) = t
    BY <1>1, <1>2, ViaRuleKeeps DEF Resolves
  <1>7. NormalizeRoutes(t) = t
    BY <1>1, <1>2, RoutesRuleKeeps DEF Resolves
  <1>8. Normalize(t) = t /\ Chain(t) = t
    BY <1>3, <1>4, <1>5, <1>6, <1>7 DEF Normalize, Chain
  <1> QED
    BY <1>8 DEF t

-----------------------------------------------------------------------------
(* The shape of the document *)

(* Where a kept item is found: for each rank there is a kept place with     *)
(* that many kept before it (Kept).                                         *)
LEMMA PlaceOfRank ==
  ASSUME NEW n \in Nat, NEW A \in SUBSET (1 .. n), NEW k \in 1 .. Cardinality(A)
  PROVE  \E i \in A : Cardinality({j \in A : j < i}) = k - 1
  <1> DEFINE Lower(i) == {j \in A : j < i}
             B == {i \in 1 .. n + 1 : k <= Cardinality(Lower(i))}
  <1>1. IsFiniteSet(A) /\ Cardinality(A) \in Nat
    <2>1. IsFiniteSet(1 .. n)
      BY FS_Interval
    <2> QED
      BY <2>1, FS_Subset, FS_CardinalityType
  <1>2. \A i \in 1 .. n + 1 : IsFiniteSet(Lower(i)) /\ Cardinality(Lower(i)) \in Nat
    <2>1. \A i \in 1 .. n + 1 : Lower(i) \in SUBSET A
      OBVIOUS
    <2> HIDE DEF Lower
    <2> QED
      BY <1>1, <2>1, FS_Subset, FS_CardinalityType
  <1>13. \A j \in A : j \in Nat /\ 1 <= j /\ j <= n
    OBVIOUS
  <1>3. Lower(n + 1) = A /\ Lower(1) = {}
    <2>1. \A j \in A : j < n + 1 /\ ~(j < 1)
      BY <1>13
    <2>2. Lower(n + 1) = A
      BY <2>1
    <2>3. Lower(1) = {}
      BY <2>1
    <2> QED
      BY <2>2, <2>3
  <1>4. ASSUME NEW m \in 2 .. n + 1
        PROVE  /\ m - 1 \notin Lower(m - 1)
               /\ m - 1 \notin A => Lower(m) = Lower(m - 1)
               /\ m - 1 \in A => Lower(m) = Lower(m - 1) \cup {m - 1}
    <2>1. \A j \in A : j < m <=> (j < m - 1 \/ j = m - 1)
      BY <1>13
    <2>2. m - 1 \notin Lower(m - 1)
      OBVIOUS
    <2>3. ASSUME m - 1 \notin A PROVE Lower(m) = Lower(m - 1)
      BY <2>1, <2>3
    <2>4. ASSUME m - 1 \in A PROVE Lower(m) = Lower(m - 1) \cup {m - 1}
      <3>1. \A j : j \in Lower(m) <=> j \in Lower(m - 1) \cup {m - 1}
        BY <2>1, <2>4
      <3> QED
        BY <3>1
    <2> QED
      BY <2>2, <2>3, <2>4
  <1> HIDE DEF Lower
  <1>6. n + 1 \in B /\ 1 \notin B
    BY <1>1, <1>3, FS_EmptySet
  <1>7. PICK m \in B : \A j \in B : m <= j
    <2>1. B \in SUBSET (1 .. n + 1) /\ B # {} /\ n + 1 \in Nat
      BY <1>6
    <2> HIDE DEF B
    <2> QED
      BY <2>1, LeastOf
  <1>8. m \in 2 .. n + 1 /\ m - 1 \in 1 .. n + 1 /\ m - 1 \notin B
    <2>1. m \in 1 .. n + 1 /\ m # 1
      BY <1>6
    <2>2. m - 1 \notin B
      BY <2>1, <1>7
    <2> QED
      BY <2>1, <2>2
  <1>9. Cardinality(Lower(m - 1)) < k /\ k <= Cardinality(Lower(m))
    BY <1>2, <1>8
  <1>10. m - 1 \in A
    BY <1>4, <1>8, <1>9, <1>2
  <1>11. Cardinality(Lower(m)) = Cardinality(Lower(m - 1)) + 1
    <2>1. Lower(m) = Lower(m - 1) \cup {m - 1}
      BY <1>4, <1>8, <1>10
    <2> QED
      BY <2>1, <1>2, <1>4, <1>8, FS_AddElement
  <1>12. Cardinality(Lower(m - 1)) = k - 1
    BY <1>9, <1>11, <1>2, <1>8
  <1> QED
    BY <1>10, <1>12 DEF Lower

(* A sublist is a list of the same things (Kept, Drop).                     *)
LEMMA KeptTyped ==
  ASSUME NEW S, NEW q \in Seq(S), NEW A \in SUBSET DOMAIN q
  PROVE  Kept(q, A) \in Seq(S)
  <1> DEFINE At(k) == CHOOSE i \in A : Cardinality({j \in A : j < i}) = k - 1
  <1>1. Len(q) \in Nat /\ DOMAIN q = 1 .. Len(q)
    OBVIOUS
  <1>2. Cardinality(A) \in Nat
    <2>1. IsFiniteSet(1 .. Len(q))
      BY <1>1, FS_Interval
    <2> QED
      BY <1>1, <2>1, FS_Subset, FS_CardinalityType
  <1>3. \A k \in 1 .. Cardinality(A) : At(k) \in A
    BY <1>1, PlaceOfRank
  <1> HIDE DEF At
  <1>4. \A k \in 1 .. Cardinality(A) : q[At(k)] \in S
    BY <1>1, <1>3
  <1>5. Kept(q, A) = [k \in 1 .. Cardinality(A) |-> q[At(k)]]
    BY DEF Kept, At
  <1> QED
    BY <1>2, <1>4, <1>5

LEMMA DropTyped ==
  ASSUME NEW S, NEW q \in Seq(S), NEW gone
  PROVE  Drop(q, gone) \in Seq(S)
  BY KeptTyped DEF Drop, Where

LEMMA GetTyped ==
  ASSUME NEW S, NEW q \in Seq(S), NEW id \in Ids(q)
  PROVE  Get(q, id) \in S /\ Get(q, id).id = id
  BY FirstWith DEF Get

LEMMA UpsertTyped ==
  ASSUME NEW S, NEW q \in Seq(S), NEW x \in S
  PROVE  Upsert(q, x) \in Seq(S)
  <1>1. CASE x.id \in Ids(q)
    <2>1. IndexOf(q, x.id) \in 1 .. Len(q)
      BY <1>1, FirstWith
    <2> QED
      BY <1>1, <2>1 DEF Upsert
  <1>2. CASE x.id \notin Ids(q)
    BY <1>2 DEF Upsert
  <1> QED
    BY <1>1, <1>2

LEMMA RemoveAtTyped ==
  ASSUME NEW S, NEW q \in Seq(S), NEW i \in 1 .. Len(q)
  PROVE  RemoveAt(q, i) \in Seq(S) /\ Len(RemoveAt(q, i)) = Len(q) - 1
  <1>1. SubSeq(q, 1, i - 1) \in Seq(S) /\ Len(SubSeq(q, 1, i - 1)) = i - 1
    BY SubSeqProperties
  <1>2. SubSeq(q, i + 1, Len(q)) \in Seq(S) /\ Len(SubSeq(q, i + 1, Len(q))) = Len(q) - i
    BY SubSeqProperties
  <1> QED
    <2> DEFINE a == SubSeq(q, 1, i - 1)
               b == SubSeq(q, i + 1, Len(q))
    <2>1. RemoveAt(q, i) = a \o b
      BY DEF RemoveAt
    <2> HIDE DEF a, b
    <2>2. a \o b \in Seq(S) /\ Len(a \o b) = Len(a) + Len(b)
      BY <1>1, <1>2, ConcatProperties DEF a, b
    <2>3. Len(a) + Len(b) = Len(q) - 1
      <3>1. Len(a) = i - 1 /\ Len(b) = Len(q) - i
        BY <1>1, <1>2 DEF a, b
      <3>2. i \in Int /\ Len(q) \in Nat
        OBVIOUS
      <3> QED
        BY <3>1, <3>2
    <2> QED
      BY <2>1, <2>2, <2>3

LEMMA InsertAtTyped ==
  ASSUME NEW S, NEW q \in Seq(S), NEW i \in 1 .. Len(q) + 1, NEW x \in S
  PROVE  InsertAt(q, i, x) \in Seq(S)
  <1>1. SubSeq(q, 1, i - 1) \in Seq(S) /\ SubSeq(q, i, Len(q)) \in Seq(S)
    BY SubSeqProperties
  <1> QED
    BY <1>1 DEF InsertAt

LEMMA MoveItemTyped ==
  ASSUME NEW S, NEW q \in Seq(S), NEW from, NEW to
  PROVE  MoveItem(q, from, to) \in Seq(S)
  <1>1. CASE from = to \/ {from, to} \cap DOMAIN q # {from, to}
    BY <1>1 DEF MoveItem
  <1>2. CASE ~(from = to \/ {from, to} \cap DOMAIN q # {from, to})
    <2>1. from \in DOMAIN q /\ to \in DOMAIN q
      BY <1>2, Zenon
    <2>5. from \in 1 .. Len(q) /\ to \in 1 .. Len(q) /\ q[from] \in S
      BY <2>1
    <2>2. RemoveAt(q, from) \in Seq(S) /\ Len(RemoveAt(q, from)) = Len(q) - 1
      BY <2>5, RemoveAtTyped
    <2>3. to \in 1 .. Len(RemoveAt(q, from)) + 1
      BY <2>5, <2>2
    <2> QED
      BY <1>2, <2>5, <2>2, <2>3, InsertAtTyped DEF MoveItem
  <1> QED
    BY <1>1, <1>2

(* A document of the shape every reader expects, no proposal of which is    *)
(* both pending and answered.                                               *)
Asked == {u \in Subscription : AsksOnce(u)}
WellFormed(d) ==
  d \in [profiles: Seq(Profile), groups: Seq(Group), subs: Seq(Asked),
         blocks: Seq(RuleBlock), routes: Seq(Route),
         active: AllProfiles \cup {None}, dedup: BOOLEAN,
         legacy: AllProfiles \cup {Proxy, None}]

LEMMA WellFormedIs ==
  ASSUME NEW d
  PROVE  WellFormed(d) <=> d \in Document /\ AsksEachOnce(d.subs)
  <1>1. ASSUME WellFormed(d) PROVE d \in Document /\ AsksEachOnce(d.subs)
    <2>1. d.subs \in Seq(Asked) /\ Asked \subseteq Subscription
      BY <1>1 DEF WellFormed, Asked
    <2>2. d.subs \in Seq(Subscription)
      BY <2>1
    <2>3. AsksEachOnce(d.subs)
      BY <2>1 DEF AsksEachOnce, Asked
    <2> QED
      BY <1>1, <2>2, <2>3 DEF WellFormed, Document
  <1>2. ASSUME d \in Document, AsksEachOnce(d.subs) PROVE WellFormed(d)
    <2>1. d.subs \in Seq(Subscription)
      BY <1>2 DEF Document
    <2>2. d.subs \in Seq(Asked)
      BY <1>2, <2>1 DEF AsksEachOnce, Asked
    <2> QED
      BY <1>2, <2>2 DEF WellFormed, Document
  <1> QED
    BY <1>1, <1>2

LEMMA FieldsTyped ==
  ASSUME NEW s, WellFormed(s)
  PROVE  /\ s.profiles \in Seq(Profile) /\ s.groups \in Seq(Group)
         /\ s.subs \in Seq(Asked) /\ s.blocks \in Seq(RuleBlock)
         /\ s.routes \in Seq(Route) /\ s.active \in AllProfiles \cup {None}
         /\ s.dedup \in BOOLEAN /\ s.legacy \in AllProfiles \cup {Proxy, None}
  BY DEF WellFormed

LEMMA DocTyped ==
  ASSUME NEW p \in Seq(Profile), NEW g \in Seq(Group), NEW u \in Seq(Asked),
         NEW b \in Seq(RuleBlock), NEW r \in Seq(Route),
         NEW a \in AllProfiles \cup {None}, NEW d \in BOOLEAN,
         NEW l \in AllProfiles \cup {Proxy, None}
  PROVE  WellFormed(Doc(p, g, u, b, r, a, d, l))
  BY DEF WellFormed, Doc

(* The rules keep the shape (default_chain, normalize_app_state).           *)
LEMMA GroupsRuleTyped ==
  ASSUME NEW s, WellFormed(s)
  PROVE  WellFormed(FixupDanglingGroups(s))
  <1> DEFINE known == Ids(s.groups)
             Fix(p) == [id |-> p.id, name |-> p.name, end |-> p.end,
                        custom |-> p.custom, sub |-> p.sub, via |-> p.via,
                        group |-> IF p.group \in known THEN p.group ELSE Base]
             FixSub(u) == [id |-> u.id, name |-> u.name, enabled |-> u.enabled,
                           configs |-> u.configs, pending |-> u.pending,
                           answered |-> u.answered,
                           target |-> IF u.target \in known \cup {None}
                                      THEN u.target ELSE Base]
             FixOwner(g) == [id |-> g.id, name |-> g.name,
                             owner |-> IF g.owner \in Ids(s.subs)
                                       THEN g.owner ELSE None]
             ps == [i \in DOMAIN s.profiles |-> Fix(s.profiles[i])]
             gs == [i \in DOMAIN s.groups |-> FixOwner(s.groups[i])]
             us == [i \in DOMAIN s.subs |-> FixSub(s.subs[i])]
  <1>1. /\ s.profiles \in Seq(Profile) /\ s.groups \in Seq(Group)
        /\ s.subs \in Seq(Asked)
    BY FieldsTyped
  <1>2. ps \in Seq(Profile)
    <2>1. \A p \in Profile : Fix(p) \in Profile
      BY IdsAssumption DEF Profile
    <2> HIDE DEF Fix
    <2> QED
      BY <1>1, <2>1
  <1>3. gs \in Seq(Group)
    <2>1. \A g \in Group : FixOwner(g) \in Group
      BY DEF Group
    <2> HIDE DEF FixOwner
    <2> QED
      BY <1>1, <2>1
  <1>4. us \in Seq(Asked)
    <2>1. \A u \in Subscription : FixSub(u) \in Subscription
      BY IdsAssumption DEF Subscription
    <2>2. \A u \in Subscription : AsksOnce(u) => AsksOnce(FixSub(u))
      BY DEF AsksOnce
    <2> HIDE DEF FixSub
    <2>3. \A u \in Asked : FixSub(u) \in Asked
      BY <2>1, <2>2 DEF Asked
    <2> QED
      BY <1>1, <2>3
  <1>5. FixupDanglingGroups(s) = Doc(ps, gs, us, s.blocks, s.routes, s.active, s.dedup, s.legacy)
    BY DEF FixupDanglingGroups
  <1> HIDE DEF ps, gs, us
  <1> QED
    BY <1>2, <1>3, <1>4, <1>5, FieldsTyped, DocTyped

LEMMA ActiveRuleTyped ==
  ASSUME NEW s, WellFormed(s)
  PROVE  WellFormed(FixupActiveId(s))
  <1>1. (IF s.active \in Ids(s.profiles) THEN s.active ELSE None) \in AllProfiles \cup {None}
    BY FieldsTyped
  <1> QED
    BY <1>1, FieldsTyped, DocTyped DEF FixupActiveId

LEMMA ViaRuleTyped ==
  ASSUME NEW s, WellFormed(s)
  PROVE  WellFormed(FixupDanglingVia(s))
  <1> DEFINE Fix(p) == [id |-> p.id, name |-> p.name, end |-> p.end,
                        custom |-> p.custom, sub |-> p.sub, group |-> p.group,
                        via |-> IF p.via \in Ids(s.profiles) \ {p.id}
                                THEN p.via ELSE None]
             ps == [i \in DOMAIN s.profiles |-> Fix(s.profiles[i])]
  <1>1. s.profiles \in Seq(Profile)
    BY FieldsTyped
  <1>2. ps \in Seq(Profile)
    <2>1. \A p \in Profile : Fix(p) \in Profile
      BY DEF Profile
    <2> HIDE DEF Fix
    <2> QED
      BY <1>1, <2>1
  <1>3. FixupDanglingVia(s) = Doc(ps, s.groups, s.subs, s.blocks, s.routes, s.active, s.dedup, s.legacy)
    BY DEF FixupDanglingVia
  <1> HIDE DEF ps
  <1> QED
    BY <1>2, <1>3, FieldsTyped, DocTyped

LEMMA DefaultRouteTyped ==
  DefaultRoute \in Route
  BY DEF DefaultRoute, Route, AllRoutes

LEMMA DefaultFirstTyped ==
  ASSUME NEW r \in Seq(Route)
  PROVE  EnsureDefaultRoute(r) \in Seq(Route) /\ Len(EnsureDefaultRoute(r)) >= 1
  <1>1. CASE Default \in Ids(r)
    <2>1. Get(r, Default) \in Route
      BY <1>1, GetTyped
    <2>2. IndexOf(r, Default) \in 1 .. Len(r)
      BY <1>1, FirstWith
    <2>3. RemoveAt(r, IndexOf(r, Default)) \in Seq(Route)
      BY <2>2, RemoveAtTyped
    <2>4. \A x \in Route, q \in Seq(Route) : <<x>> \o q \in Seq(Route) /\ Len(<<x>> \o q) >= 1
      OBVIOUS
    <2> QED
      BY <1>1, <2>1, <2>3, <2>4 DEF EnsureDefaultRoute
  <1>2. CASE Default \notin Ids(r)
    <2>4. \A x \in Route, q \in Seq(Route) : <<x>> \o q \in Seq(Route) /\ Len(<<x>> \o q) >= 1
      OBVIOUS
    <2> QED
      BY <1>2, <2>4, DefaultRouteTyped DEF EnsureDefaultRoute
  <1> QED
    BY <1>1, <1>2

(* Among one id more than there are blocks, one is free (unique id).        *)
LEMMA FreeBlockId ==
  ASSUME NEW s, WellFormed(s)
  PROVE  UniqueBlockId(s) \in AllBlocks \ Ids(s.blocks)
  <1> DEFINE n == Len(s.blocks)
             Taken(k) == <<"legacy", k>> \in Ids(s.blocks)
             B == {k \in 1 .. n + 1 : ~Taken(k)}
  <1>1. n \in Nat /\ DOMAIN s.blocks = 1 .. n
    BY FieldsTyped
  <1>2. B # {}
    <2> SUFFICES ASSUME \A k \in 1 .. n + 1 : Taken(k)
                 PROVE  FALSE
      OBVIOUS
    <2> DEFINE f == [k \in 1 .. n + 1 |-> CHOOSE i \in 1 .. n : s.blocks[i].id = <<"legacy", k>>]
    <2>1. \A k \in 1 .. n + 1 : \E i \in 1 .. n : s.blocks[i].id = <<"legacy", k>>
      BY <1>1 DEF Ids
    <2>2. \A k \in 1 .. n + 1 : f[k] \in 1 .. n /\ s.blocks[f[k]].id = <<"legacy", k>>
      BY <2>1
    <2>3. f \in [1 .. n + 1 -> 1 .. n]
      BY <2>2
    <2>4. \A j, k \in 1 .. n + 1 : <<"legacy", j>> = <<"legacy", k>> => j = k
      OBVIOUS
    <2>5. IsFiniteSet(1 .. n + 1) /\ Cardinality(1 .. n + 1) = n + 1
      BY <1>1, FS_Interval
    <2>6. IsFiniteSet(1 .. n) /\ Cardinality(1 .. n) = n
      BY <1>1, FS_Interval
    <2> HIDE DEF f
    <2>7. PICK j, k \in 1 .. n + 1 : j # k /\ f[j] = f[k]
      BY <1>1, <2>3, <2>5, <2>6, FS_PigeonHole
    <2> QED
      BY <2>2, <2>4, <2>7
  <1>3. PICK k \in B : \A j \in B : k <= j
    <2>1. B \in SUBSET (1 .. n + 1) /\ n + 1 \in Nat
      BY <1>1
    <2> HIDE DEF B, n
    <2> QED
      BY <1>2, <2>1, LeastOf
  <1>4. \E m \in 1 .. n + 1 : ~Taken(m) /\ \A j \in 1 .. m - 1 : Taken(j)
    <2>3. k \in 1 .. n + 1
      OBVIOUS
    <2>1. \A j \in 1 .. k - 1 : j \in 1 .. n + 1 /\ j \notin B
      <3> HIDE DEF B, n
      <3> QED
        BY <1>1, <1>3, <2>3
    <2> QED
      BY <1>1, <1>3, <2>1
  <1>5. PICK m \in Nat : UniqueBlockId(s) = <<"legacy", m>> /\ ~Taken(m)
    <2> DEFINE Q(m) == ~Taken(m) /\ \A j \in 1 .. m - 1 : Taken(j)
               c == CHOOSE m \in 1 .. n + 1 : Q(m)
    <2> HIDE DEF Q, n
    <2>1. c \in 1 .. n + 1 /\ ~Taken(c)
      BY <1>4 DEF Q
    <2>2. UniqueBlockId(s) = <<"legacy", c>>
      BY Zenon DEF UniqueBlockId, Q, n
    <2> HIDE DEF c
    <2> QED
      BY <1>1, <2>1, <2>2
  <1> QED
    BY <1>5 DEF AllBlocks

LEMMA LegacyRuleTyped ==
  ASSUME NEW s, WellFormed(s)
  PROVE  WellFormed(FoldLegacyRules(s)) /\ FoldLegacyRules(s).legacy = None
  <1>1. CASE s.legacy = None
    BY <1>1 DEF FoldLegacyRules
  <1>2. CASE s.legacy # None
    <2> DEFINE id == UniqueBlockId(s)
               R == EnsureDefaultRoute(s.routes)
               b == [id |-> id, tag |-> s.legacy, source |-> None]
               r == [R EXCEPT ![1].blocks = @ \cup {id}]
               t == Doc(s.profiles, s.groups, s.subs, Append(s.blocks, b), r, s.active, s.dedup, None)
    <2>1. id \in AllBlocks
      BY FreeBlockId
    <2>2. R \in Seq(Route) /\ Len(R) >= 1
      BY FieldsTyped, DefaultFirstTyped
    <2>3. FoldLegacyRules(s) = t
      BY <1>2 DEF FoldLegacyRules, FoldInto
    <2> HIDE DEF id, R
    <2>4. b \in RuleBlock
      BY <1>2, <2>1, FieldsTyped DEF RuleBlock
    <2>5. r \in Seq(Route)
      <3>1. R[1] \in Route /\ 1 \in 1 .. Len(R)
        BY <2>2
      <3>2. [R[1] EXCEPT !.blocks = @ \cup {id}] \in Route
        BY <2>1, <3>1 DEF Route
      <3>3. r = [R EXCEPT ![1] = [R[1] EXCEPT !.blocks = @ \cup {id}]]
        OBVIOUS
      <3> QED
        BY <2>2, <3>1, <3>2, <3>3
    <2> HIDE DEF b, r
    <2>6. Append(s.blocks, b) \in Seq(RuleBlock)
      BY <2>4, FieldsTyped
    <2>7. WellFormed(t)
      BY <2>5, <2>6, FieldsTyped, DocTyped
    <2>8. t.legacy = None
      BY DEF Doc
    <2> QED
      BY <2>3, <2>7, <2>8
  <1> QED
    BY <1>1, <1>2

LEMMA FixRoutesTyped ==
  ASSUME NEW s, WellFormed(s), NEW r \in Seq(Route)
  PROVE  WellFormed(FixRoutes(s, r)) /\ FixRoutes(s, r).legacy = s.legacy
  <1> DEFINE Before(i) == {j \in DOMAIN r : j < i}
             B(i) == r[i].blocks \cap Ids(s.blocks)
             P(i) == {p \in r[i].profiles \cap Ids(s.profiles) :
                        \A j \in Before(i) : p \notin r[j].profiles}
             G(i) == {g \in r[i].groups \cap Ids(s.groups) :
                        /\ r[i].id # Default
                        /\ \A j \in Before(i) : \/ r[j].id = Default
                                                \/ g \notin r[j].groups}
             Fix(i) == [id |-> r[i].id, final |-> r[i].final,
                        source |-> r[i].source,
                        enabled |-> IF r[i].id = Default THEN TRUE ELSE r[i].enabled,
                        blocks |-> B(i), profiles |-> P(i), groups |-> G(i)]
             rs == [i \in DOMAIN r |-> Fix(i)]
  <1>1. \A i \in DOMAIN r : r[i] \in Route
    OBVIOUS
  <1>2. \A i \in DOMAIN r : B(i) \subseteq r[i].blocks /\ P(i) \subseteq r[i].profiles /\ G(i) \subseteq r[i].groups
    OBVIOUS
  <1>3. FixRoutes(s, r) = Doc(s.profiles, s.groups, s.subs, s.blocks, rs, s.active, s.dedup, s.legacy)
    BY DEF FixRoutes
  <1> HIDE DEF B, P, G
  <1>4. \A i \in DOMAIN r : Fix(i) \in Route
    BY <1>1, <1>2 DEF Route
  <1> HIDE DEF Fix
  <1>5. rs \in Seq(Route)
    BY <1>4
  <1> HIDE DEF rs
  <1>6. WellFormed(FixRoutes(s, r))
    BY <1>3, <1>5, FieldsTyped, DocTyped
  <1>7. FixRoutes(s, r).legacy = s.legacy
    BY <1>3 DEF Doc
  <1> QED
    BY <1>6, <1>7

LEMMA RoutesRuleTyped ==
  ASSUME NEW s, WellFormed(s)
  PROVE  WellFormed(NormalizeRoutes(s)) /\ NormalizeRoutes(s).legacy = None
  <1> DEFINE e == FoldLegacyRules(s)
  <1>1. WellFormed(e) /\ e.legacy = None
    BY LegacyRuleTyped
  <1>2. NormalizeRoutes(s) = FixRoutes(e, EnsureDefaultRoute(e.routes))
    BY DEF NormalizeRoutes, WithDefaultRoute
  <1> HIDE DEF e
  <1>3. EnsureDefaultRoute(e.routes) \in Seq(Route)
    BY <1>1, FieldsTyped, DefaultFirstTyped
  <1> QED
    BY <1>1, <1>2, <1>3, FixRoutesTyped

LEMMA ChainTyped ==
  ASSUME NEW s, WellFormed(s)
  PROVE  WellFormed(Chain(s)) /\ Chain(s).legacy = None
  BY GroupsRuleTyped, ActiveRuleTyped, ViaRuleTyped, RoutesRuleTyped DEF Chain

LEMMA ReadTyped ==
  ASSUME NEW s, WellFormed(s)
  PROVE  WellFormed(Normalize(s)) /\ Base \in Ids(Normalize(s).groups)
  <1>1. WellFormed(EnsureBaseGroup(s)) /\ Base \in Ids(EnsureBaseGroup(s).groups)
    <2>1. CASE Base \in Ids(s.groups)
      BY <2>1 DEF EnsureBaseGroup
    <2>2. CASE Base \notin Ids(s.groups)
      <3> DEFINE b == [id |-> Base, name |-> CHOOSE n \in Names : TRUE, owner |-> None]
                 gs == <<b>> \o s.groups
      <3>1. EnsureBaseGroup(s) = Doc(s.profiles, gs, s.subs, s.blocks, s.routes, s.active, s.dedup, s.legacy)
        BY <2>2 DEF EnsureBaseGroup
      <3>2. b \in Group /\ b.id = Base
        BY IdsAssumption DEF Group
      <3> HIDE DEF b
      <3>3. gs \in Seq(Group) /\ 1 \in DOMAIN gs /\ gs[1] = b
        BY <3>2, FieldsTyped
      <3> HIDE DEF gs
      <3>4. EnsureBaseGroup(s).groups = gs
        BY <3>1 DEF Doc
      <3>5. Base \in Ids(gs)
        BY <3>2, <3>3 DEF Ids
      <3> QED
        BY <3>1, <3>3, <3>4, <3>5, FieldsTyped, DocTyped
    <2> QED
      BY <2>1, <2>2
  <1> DEFINE a == FixupDanglingGroups(EnsureBaseGroup(s))
             b == FixupActiveId(a)
             c == FixupDanglingVia(b)
             t == NormalizeRoutes(c)
  <1>2. WellFormed(t)
    BY <1>1, GroupsRuleTyped, ActiveRuleTyped, ViaRuleTyped, RoutesRuleTyped
  <1>3. Ids(a.groups) = Ids(EnsureBaseGroup(s).groups)
    BY DEF FixupDanglingGroups, Doc, Ids
  <1>4. b.groups = a.groups
    BY ActiveRule
  <1>5. c.groups = b.groups
    BY DEF FixupDanglingVia, Doc
  <1>6. t.groups = c.groups
    BY RoutesRule
  <1>7. Normalize(s) = t
    BY DEF Normalize
  <1> HIDE DEF a, b, c, t
  <1> QED
    BY <1>1, <1>2, <1>3, <1>4, <1>5, <1>6, <1>7

(* The first of the places a test picks (SelectInSeq).                      *)
LEMMA LeastIsMin ==
  ASSUME NEW n \in Nat, NEW I \in SUBSET (1 .. n), I # {}
  PROVE  Min(I) \in I /\ \A j \in I : Min(I) <= j
  BY LeastOf DEF Min

(* What an edit makes of a document is a document again.                    *)
LEMMA RenameOwnedGroupTyped ==
  ASSUME NEW s, WellFormed(s), NEW next, next.name \in Names
  PROVE  /\ WellFormed(RenameOwnedGroup(s, next))
         /\ RenameOwnedGroup(s, next).subs = s.subs
  <1>1. CASE next.id \notin Ids(s.subs)
    BY <1>1 DEF RenameOwnedGroup
  <1>2. CASE next.id \in Ids(s.subs)
    <2> DEFINE prev == Get(s.subs, next.id)
               Renamed(g) == IF /\ g.id = next.target /\ g.owner = next.id
                                /\ g.name = prev.name
                             THEN [g EXCEPT !.name = next.name] ELSE g
               gs == [i \in DOMAIN s.groups |-> Renamed(s.groups[i])]
    <2>1. RenameOwnedGroup(s, next) = [s EXCEPT !.groups = gs]
      BY <1>2 DEF RenameOwnedGroup
    <2>2. \A g \in Group : Renamed(g) \in Group
      BY DEF Group
    <2> HIDE DEF Renamed
    <2>3. gs \in Seq(Group)
      BY <2>2, FieldsTyped
    <2> HIDE DEF gs
    <2>4. WellFormed([s EXCEPT !.groups = gs]) /\ [s EXCEPT !.groups = gs].subs = s.subs
      BY <2>3 DEF WellFormed
    <2> QED
      BY <2>1, <2>4
  <1> QED
    BY <1>1, <1>2

LEMMA MigrateProfilesTyped ==
  ASSUME NEW s, WellFormed(s), NEW next, next.target \in Groups \cup {None}
  PROVE  /\ WellFormed(MigrateProfiles(s, next))
         /\ MigrateProfiles(s, next).subs = s.subs
  <1>1. CASE next.id \notin Ids(s.subs) \/ next.target = None
    BY <1>1 DEF MigrateProfiles
  <1>2. CASE ~(next.id \notin Ids(s.subs) \/ next.target = None)
    <2> DEFINE old == Get(s.subs, next.id)
               Moved(p) == IF OwnedBySub(p, old) THEN [p EXCEPT !.group = next.target] ELSE p
               ps == [i \in DOMAIN s.profiles |-> Moved(s.profiles[i])]
    <2>1. MigrateProfiles(s, next) = [s EXCEPT !.profiles = ps]
      BY <1>2 DEF MigrateProfiles
    <2>2. \A p \in Profile : Moved(p) \in Profile
      BY <1>2 DEF Profile
    <2> HIDE DEF Moved
    <2>3. ps \in Seq(Profile)
      BY <2>2, FieldsTyped
    <2> HIDE DEF ps
    <2>4. WellFormed([s EXCEPT !.profiles = ps]) /\ [s EXCEPT !.profiles = ps].subs = s.subs
      BY <2>3 DEF WellFormed
    <2> QED
      BY <2>1, <2>4
  <1> QED
    BY <1>1, <1>2

LEMMA AskedFields ==
  ASSUME NEW u \in Asked
  PROVE  /\ u.id \in SubIds /\ u.name \in Names /\ u.target \in Groups \cup {None}
         /\ u.enabled \in BOOLEAN /\ u.configs \in BOOLEAN
         /\ u.pending \in SUBSET Proposals /\ u.answered \in SUBSET Proposals
         /\ u.pending \cap u.answered = {}
  BY DEF Asked, AsksOnce, Subscription

LEMMA StoreSubTyped ==
  ASSUME NEW s, WellFormed(s), NEW next \in Asked
  PROVE  WellFormed(StoreSub(s, next))
  <1> DEFINE t == MigrateProfiles(RenameOwnedGroup(s, next), next)
  <1>1. WellFormed(t)
    BY AskedFields, RenameOwnedGroupTyped, MigrateProfilesTyped
  <1>2. StoreSub(s, next) = [t EXCEPT !.subs = Upsert(@, next)]
    BY DEF StoreSub
  <1> HIDE DEF t
  <1>3. Upsert(t.subs, next) \in Seq(Asked)
    BY <1>1, FieldsTyped, UpsertTyped
  <1>4. WellFormed([t EXCEPT !.subs = Upsert(t.subs, next)])
    BY <1>1, <1>3 DEF WellFormed
  <1> QED
    BY <1>2, <1>4

LEMMA MergeSubEditTyped ==
  ASSUME NEW next \in Asked, NEW stored \in Asked, NEW original
  PROVE  MergeSubEdit(next, stored, original) \in Asked
  <1>1. MergeSubEdit(next, stored, original) \in Subscription
    BY DEF MergeSubEdit, Asked, Subscription
  <1>2. AsksOnce(MergeSubEdit(next, stored, original))
    BY DEF MergeSubEdit, Asked, Subscription, AsksOnce
  <1> QED
    BY <1>1, <1>2 DEF Asked

LEMMA UpsertRouteInTyped ==
  ASSUME NEW s, WellFormed(s), NEW r \in Route
  PROVE  WellFormed(UpsertRouteIn(s, r))
  <1> DEFINE Yields(x) == IF x.id = r.id THEN x
                       ELSE [x EXCEPT !.profiles = @ \ r.profiles, !.groups = @ \ r.groups]
             cut == [i \in DOMAIN s.routes |-> Yields(s.routes[i])]
  <1>1. UpsertRouteIn(s, r) = [s EXCEPT !.routes = Upsert(cut, r)]
    BY DEF UpsertRouteIn
  <1>2. \A x \in Route : Yields(x) \in Route
    BY DEF Route
  <1> HIDE DEF Yields
  <1>3. cut \in Seq(Route)
    BY <1>2, FieldsTyped
  <1> HIDE DEF cut
  <1>4. Upsert(cut, r) \in Seq(Route)
    BY <1>3, UpsertTyped
  <1>5. WellFormed([s EXCEPT !.routes = Upsert(cut, r)])
    BY <1>4 DEF WellFormed
  <1> QED
    BY <1>1, <1>5

LEMMA ImportRoutingTyped ==
  ASSUME NEW s, WellFormed(s), NEW id \in AllBlocks, id \in AllRoutes,
         NEW group \in Groups, NEW source \in SubIds \cup {None},
         NEW rules \in BOOLEAN, NEW enabled \in BOOLEAN
  PROVE  WellFormed(ImportRouting(s, id, group, source, rules, enabled))
  <1> DEFINE b == [id |-> id, tag |-> Proxy, source |-> source]
             blocks == IF rules THEN Upsert(s.blocks, b) ELSE Drop(s.blocks, {id})
             r == [id |-> id, enabled |-> enabled, profiles |-> {},
                   groups |-> {group}, blocks |-> IF rules THEN {id} ELSE {},
                   final |-> Proxy, source |-> source]
  <1>1. b \in RuleBlock
    BY DEF RuleBlock
  <1>2. r \in Route
    BY DEF Route
  <1>3. ImportRouting(s, id, group, source, rules, enabled)
          = UpsertRouteIn([s EXCEPT !.blocks = blocks], r)
    BY DEF ImportRouting
  <1> HIDE DEF b, r
  <1>4. blocks \in Seq(RuleBlock)
    BY <1>1, FieldsTyped, UpsertTyped, DropTyped
  <1> HIDE DEF blocks
  <1>5. WellFormed([s EXCEPT !.blocks = blocks])
    BY <1>4 DEF WellFormed
  <1> QED
    BY <1>2, <1>3, <1>5, UpsertRouteInTyped

LEMMA UnlistedTyped ==
  ASSUME NEW q \in Seq(Route), NEW gone
  PROVE  Unlisted(q, gone) \in Seq(Route)
  <1> DEFINE Fix(r) == [r EXCEPT !.blocks = @ \ gone]
  <1>1. \A r \in Route : Fix(r) \in Route
    BY DEF Route
  <1>2. Unlisted(q, gone) = [i \in DOMAIN q |-> Fix(q[i])]
    BY DEF Unlisted
  <1> HIDE DEF Fix
  <1> QED
    BY <1>1, <1>2

LEMMA WithoutProviderRoutingTyped ==
  ASSUME NEW s, WellFormed(s), NEW id
  PROVE  WellFormed(WithoutProviderRouting(s, id))
  <1> DEFINE gone == Ids(Where(s.blocks, LAMBDA b : b.source = id))
             left == Where(s.routes, LAMBDA r : r.source # id)
             blocks == Drop(s.blocks, gone)
             routes == Unlisted(left, gone)
  <1>1. WithoutProviderRouting(s, id) = [s EXCEPT !.blocks = blocks, !.routes = routes]
    BY DEF WithoutProviderRouting
  <1>2. left \in Seq(Route)
    BY FieldsTyped, KeptTyped DEF Where
  <1> HIDE DEF gone, left
  <1>3. blocks \in Seq(RuleBlock)
    BY FieldsTyped, DropTyped
  <1>5. routes \in Seq(Route)
    BY <1>2, UnlistedTyped
  <1> HIDE DEF blocks, routes
  <1>6. WellFormed([s EXCEPT !.blocks = blocks, !.routes = routes])
    BY <1>3, <1>5 DEF WellFormed
  <1> QED
    BY <1>1, <1>6

LEMMA WithoutSubTyped ==
  ASSUME NEW s, WellFormed(s), NEW u
  PROVE  WellFormed(WithoutSub(s, u))
  <1> DEFINE ps == Where(s.profiles, LAMBDA p : ~OwnedBySub(p, u))
             us == Drop(s.subs, {u.id})
             t == [s EXCEPT !.profiles = ps, !.subs = us]
  <1>1. WithoutSub(s, u) = WithoutProviderRouting(t, u.id)
    BY DEF WithoutSub
  <1>2. ps \in Seq(Profile)
    BY FieldsTyped, KeptTyped DEF Where
  <1>3. us \in Seq(Asked)
    BY FieldsTyped, DropTyped
  <1> HIDE DEF ps, us
  <1>4. WellFormed(t)
    BY <1>2, <1>3 DEF WellFormed
  <1> HIDE DEF t
  <1> QED
    BY <1>1, <1>4, WithoutProviderRoutingTyped

LEMMA DisownedTyped ==
  ASSUME NEW q \in Seq(Group), NEW id
  PROVE  Disowned(q, id) \in Seq(Group)
  <1> DEFINE Left(g) == IF g.owner = id THEN [g EXCEPT !.owner = None] ELSE g
  <1>1. \A g \in Group : Left(g) \in Group
    BY DEF Group
  <1>2. Disowned(q, id) = [i \in DOMAIN q |-> Left(q[i])]
    BY DEF Disowned
  <1> HIDE DEF Left
  <1> QED
    BY <1>1, <1>2

LEMMA DeduplicatedTyped ==
  ASSUME NEW q \in Seq(Profile), NEW active, NEW scope
  PROVE  Deduplicated(q, active, scope) \in Seq(Profile)
  BY DropTyped DEF Deduplicated

LEMMA RefreshedIdTyped ==
  ASSUME NEW ps, NEW ref, NEW id, NEW fresh \in Seq(Profile)
  PROVE  RefreshedId(ps, ref, id, fresh) \in AllProfiles \cup {None, ref}
  <1> DEFINE old == Get(ps, ref)
             X == {i \in 1 .. Len(fresh) : SameIdentity(fresh[i], old)}
             Y == {i \in 1 .. Len(fresh) : fresh[i].custom = old.custom /\ fresh[i].name = old.name}
             exact == SelectInSeq(fresh, LAMBDA f : SameIdentity(f, old))
             named == SelectInSeq(fresh, LAMBDA f : /\ f.custom = old.custom
                                                    /\ f.name = old.name)
  <1>1. exact = IF X # {} THEN Min(X) ELSE 0
    BY DEF SelectInSeq
  <1>2. named = IF Y # {} THEN Min(Y) ELSE 0
    BY DEF SelectInSeq
  <1>3. X \in SUBSET (1 .. Len(fresh)) /\ Y \in SUBSET (1 .. Len(fresh)) /\ Len(fresh) \in Nat
    OBVIOUS
  <1>4. RefreshedId(ps, ref, id, fresh) =
          IF ref \notin Ids(ps) \/ old.sub # id THEN ref
          ELSE IF exact # 0 THEN fresh[exact].id
               ELSE IF named # 0 THEN fresh[named].id ELSE None
    BY DEF RefreshedId
  <1> HIDE DEF X, Y, exact, named
  <1>5. exact # 0 => exact \in 1 .. Len(fresh)
    BY <1>1, <1>3, LeastIsMin
  <1>6. named # 0 => named \in 1 .. Len(fresh)
    BY <1>2, <1>3, LeastIsMin
  <1>7. \A i \in 1 .. Len(fresh) : fresh[i].id \in AllProfiles
    <2>1. \A i \in 1 .. Len(fresh) : fresh[i] \in Profile
      OBVIOUS
    <2> QED
      BY <2>1 DEF Profile
  <1> QED
    BY <1>4, <1>5, <1>6, <1>7

LEMMA RepointedTyped ==
  ASSUME NEW s, WellFormed(s), NEW point,
         \A p \in AllProfiles : point[p] \in AllProfiles \cup {None},
         point[Proxy] \in AllProfiles \cup {Proxy, None}
  PROVE  /\ WellFormed(Repointed(s, point))
         /\ Repointed(s, point).profiles = s.profiles
         /\ Repointed(s, point).groups = s.groups
         /\ Repointed(s, point).subs = s.subs
         /\ Repointed(s, point).active = s.active
         /\ Repointed(s, point).dedup = s.dedup
  <1> DEFINE Outbound(tag) == IF point[tag] = None THEN Proxy ELSE point[tag]
             Repoint(r) == [r EXCEPT !.profiles = {point[p] : p \in @} \ {None},
                                     !.final = Outbound(@)]
             Block(b) == [b EXCEPT !.tag = Outbound(@)]
             rs == [i \in DOMAIN s.routes |-> Repoint(s.routes[i])]
             bs == [i \in DOMAIN s.blocks |-> Block(s.blocks[i])]
  <1>1. Repointed(s, point) = [s EXCEPT !.routes = rs, !.blocks = bs]
    BY DEF Repointed
  <1>2. \A t \in AllProfiles \cup {Proxy} : Outbound(t) \in AllProfiles \cup {Proxy}
    OBVIOUS
  <1> HIDE DEF Outbound
  <1>3. \A r \in Route : Repoint(r) \in Route
    <2> SUFFICES ASSUME NEW r \in Route PROVE Repoint(r) \in Route
      OBVIOUS
    <2> DEFINE P == {point[p] : p \in r.profiles} \ {None}
    <2>1. P \in SUBSET AllProfiles
      BY DEF Route
    <2>2. Outbound(r.final) \in AllProfiles \cup {Proxy}
      BY <1>2 DEF Route
    <2> HIDE DEF P
    <2>3. [r EXCEPT !.profiles = P, !.final = Outbound(r.final)] \in Route
      BY <2>1, <2>2 DEF Route
    <2> QED
      BY <2>3 DEF P
  <1>4. \A b \in RuleBlock : Block(b) \in RuleBlock
    BY <1>2 DEF RuleBlock
  <1> HIDE DEF Repoint, Block
  <1>8. s.routes \in Seq(Route) /\ s.blocks \in Seq(RuleBlock)
    BY FieldsTyped
  <1>9. rs \in Seq(Route)
    BY <1>3, <1>8
  <1>5. rs \in Seq(Route) /\ bs \in Seq(RuleBlock)
    BY <1>4, <1>8, <1>9
  <1> HIDE DEF rs, bs
  <1>6. WellFormed([s EXCEPT !.routes = rs, !.blocks = bs])
    BY <1>5 DEF WellFormed
  <1>7. LET t == [s EXCEPT !.routes = rs, !.blocks = bs]
        IN /\ t.profiles = s.profiles /\ t.groups = s.groups /\ t.subs = s.subs
           /\ t.active = s.active /\ t.dedup = s.dedup
    BY DEF WellFormed
  <1> QED
    BY <1>1, <1>6, <1>7

LEMMA RoutingOffTyped ==
  ASSUME NEW s, WellFormed(s), NEW id
  PROVE  WellFormed(RoutingOff(s, id))
  <1> DEFINE Off(r) == IF r.source = id THEN [r EXCEPT !.enabled = FALSE] ELSE r
             rs == [i \in DOMAIN s.routes |-> Off(s.routes[i])]
  <1>1. RoutingOff(s, id) = [s EXCEPT !.routes = rs]
    BY DEF RoutingOff
  <1>2. \A r \in Route : Off(r) \in Route
    BY DEF Route
  <1> HIDE DEF Off
  <1>3. rs \in Seq(Route)
    BY <1>2, FieldsTyped
  <1> HIDE DEF rs
  <1>4. WellFormed([s EXCEPT !.routes = rs])
    BY <1>3 DEF WellFormed
  <1> QED
    BY <1>1, <1>4

(* Enough free ids give every server of a batch its own (the guard of       *)
(* FetchLand).                                                              *)
IdsFor(s, D) ==
  CHOOSE ids \in [D -> Unused(s, FreshIds)] : \A i, j \in D : ids[i] = ids[j] => i = j

LEMMA IdsGiven ==
  ASSUME NEW s, NEW batch, DOMAIN batch = 1 .. Len(batch), Len(batch) \in Nat,
         Cardinality(Unused(s, FreshIds)) >= Len(batch)
  PROVE  /\ IdsFor(s, DOMAIN batch) \in [DOMAIN batch -> Unused(s, FreshIds)]
         /\ \A i, j \in DOMAIN batch : IdsFor(s, DOMAIN batch)[i] = IdsFor(s, DOMAIN batch)[j] => i = j
  <1> DEFINE F == Unused(s, FreshIds)
             D == DOMAIN batch
             I == {ids \in [D -> F] : \A i, j \in D : ids[i] = ids[j] => i = j}
  <1>1. IsFiniteSet(F)
    <2>1. F \in SUBSET FreshIds
      BY DEF Unused
    <2> HIDE DEF F
    <2> QED
      BY <2>1, IdsAssumption, FS_Subset
  <1>2. D = 1 .. Len(batch) /\ Len(batch) \in Nat
    OBVIOUS
  <1>3. I # {}
    <2> DEFINE n == Cardinality(F)
    <2>1. n \in Nat /\ \E f : f \in Bijection(1 .. n, F)
      <3> HIDE DEF F
      <3> QED
        BY <1>1, FS_CardinalityType DEF ExistsBijection
    <2>2. PICK f : f \in Bijection(1 .. n, F)
      BY <2>1
    <2>3. f \in [1 .. n -> F] /\ \A i, j \in 1 .. n : f[i] = f[j] => i = j
      BY <2>2 DEF Bijection, Injection, IsInjective
    <2>4. D \subseteq 1 .. n
      BY <1>2, <2>1
    <2> DEFINE g == [i \in D |-> f[i]]
    <2> HIDE DEF F, D, n
    <2>5. g \in [D -> F] /\ \A i, j \in D : g[i] = g[j] => i = j
      BY <2>3, <2>4
    <2> HIDE DEF g
    <2>6. g \in I
      BY <2>5
    <2> QED
      BY <2>6
  <1> HIDE DEF F, D
  <1>4. \E ids \in [D -> F] : \A i, j \in D : ids[i] = ids[j] => i = j
    BY <1>3
  <1> DEFINE ids == IdsFor(s, D)
  <1>6. ids = CHOOSE f \in [D -> F] : \A i, j \in D : f[i] = f[j] => i = j
    BY DEF IdsFor, F
  <1> HIDE DEF ids
  <1>5. ids \in [D -> F] /\ \A i, j \in D : ids[i] = ids[j] => i = j
    BY <1>4, <1>6
  <1> QED
    BY <1>5 DEF F, D, ids

LEMMA MappedTyped ==
  ASSUME NEW s, NEW u \in Subscription, NEW batch \in Seq([name: Names, end: Ends, custom: BOOLEAN]),
         Cardinality(Unused(s, FreshIds)) >= Len(batch)
  PROVE  Mapped(s, u, batch) \in Seq(Profile)
  <1> DEFINE F == Unused(s, FreshIds)
             D == DOMAIN batch
             ids == IdsFor(s, D)
             Of(i) == [id |-> ids[i], name |-> batch[i].name, end |-> batch[i].end,
                       custom |-> batch[i].custom, sub |-> u.id, via |-> None,
                       group |-> IF u.target = None THEN Base ELSE u.target]
  <1>2. D = 1 .. Len(batch) /\ Len(batch) \in Nat
    OBVIOUS
  <1>4. ids \in [D -> F]
    BY <1>2, IdsGiven
  <1>5. \A i \in D : ids[i] \in AllProfiles
    <2> HIDE DEF ids, D
    <2> QED
      BY <1>4 DEF Unused, AllProfiles
  <1>6. Mapped(s, u, batch) = [i \in D |-> Of(i)]
    BY DEF Mapped, IdsFor
  <1> HIDE DEF ids, F
  <1>7. \A i \in D : Of(i) \in Profile
    <2>1. u.id \in SubIds /\ (IF u.target = None THEN Base ELSE u.target) \in Groups
      BY IdsAssumption DEF Subscription
    <2>2. \A i \in D : batch[i].name \in Names /\ batch[i].end \in Ends /\ batch[i].custom \in BOOLEAN
      <3>1. \A i \in D : batch[i] \in [name: Names, end: Ends, custom: BOOLEAN]
        BY ElementOfSeq, <1>2
      <3> QED
        BY <3>1
    <2> QED
      BY <1>5, <2>1, <2>2 DEF Profile
  <1> HIDE DEF Of, D
  <1> QED
    BY <1>2, <1>6, <1>7

LEMMA RefreshedProfilesTyped ==
  ASSUME NEW s, WellFormed(s), NEW u, NEW fresh \in Seq(Profile)
  PROVE  RefreshedProfiles(s, u, fresh) \in Seq(Profile)
  <1> DEFINE Previous(f) == SelectInSeq(s.profiles, LAMBDA p : p.sub = u.id /\ SameIdentity(p, f))
             Carry(f) == IF Previous(f) = 0 THEN f
                         ELSE [f EXCEPT !.via = s.profiles[Previous(f)].via]
             carried == [i \in DOMAIN fresh |-> Carry(fresh[i])]
             left == Where(s.profiles, LAMBDA p : ~OwnedBySub(p, u))
             all == left \o carried
             Follow(p) == IF p.via = None THEN p
                          ELSE [p EXCEPT !.via = RefreshedId(s.profiles, @, u.id, fresh)]
  <1>1. \A f \in Profile : Previous(f) # 0 => s.profiles[Previous(f)] \in Profile
    <2> SUFFICES ASSUME NEW f \in Profile, Previous(f) # 0 PROVE s.profiles[Previous(f)] \in Profile
      OBVIOUS
    <2> DEFINE X == {i \in 1 .. Len(s.profiles) : s.profiles[i].sub = u.id /\ SameIdentity(s.profiles[i], f)}
    <2>1. Previous(f) = IF X # {} THEN Min(X) ELSE 0
      BY DEF SelectInSeq
    <2>2. X \in SUBSET (1 .. Len(s.profiles)) /\ Len(s.profiles) \in Nat
      BY FieldsTyped
    <2> HIDE DEF X, Previous
    <2>3. Previous(f) \in 1 .. Len(s.profiles)
      BY <2>1, <2>2, LeastIsMin
    <2> QED
      BY <2>3, FieldsTyped
  <1> HIDE DEF Previous
  <1>2. \A f \in Profile : Carry(f) \in Profile
    BY <1>1 DEF Profile
  <1>3. \A p \in Profile : Follow(p) \in Profile
    <2> SUFFICES ASSUME NEW p \in Profile PROVE Follow(p) \in Profile
      OBVIOUS
    <2>1. p.via \in AllProfiles \cup {None}
      BY DEF Profile
    <2>2. RefreshedId(s.profiles, p.via, u.id, fresh) \in AllProfiles \cup {None}
      BY <2>1, RefreshedIdTyped
    <2> QED
      BY <2>2 DEF Profile
  <1>4. RefreshedProfiles(s, u, fresh) = [i \in DOMAIN all |-> Follow(all[i])]
    BY DEF RefreshedProfiles, Previous
  <1>5. left \in Seq(Profile)
    BY FieldsTyped, KeptTyped DEF Where
  <1> HIDE DEF Carry, Follow, left
  <1>6. carried \in Seq(Profile)
    BY <1>2
  <1> HIDE DEF carried
  <1>7. all \in Seq(Profile)
    BY <1>5, <1>6
  <1> HIDE DEF all
  <1> QED
    BY <1>3, <1>4, <1>7

LEMMA AppliedTyped ==
  ASSUME NEW s, WellFormed(s), NEW u \in Asked, NEW fresh \in Seq(Profile), NEW answer \in Answer
  PROVE  WellFormed(Applied(s, u, fresh, answer))
  <1> DEFINE point == [p \in AllProfiles \cup {Proxy} |-> RefreshedId(s.profiles, p, u.id, fresh)]
             repointed == Repointed(s, point)
             sub == [u EXCEPT !.name = IF answer.title = None THEN @ ELSE answer.title,
                              !.pending = Offered(u, answer)]
             updated == [repointed EXCEPT
                           !.profiles = RefreshedProfiles(s, u, fresh),
                           !.active = IF @ = None THEN None
                                      ELSE RefreshedId(s.profiles, @, u.id, fresh)]
             owned == RenameOwnedGroup(updated, sub)
             renamed == [owned EXCEPT !.subs = Upsert(@, sub)]
             routed == IF answer.routing = "off" THEN RoutingOff(renamed, u.id) ELSE renamed
  <1>1. WellFormed(repointed) /\ repointed.active = s.active
    <2>1. \A p \in AllProfiles : point[p] \in AllProfiles \cup {None}
      BY RefreshedIdTyped
    <2>2. point[Proxy] \in AllProfiles \cup {Proxy, None}
      BY RefreshedIdTyped
    <2> HIDE DEF point
    <2> QED
      BY <2>1, <2>2, RepointedTyped
  <1>2. sub \in Asked
    <2>1. /\ Offered(u, answer) \in SUBSET Proposals
          /\ Offered(u, answer) \cap u.answered = {}
      BY AskedFields DEF Offered, Proposals
    <2>2. (IF answer.title = None THEN u.name ELSE answer.title) \in Names
      BY AskedFields DEF Answer
    <2>3. sub \in Subscription
      BY <2>1, <2>2 DEF Asked, Subscription
    <2>4. AsksOnce(sub)
      BY <2>1 DEF Asked, Subscription, AsksOnce
    <2> QED
      BY <2>3, <2>4 DEF Asked
  <1> HIDE DEF repointed, sub
  <1>3. WellFormed(updated)
    <2> DEFINE ps == RefreshedProfiles(s, u, fresh)
               a == IF repointed.active = None THEN None
                    ELSE RefreshedId(s.profiles, repointed.active, u.id, fresh)
    <2>1. ps \in Seq(Profile)
      BY RefreshedProfilesTyped
    <2>2. a \in AllProfiles \cup {None}
      <3>1. repointed.active \in AllProfiles \cup {None}
        BY <1>1, FieldsTyped
      <3>2. RefreshedId(s.profiles, repointed.active, u.id, fresh) \in AllProfiles \cup {None, repointed.active}
        BY RefreshedIdTyped
      <3> QED
        BY <3>1, <3>2
    <2>3. updated = [repointed EXCEPT !.profiles = ps, !.active = a]
      OBVIOUS
    <2> HIDE DEF ps, a, updated
    <2>4. WellFormed([repointed EXCEPT !.profiles = ps, !.active = a])
      BY <1>1, <2>1, <2>2 DEF WellFormed
    <2> QED
      BY <2>3, <2>4
  <1> HIDE DEF updated
  <1>4. WellFormed(owned)
    BY <1>2, <1>3, AskedFields, RenameOwnedGroupTyped
  <1> HIDE DEF owned
  <1>5. WellFormed(renamed)
    <2>1. Upsert(owned.subs, sub) \in Seq(Asked)
      BY <1>2, <1>4, FieldsTyped, UpsertTyped
    <2> QED
      BY <1>4, <2>1 DEF WellFormed
  <1> HIDE DEF renamed
  <1>6. WellFormed(routed)
    BY <1>5, RoutingOffTyped
  <1>7. Applied(s, u, fresh, answer) =
          IF s.dedup THEN [routed EXCEPT !.profiles = Deduplicated(@, routed.active, u.target)]
          ELSE routed
    BY DEF Applied, routed, renamed, owned, updated, sub, repointed
  <1> HIDE DEF routed
  <1>8. WellFormed([routed EXCEPT !.profiles = Deduplicated(@, routed.active, u.target)])
    <2>1. Deduplicated(routed.profiles, routed.active, u.target) \in Seq(Profile)
      BY <1>6, FieldsTyped, DeduplicatedTyped
    <2> QED
      BY <1>6, <2>1 DEF WellFormed
  <1> QED
    BY <1>6, <1>7, <1>8

(* A merge says of the current document what the backup says of itself.     *)
LEMMA MatchedIdTyped ==
  ASSUME NEW kind, NEW S, NEW current \in Seq(S), NEW incoming, NEW id
  PROVE  MatchedId(kind, current, incoming, id) \in Ids(current) \cup {id}
  <1> DEFINE X == {i \in 1 .. Len(current) : SameItem(kind, current[i], Get(incoming, id))}
             k == SelectInSeq(current, LAMBDA x : SameItem(kind, x, Get(incoming, id)))
  <1>1. k = IF X # {} THEN Min(X) ELSE 0
    BY DEF SelectInSeq
  <1>2. X \in SUBSET (1 .. Len(current)) /\ Len(current) \in Nat
    OBVIOUS
  <1>3. MatchedId(kind, current, incoming, id) =
          IF id \in Ids(current) \/ id \notin Ids(incoming) THEN id
          ELSE IF k = 0 THEN id ELSE current[k].id
    BY DEF MatchedId
  <1> HIDE DEF X, k
  <1>4. k # 0 => k \in DOMAIN current
    <2>1. k # 0 => k \in 1 .. Len(current)
      BY <1>1, <1>2, LeastIsMin
    <2> QED
      BY <2>1
  <1> QED
    BY <1>3, <1>4 DEF Ids

LEMMA IdsTyped ==
  ASSUME NEW s, WellFormed(s)
  PROVE  /\ Ids(s.profiles) \subseteq AllProfiles /\ Ids(s.groups) \subseteq Groups
         /\ Ids(s.subs) \subseteq SubIds
  <1>1. \A i \in DOMAIN s.profiles : s.profiles[i] \in Profile
    BY FieldsTyped
  <1>2. \A i \in DOMAIN s.groups : s.groups[i] \in Group
    BY FieldsTyped
  <1>3. \A i \in DOMAIN s.subs : s.subs[i] \in Asked
    BY FieldsTyped
  <1>4. Ids(s.profiles) \subseteq AllProfiles
    BY <1>1 DEF Ids, Profile
  <1>5. Ids(s.groups) \subseteq Groups
    BY <1>2 DEF Ids, Group
  <1>6. Ids(s.subs) \subseteq SubIds
    BY <1>3, AskedFields DEF Ids
  <1> QED
    BY <1>4, <1>5, <1>6

LEMMA MapTyped ==
  ASSUME NEW T, NEW S, NEW q \in Seq(T), NEW r \in [DOMAIN q -> S]
  PROVE  r \in Seq(S)
  <1>1. Len(q) \in Nat /\ DOMAIN q = 1 .. Len(q)
    OBVIOUS
  <1> QED
    BY <1>1

-----------------------------------------------------------------------------
(* No id twice *)

(* The ids of a list are not disturbed by what changes other fields.        *)
LEMMA SameIdsDistinct ==
  ASSUME NEW q, NEW r, Distinct(q), DOMAIN r = DOMAIN q,
         \A i \in DOMAIN q : r[i].id = q[i].id
  PROVE  Distinct(r) /\ Ids(r) = Ids(q)
  BY DEF Distinct, Ids

(* A sublist holds items of the list, each at most once (Kept, Drop).       *)
LEMMA KeptFrom ==
  ASSUME NEW S, NEW q \in Seq(S), NEW A \in SUBSET DOMAIN q
  PROVE  /\ \A k \in DOMAIN Kept(q, A) : \E i \in A : Kept(q, A)[k] = q[i]
         /\ Ids(Kept(q, A)) \subseteq {q[i].id : i \in A}
         /\ Distinct(q) => Distinct(Kept(q, A))
  <1> DEFINE Rank(i) == Cardinality({j \in A : j < i})
             At(k) == CHOOSE i \in A : Rank(i) = k - 1
             r == Kept(q, A)
  <1>1. Len(q) \in Nat /\ DOMAIN q = 1 .. Len(q)
    OBVIOUS
  <1>2. Cardinality(A) \in Nat
    <2>1. IsFiniteSet(1 .. Len(q))
      BY <1>1, FS_Interval
    <2> QED
      BY <1>1, <2>1, FS_Subset, FS_CardinalityType
  <1>3. \A k \in 1 .. Cardinality(A) : At(k) \in A /\ Rank(At(k)) = k - 1
    BY <1>1, PlaceOfRank
  <1>4. r = [k \in 1 .. Cardinality(A) |-> q[At(k)]]
    BY DEF Kept
  <1> HIDE DEF At, Rank, r
  <1>5. \A k \in DOMAIN r : At(k) \in A /\ r[k] = q[At(k)] /\ k \in Nat
    BY <1>2, <1>3, <1>4
  <1>6. \A j, k \in DOMAIN r : At(j) = At(k) => j = k
    BY <1>2, <1>3, <1>4
  <1>7. Distinct(q) => Distinct(r)
    BY <1>1, <1>5, <1>6 DEF Distinct
  <1>8. \A k \in DOMAIN r : \E i \in A : r[k] = q[i]
    BY <1>5
  <1>9. Ids(r) \subseteq {q[i].id : i \in A}
    BY <1>8 DEF Ids
  <1> QED
    BY <1>7, <1>8, <1>9 DEF r

LEMMA DropFrom ==
  ASSUME NEW S, NEW q \in Seq(S), NEW gone
  PROVE  /\ Distinct(q) => Distinct(Drop(q, gone))
         /\ Ids(Drop(q, gone)) \subseteq Ids(q) \ gone
  <1> DEFINE A == {i \in DOMAIN q : q[i].id \notin gone}
  <1>1. Drop(q, gone) = Kept(q, A)
    BY DEF Drop, Where
  <1>2. {q[i].id : i \in A} \subseteq Ids(q) \ gone
    BY DEF Ids
  <1>3. A \in SUBSET DOMAIN q
    OBVIOUS
  <1> HIDE DEF A
  <1> QED
    BY <1>1, <1>2, <1>3, KeptFrom

LEMMA ConcatFrom ==
  ASSUME NEW S, NEW q \in Seq(S), NEW r \in Seq(S)
  PROVE  /\ Ids(q \o r) = Ids(q) \cup Ids(r)
         /\ Distinct(q) /\ Distinct(r) /\ Ids(q) \cap Ids(r) = {} => Distinct(q \o r)
  <1> DEFINE c == q \o r
             n == Len(q)
  <1>1. /\ n \in Nat /\ Len(r) \in Nat /\ DOMAIN q = 1 .. n /\ DOMAIN r = 1 .. Len(r)
        /\ DOMAIN c = 1 .. n + Len(r)
        /\ \A i \in 1 .. n : c[i] = q[i]
        /\ \A i \in n + 1 .. n + Len(r) : c[i] = r[i - n]
    OBVIOUS
  <1> HIDE DEF c, n
  <1>2. \A i \in DOMAIN c : \/ i \in DOMAIN q /\ c[i] = q[i]
                            \/ i \notin DOMAIN q /\ i - n \in DOMAIN r /\ c[i] = r[i - n]
    BY <1>1
  <1>3. \A j \in DOMAIN r : j + n \in DOMAIN c /\ c[j + n] = r[j]
    BY <1>1
  <1>4. \A i \in DOMAIN q : i \in DOMAIN c /\ c[i] = q[i]
    BY <1>1
  <1>5. Ids(c) = Ids(q) \cup Ids(r)
    <2>1. Ids(c) \subseteq Ids(q) \cup Ids(r)
      BY <1>2 DEF Ids
    <2>2. Ids(q) \subseteq Ids(c)
      BY <1>4 DEF Ids
    <2>3. Ids(r) \subseteq Ids(c)
      BY <1>3 DEF Ids
    <2> QED
      BY <2>1, <2>2, <2>3
  <1>6. ASSUME Distinct(q), Distinct(r), Ids(q) \cap Ids(r) = {} PROVE Distinct(c)
    <2> SUFFICES ASSUME NEW i \in DOMAIN c, NEW j \in DOMAIN c, c[i].id = c[j].id
                 PROVE  i = j
      BY DEF Distinct
    <2>1. \A x \in DOMAIN q, y \in DOMAIN r : q[x].id # r[y].id
      BY <1>6 DEF Ids
    <2>2. CASE i \in DOMAIN q /\ j \in DOMAIN q
      BY <1>2, <1>6, <2>2 DEF Distinct
    <2>3. CASE i \notin DOMAIN q /\ j \notin DOMAIN q
      <3>1. i - n = j - n
        BY <1>2, <1>6, <2>3 DEF Distinct
      <3> QED
        BY <1>1, <3>1
    <2> QED
      BY <1>2, <2>1, <2>2, <2>3
  <1> QED
    BY <1>5, <1>6 DEF c

LEMMA OneIsDistinct ==
  ASSUME NEW x
  PROVE  Distinct(<<x>>) /\ Ids(<<x>>) = {x.id}
  BY DEF Distinct, Ids

LEMMA AppendFrom ==
  ASSUME NEW S, NEW q \in Seq(S), NEW x \in S
  PROVE  /\ Ids(Append(q, x)) = Ids(q) \cup {x.id}
         /\ Distinct(q) /\ x.id \notin Ids(q) => Distinct(Append(q, x))
  <1>1. Append(q, x) = q \o <<x>> /\ <<x>> \in Seq(S)
    OBVIOUS
  <1>2. Distinct(<<x>>) /\ Ids(<<x>>) = {x.id}
    BY OneIsDistinct
  <1> DEFINE one == <<x>>
  <1> HIDE DEF one
  <1>3. one \in Seq(S) /\ Distinct(one) /\ Ids(one) = {x.id} /\ Append(q, x) = q \o one
    BY <1>1, <1>2 DEF one
  <1>4. x.id \notin Ids(q) => Ids(q) \cap Ids(one) = {}
    BY <1>3
  <1> QED
    BY <1>3, <1>4, ConcatFrom

LEMMA PrependFrom ==
  ASSUME NEW S, NEW q \in Seq(S), NEW x \in S
  PROVE  Distinct(q) /\ x.id \notin Ids(q) => Distinct(<<x>> \o q)
  <1> DEFINE one == <<x>>
  <1>1. one \in Seq(S) /\ Distinct(one) /\ Ids(one) = {x.id}
    BY OneIsDistinct
  <1> HIDE DEF one
  <1>2. x.id \notin Ids(q) => Ids(one) \cap Ids(q) = {}
    BY <1>1
  <1>3. Distinct(q) /\ x.id \notin Ids(q) => Distinct(one \o q)
    BY <1>1, <1>2, ConcatFrom
  <1> QED
    BY <1>3 DEF one

(* A list whose ids stay in their places: an id is found where it was.      *)
LEMMA SamePlace ==
  ASSUME NEW q, NEW r, DOMAIN r = DOMAIN q, Len(r) = Len(q),
         \A i \in DOMAIN q : r[i].id = q[i].id, NEW id,
         DOMAIN q = 1 .. Len(q)
  PROVE  IndexOf(r, id) = IndexOf(q, id)
  <1>1. {i \in 1 .. Len(r) : r[i].id = id} = {i \in 1 .. Len(q) : q[i].id = id}
    OBVIOUS
  <1> QED
    BY <1>1 DEF IndexOf, SelectInSeq

(* An item that is stored again is found with its new contents, and the     *)
(* others keep their places (upsert_by_id).                                 *)
LEMMA UpsertReplaces ==
  ASSUME NEW S, NEW q \in Seq(S), NEW x \in S, x.id \in Ids(q)
  PROVE  /\ Upsert(q, x) = [q EXCEPT ![IndexOf(q, x.id)] = x]
         /\ IndexOf(q, x.id) \in 1 .. Len(q)
         /\ Len(Upsert(q, x)) = Len(q) /\ DOMAIN Upsert(q, x) = 1 .. Len(q)
         /\ \A i \in 1 .. Len(q) : Upsert(q, x)[i].id = q[i].id
         /\ Ids(Upsert(q, x)) = Ids(q)
         /\ \A id : IndexOf(Upsert(q, x), id) = IndexOf(q, id)
  <1> DEFINE k == IndexOf(q, x.id)
             r == [q EXCEPT ![k] = x]
  <1>1. k \in 1 .. Len(q) /\ q[k].id = x.id /\ DOMAIN q = 1 .. Len(q) /\ Len(q) \in Nat
    BY FirstWith
  <1>2. Upsert(q, x) = r
    BY DEF Upsert
  <1> HIDE DEF k
  <1>3. r \in Seq(S) /\ Len(r) = Len(q) /\ DOMAIN r = 1 .. Len(q)
    BY <1>1
  <1>4. \A i \in 1 .. Len(q) : r[i].id = q[i].id
    BY <1>1
  <1> HIDE DEF r
  <1>5. Ids(r) = Ids(q)
    BY <1>1, <1>3, <1>4 DEF Ids
  <1>6. \A id : IndexOf(r, id) = IndexOf(q, id)
    BY <1>1, <1>3, <1>4, SamePlace
  <1> QED
    BY <1>1, <1>2, <1>3, <1>4, <1>5, <1>6 DEF k, r

LEMMA UpsertFrom ==
  ASSUME NEW S, NEW q \in Seq(S), NEW x \in S
  PROVE  /\ Ids(Upsert(q, x)) = Ids(q) \cup {x.id}
         /\ Distinct(q) => Distinct(Upsert(q, x))
  <1>1. CASE x.id \in Ids(q)
    <2> DEFINE r == Upsert(q, x)
    <2>1. /\ DOMAIN r = DOMAIN q /\ \A i \in DOMAIN q : r[i].id = q[i].id
          /\ Ids(r) = Ids(q)
      BY <1>1, UpsertReplaces
    <2> HIDE DEF r
    <2>2. Distinct(q) => Distinct(r)
      BY <2>1, SameIdsDistinct
    <2> QED
      BY <1>1, <2>1, <2>2 DEF r
  <1>2. CASE x.id \notin Ids(q)
    BY <1>2, AppendFrom DEF Upsert
  <1> QED
    BY <1>1, <1>2

(* Taking one out and putting one in (RemoveAt, InsertAt).                  *)
LEMMA SubSeqFrom ==
  ASSUME NEW S, NEW q \in Seq(S), NEW m \in 1 .. Len(q) + 1, NEW n \in 0 .. Len(q)
  PROVE  /\ SubSeq(q, m, n) \in Seq(S)
         /\ Ids(SubSeq(q, m, n)) = {q[i].id : i \in m .. n}
         /\ Distinct(q) => Distinct(SubSeq(q, m, n))
  <1> DEFINE r == SubSeq(q, m, n)
  <1>1. /\ r \in Seq(S) /\ DOMAIN r = 1 .. (IF m <= n THEN n - m + 1 ELSE 0)
        /\ \A i \in DOMAIN r : r[i] = q[m + i - 1]
    BY SubSeqProperties
  <1>2. Len(q) \in Nat /\ DOMAIN q = 1 .. Len(q)
    OBVIOUS
  <1> HIDE DEF r
  <1>3. \A i \in DOMAIN r : m + i - 1 \in m .. n /\ m + i - 1 \in DOMAIN q
    BY <1>1, <1>2
  <1>4. \A i \in m .. n : i - m + 1 \in DOMAIN r /\ r[i - m + 1] = q[i]
    BY <1>1, <1>2
  <1>5. Ids(r) = {q[i].id : i \in m .. n}
    <2>1. Ids(r) \subseteq {q[i].id : i \in m .. n}
      BY <1>1, <1>3 DEF Ids
    <2>2. {q[i].id : i \in m .. n} \subseteq Ids(r)
      BY <1>4 DEF Ids
    <2> QED
      BY <2>1, <2>2
  <1>6. ASSUME Distinct(q) PROVE Distinct(r)
    <2> SUFFICES ASSUME NEW i \in DOMAIN r, NEW j \in DOMAIN r, r[i].id = r[j].id
                 PROVE  i = j
      BY DEF Distinct
    <2>1. m + i - 1 = m + j - 1
      BY <1>1, <1>3, <1>6 DEF Distinct
    <2> QED
      BY <1>1, <2>1
  <1> QED
    BY <1>1, <1>5, <1>6 DEF r

LEMMA RemoveAtFrom ==
  ASSUME NEW S, NEW q \in Seq(S), NEW i \in 1 .. Len(q), Distinct(q)
  PROVE  Distinct(RemoveAt(q, i)) /\ Ids(RemoveAt(q, i)) = Ids(q) \ {q[i].id}
  <1> DEFINE a == SubSeq(q, 1, i - 1)
             b == SubSeq(q, i + 1, Len(q))
  <1>1. Len(q) \in Nat /\ DOMAIN q = 1 .. Len(q)
    OBVIOUS
  <1>2. /\ a \in Seq(S) /\ b \in Seq(S) /\ Distinct(a) /\ Distinct(b)
        /\ Ids(a) = {q[j].id : j \in 1 .. i - 1} /\ Ids(b) = {q[j].id : j \in i + 1 .. Len(q)}
    <2>1. 1 \in 1 .. Len(q) + 1 /\ i - 1 \in 0 .. Len(q) /\ i + 1 \in 1 .. Len(q) + 1 /\ Len(q) \in 0 .. Len(q)
      BY <1>1
    <2> QED
      BY <2>1, SubSeqFrom
  <1>3. RemoveAt(q, i) = a \o b
    BY DEF RemoveAt
  <1> HIDE DEF a, b
  <1>4. Ids(a) \cap Ids(b) = {}
    BY <1>1, <1>2 DEF Distinct
  <1>5. Ids(a) \cup Ids(b) = Ids(q) \ {q[i].id}
    <2>1. \A j \in DOMAIN q : j = i \/ j \in 1 .. i - 1 \/ j \in i + 1 .. Len(q)
      BY <1>1
    <2>2. \A j \in DOMAIN q : j # i => q[j].id # q[i].id
      BY <1>1 DEF Distinct
    <2>3. \A j \in (1 .. i - 1) \cup (i + 1 .. Len(q)) : j \in DOMAIN q /\ j # i
      BY <1>1
    <2> QED
      BY <1>2, <2>1, <2>2, <2>3 DEF Ids
  <1> QED
    BY <1>2, <1>3, <1>4, <1>5, ConcatFrom

LEMMA InsertAtFrom ==
  ASSUME NEW S, NEW q \in Seq(S), NEW i \in 1 .. Len(q) + 1, NEW x \in S,
         Distinct(q), x.id \notin Ids(q)
  PROVE  Distinct(InsertAt(q, i, x))
  <1> DEFINE a == SubSeq(q, 1, i - 1)
             b == SubSeq(q, i, Len(q))
  <1>1. Len(q) \in Nat /\ DOMAIN q = 1 .. Len(q)
    OBVIOUS
  <1>2. /\ a \in Seq(S) /\ b \in Seq(S) /\ Distinct(a) /\ Distinct(b)
        /\ Ids(a) = {q[j].id : j \in 1 .. i - 1} /\ Ids(b) = {q[j].id : j \in i .. Len(q)}
    <2>1. 1 \in 1 .. Len(q) + 1 /\ i - 1 \in 0 .. Len(q) /\ Len(q) \in 0 .. Len(q)
      BY <1>1
    <2> QED
      BY <2>1, SubSeqFrom
  <1>3. InsertAt(q, i, x) = (a \o <<x>>) \o b
    BY DEF InsertAt
  <1> HIDE DEF a, b
  <1>4. Ids(a) \cap Ids(b) = {}
    BY <1>1, <1>2 DEF Distinct
  <1>5. x.id \notin Ids(a) /\ x.id \notin Ids(b)
    <2>1. \A j \in DOMAIN q : q[j].id # x.id
      BY DEF Ids
    <2>2. \A j \in (1 .. i - 1) \cup (i .. Len(q)) : j \in DOMAIN q
      BY <1>1
    <2> QED
      BY <1>2, <2>1, <2>2
  <1> DEFINE one == <<x>>
             c == a \o one
  <1>6. one \in Seq(S) /\ Distinct(one) /\ Ids(one) = {x.id}
    BY OneIsDistinct
  <1> HIDE DEF one
  <1>7. Ids(a) \cap Ids(one) = {}
    BY <1>5, <1>6
  <1>8. c \in Seq(S) /\ Distinct(c) /\ Ids(c) = Ids(a) \cup {x.id}
    <2>1. c \in Seq(S)
      BY <1>2, <1>6
    <2> QED
      BY <1>2, <1>6, <1>7, <2>1, ConcatFrom
  <1>9. InsertAt(q, i, x) = c \o b
    BY <1>3 DEF one
  <1> HIDE DEF c
  <1>10. Ids(c) \cap Ids(b) = {}
    BY <1>4, <1>5, <1>8
  <1>11. Distinct(c \o b)
    BY <1>2, <1>8, <1>10, ConcatFrom
  <1> QED
    BY <1>9, <1>11

LEMMA MoveItemFrom ==
  ASSUME NEW S, NEW q \in Seq(S), NEW from, NEW to, Distinct(q)
  PROVE  Distinct(MoveItem(q, from, to))
  <1>1. CASE from = to \/ {from, to} \cap DOMAIN q # {from, to}
    BY <1>1 DEF MoveItem
  <1>2. CASE ~(from = to \/ {from, to} \cap DOMAIN q # {from, to})
    <2>1. from \in DOMAIN q /\ to \in DOMAIN q
      BY <1>2, Zenon
    <2>2. from \in 1 .. Len(q) /\ to \in 1 .. Len(q) /\ q[from] \in S
      BY <2>1
    <2>3. RemoveAt(q, from) \in Seq(S) /\ Len(RemoveAt(q, from)) = Len(q) - 1
      BY <2>2, RemoveAtTyped
    <2>4. Distinct(RemoveAt(q, from)) /\ q[from].id \notin Ids(RemoveAt(q, from))
      BY <2>2, RemoveAtFrom
    <2>5. to \in 1 .. Len(RemoveAt(q, from)) + 1
      BY <2>2, <2>3
    <2>6. Distinct(InsertAt(RemoveAt(q, from), to, q[from]))
      BY <2>2, <2>3, <2>4, <2>5, InsertAtFrom
    <2> QED
      BY <1>2, <2>6 DEF MoveItem
  <1> QED
    BY <1>1, <1>2

(* The rules give no id twice (default_chain, normalize_app_state).         *)
LEMMA DefaultFirstUnique ==
  ASSUME NEW r \in Seq(Route), Distinct(r)
  PROVE  Distinct(EnsureDefaultRoute(r))
  <1>1. CASE Default \in Ids(r)
    <2> DEFINE k == IndexOf(r, Default)
               x == r[k]
               q == RemoveAt(r, k)
               one == <<x>>
    <2>1. k \in 1 .. Len(r) /\ x.id = Default /\ x \in Route
      BY <1>1, FirstWith
    <2>2. EnsureDefaultRoute(r) = one \o q
      BY <1>1 DEF EnsureDefaultRoute, Get
    <2> HIDE DEF k
    <2>3. q \in Seq(Route) /\ Distinct(q) /\ Ids(q) = Ids(r) \ {Default}
      BY <2>1, RemoveAtTyped, RemoveAtFrom
    <2> HIDE DEF x, q
    <2>4. one \in Seq(Route) /\ Distinct(one) /\ Ids(one) = {Default}
      BY <2>1, OneIsDistinct
    <2> HIDE DEF one
    <2>5. Distinct(one \o q)
      BY <2>3, <2>4, ConcatFrom
    <2> QED
      BY <2>2, <2>5
  <1>2. CASE Default \notin Ids(r)
    <2> DEFINE one == <<DefaultRoute>>
    <2>1. EnsureDefaultRoute(r) = one \o r
      BY <1>2 DEF EnsureDefaultRoute
    <2>2. DefaultRoute.id = Default
      BY DEF DefaultRoute
    <2>3. one \in Seq(Route) /\ Distinct(one) /\ Ids(one) = {Default}
      BY <2>2, DefaultRouteTyped, OneIsDistinct
    <2> HIDE DEF one
    <2>4. Distinct(one \o r)
      BY <1>2, <2>3, ConcatFrom
    <2> QED
      BY <2>1, <2>4
  <1> QED
    BY <1>1, <1>2

LEMMA LegacyUnique ==
  ASSUME NEW s, WellFormed(s), IdsAreUnique(s)
  PROVE  IdsAreUnique(FoldLegacyRules(s))
  <1>1. CASE s.legacy = None
    BY <1>1 DEF FoldLegacyRules
  <1>2. CASE s.legacy # None
    <2> DEFINE id == UniqueBlockId(s)
               R == EnsureDefaultRoute(s.routes)
               b == [id |-> id, tag |-> s.legacy, source |-> None]
               r == [R EXCEPT ![1].blocks = @ \cup {id}]
               bs == Append(s.blocks, b)
    <2>1. FoldLegacyRules(s) = Doc(s.profiles, s.groups, s.subs, bs, r, s.active, s.dedup, None)
      BY <1>2 DEF FoldLegacyRules, FoldInto
    <2>2. id \in AllBlocks \ Ids(s.blocks)
      BY FreeBlockId
    <2>3. s.blocks \in Seq(RuleBlock) /\ s.routes \in Seq(Route) /\ s.legacy \in AllProfiles \cup {Proxy, None}
      BY FieldsTyped
    <2>4. R \in Seq(Route) /\ Len(R) >= 1 /\ Distinct(R)
      BY <2>3, DefaultFirstTyped, DefaultFirstUnique DEF IdsAreUnique
    <2> HIDE DEF id, R
    <2>5. b \in RuleBlock /\ b.id = id
      BY <1>2, <2>2, <2>3 DEF RuleBlock
    <2> HIDE DEF b
    <2>6. Distinct(bs)
      BY <2>2, <2>3, <2>5, AppendFrom DEF IdsAreUnique
    <2>7. DOMAIN r = DOMAIN R /\ \A i \in DOMAIN R : r[i].id = R[i].id
      <3>1. \A i \in DOMAIN R : R[i] \in Route
        BY <2>4
      <3>2. r = [R EXCEPT ![1] = [R[1] EXCEPT !.blocks = @ \cup {id}]]
        OBVIOUS
      <3>3. 1 \in DOMAIN R
        BY <2>4
      <3>4. [R[1] EXCEPT !.blocks = @ \cup {id}].id = R[1].id
        BY <3>1, <3>3 DEF Route
      <3> QED
        BY <3>2, <3>3, <3>4
    <2> HIDE DEF r, bs
    <2>8. Distinct(r)
      BY <2>4, <2>7, SameIdsDistinct
    <2> QED
      BY <2>1, <2>6, <2>8 DEF IdsAreUnique, Doc
  <1> QED
    BY <1>1, <1>2

LEMMA ChainUnique ==
  ASSUME NEW s, WellFormed(s), IdsAreUnique(s)
  PROVE  IdsAreUnique(Chain(s))
  <1> DEFINE a == FixupDanglingGroups(s)
             b == FixupActiveId(a)
             c == FixupDanglingVia(b)
             e == FoldLegacyRules(c)
             R == EnsureDefaultRoute(e.routes)
             t == FixRoutes(e, R)
  <1>1. Chain(s) = t
    BY DEF Chain, NormalizeRoutes, WithDefaultRoute
  <1>2. WellFormed(c)
    BY GroupsRuleTyped, ActiveRuleTyped, ViaRuleTyped
  <1>3. IdsAreUnique(a)
    <2>1. /\ DOMAIN a.profiles = DOMAIN s.profiles /\ \A i \in DOMAIN s.profiles : a.profiles[i].id = s.profiles[i].id
          /\ DOMAIN a.groups = DOMAIN s.groups /\ \A i \in DOMAIN s.groups : a.groups[i].id = s.groups[i].id
          /\ DOMAIN a.subs = DOMAIN s.subs /\ \A i \in DOMAIN s.subs : a.subs[i].id = s.subs[i].id
          /\ a.blocks = s.blocks /\ a.routes = s.routes
      BY DEF FixupDanglingGroups, Doc
    <2> HIDE DEF a
    <2> QED
      BY <2>1, SameIdsDistinct DEF IdsAreUnique
  <1>4. IdsAreUnique(b)
    <2>1. b.profiles = a.profiles /\ b.groups = a.groups /\ b.subs = a.subs
          /\ b.blocks = a.blocks /\ b.routes = a.routes
      BY DEF FixupActiveId, Doc
    <2> QED
      BY <1>3, <2>1 DEF IdsAreUnique
  <1>5. IdsAreUnique(c)
    <2>1. /\ DOMAIN c.profiles = DOMAIN b.profiles /\ \A i \in DOMAIN b.profiles : c.profiles[i].id = b.profiles[i].id
          /\ c.groups = b.groups /\ c.subs = b.subs
          /\ c.blocks = b.blocks /\ c.routes = b.routes
      BY DEF FixupDanglingVia, Doc
    <2> HIDE DEF b, c
    <2> QED
      BY <1>4, <2>1, SameIdsDistinct DEF IdsAreUnique
  <1> HIDE DEF a, b, c
  <1>6. WellFormed(e) /\ IdsAreUnique(e)
    BY <1>2, <1>5, LegacyUnique, LegacyRuleTyped
  <1> HIDE DEF e
  <1>7. Distinct(R)
    BY <1>6, FieldsTyped, DefaultFirstUnique DEF IdsAreUnique
  <1> HIDE DEF R
  <1>8. /\ t.profiles = e.profiles /\ t.groups = e.groups /\ t.subs = e.subs /\ t.blocks = e.blocks
        /\ DOMAIN t.routes = DOMAIN R /\ \A i \in DOMAIN R : t.routes[i].id = R[i].id
    BY DEF FixRoutes, Doc
  <1> HIDE DEF t
  <1>9. Distinct(t.routes)
    BY <1>7, <1>8, SameIdsDistinct
  <1> QED
    BY <1>1, <1>6, <1>8, <1>9 DEF IdsAreUnique

LEMMA ReadUnique ==
  ASSUME NEW s, WellFormed(s), IdsAreUnique(s)
  PROVE  IdsAreUnique(Normalize(s))
  <1> DEFINE e == EnsureBaseGroup(s)
  <1>1. Normalize(s) = Chain(e)
    BY DEF Normalize, Chain
  <1>2. CASE Base \in Ids(s.groups)
    <2>1. e = s
      BY <1>2 DEF EnsureBaseGroup
    <2> QED
      BY <1>1, <2>1, ChainUnique
  <1>3. CASE Base \notin Ids(s.groups)
    <2> DEFINE b == [id |-> Base, name |-> CHOOSE n \in Names : TRUE, owner |-> None]
               one == <<b>>
               gs == one \o s.groups
    <2>1. e = Doc(s.profiles, gs, s.subs, s.blocks, s.routes, s.active, s.dedup, s.legacy)
      BY <1>3 DEF EnsureBaseGroup
    <2>2. b \in Group /\ b.id = Base
      BY IdsAssumption DEF Group
    <2> HIDE DEF b
    <2>3. one \in Seq(Group) /\ Distinct(one) /\ Ids(one) = {Base}
      BY <2>2, OneIsDistinct
    <2> HIDE DEF one
    <2>4. gs \in Seq(Group) /\ Distinct(gs)
      BY <1>3, <2>3, FieldsTyped, ConcatFrom DEF IdsAreUnique
    <2> HIDE DEF gs
    <2>5. WellFormed(e)
      BY <2>1, <2>4, FieldsTyped, DocTyped
    <2>6. IdsAreUnique(e)
      BY <2>1, <2>4 DEF IdsAreUnique, Doc
    <2> HIDE DEF e
    <2> QED
      BY <1>1, <2>5, <2>6, ChainUnique
  <1> QED
    BY <1>2, <1>3

(* What an edit makes of a document gives no id twice either.               *)
LEMMA RenameOwnedGroupUnique ==
  ASSUME NEW s, WellFormed(s), IdsAreUnique(s), NEW next, next.name \in Names
  PROVE  IdsAreUnique(RenameOwnedGroup(s, next))
  <1>1. CASE next.id \notin Ids(s.subs)
    BY <1>1 DEF RenameOwnedGroup
  <1>2. CASE next.id \in Ids(s.subs)
    <2> DEFINE prev == Get(s.subs, next.id)
               Renamed(g) == IF /\ g.id = next.target /\ g.owner = next.id
                                /\ g.name = prev.name
                             THEN [g EXCEPT !.name = next.name] ELSE g
               gs == [i \in DOMAIN s.groups |-> Renamed(s.groups[i])]
    <2>1. RenameOwnedGroup(s, next) = [s EXCEPT !.groups = gs]
      BY <1>2 DEF RenameOwnedGroup
    <2>2. \A g \in Group : Renamed(g).id = g.id
      BY DEF Group
    <2> HIDE DEF Renamed
    <2>3. DOMAIN gs = DOMAIN s.groups /\ \A i \in DOMAIN s.groups : gs[i].id = s.groups[i].id
      BY <2>2, FieldsTyped
    <2> HIDE DEF gs
    <2>4. Distinct(gs)
      BY <2>3, SameIdsDistinct DEF IdsAreUnique
    <2>5. IdsAreUnique([s EXCEPT !.groups = gs])
      BY <2>4 DEF IdsAreUnique, WellFormed
    <2> QED
      BY <2>1, <2>5
  <1> QED
    BY <1>1, <1>2

LEMMA MigrateProfilesUnique ==
  ASSUME NEW s, WellFormed(s), IdsAreUnique(s), NEW next
  PROVE  IdsAreUnique(MigrateProfiles(s, next))
  <1>1. CASE next.id \notin Ids(s.subs) \/ next.target = None
    BY <1>1 DEF MigrateProfiles
  <1>2. CASE ~(next.id \notin Ids(s.subs) \/ next.target = None)
    <2> DEFINE old == Get(s.subs, next.id)
               Moved(p) == IF OwnedBySub(p, old) THEN [p EXCEPT !.group = next.target] ELSE p
               ps == [i \in DOMAIN s.profiles |-> Moved(s.profiles[i])]
    <2>1. MigrateProfiles(s, next) = [s EXCEPT !.profiles = ps]
      BY <1>2 DEF MigrateProfiles
    <2>2. \A p \in Profile : Moved(p).id = p.id
      BY DEF Profile
    <2> HIDE DEF Moved
    <2>3. DOMAIN ps = DOMAIN s.profiles /\ \A i \in DOMAIN s.profiles : ps[i].id = s.profiles[i].id
      BY <2>2, FieldsTyped
    <2> HIDE DEF ps
    <2>4. Distinct(ps)
      BY <2>3, SameIdsDistinct DEF IdsAreUnique
    <2>5. IdsAreUnique([s EXCEPT !.profiles = ps])
      BY <2>4 DEF IdsAreUnique, WellFormed
    <2> QED
      BY <2>1, <2>5
  <1> QED
    BY <1>1, <1>2

LEMMA StoreSubUnique ==
  ASSUME NEW s, WellFormed(s), IdsAreUnique(s), NEW next \in Asked
  PROVE  IdsAreUnique(StoreSub(s, next))
  <1> DEFINE m == RenameOwnedGroup(s, next)
             g == MigrateProfiles(m, next)
             t == StoreSub(s, next)
  <1>1. WellFormed(m) /\ IdsAreUnique(m)
    BY AskedFields, RenameOwnedGroupTyped, RenameOwnedGroupUnique
  <1>2. WellFormed(g) /\ IdsAreUnique(g)
    <2> HIDE DEF m
    <2> QED
      BY <1>1, AskedFields, MigrateProfilesTyped, MigrateProfilesUnique
  <1> DEFINE us == Upsert(g.subs, next)
  <1>3. t = [g EXCEPT !.subs = us]
    BY DEF StoreSub
  <1> HIDE DEF g, t
  <1>4. Distinct(us)
    BY <1>2, FieldsTyped, UpsertFrom DEF IdsAreUnique
  <1> HIDE DEF us
  <1>5. IdsAreUnique([g EXCEPT !.subs = us])
    BY <1>2, <1>4 DEF IdsAreUnique, WellFormed
  <1>6. IdsAreUnique(t)
    BY <1>3, <1>5
  <1> QED
    BY <1>6 DEF t

LEMMA UpsertRouteInUnique ==
  ASSUME NEW s, WellFormed(s), IdsAreUnique(s), NEW r \in Route
  PROVE  IdsAreUnique(UpsertRouteIn(s, r))
  <1> DEFINE Yields(x) == IF x.id = r.id THEN x
                       ELSE [x EXCEPT !.profiles = @ \ r.profiles, !.groups = @ \ r.groups]
             cut == [i \in DOMAIN s.routes |-> Yields(s.routes[i])]
             rs == Upsert(cut, r)
  <1>1. UpsertRouteIn(s, r) = [s EXCEPT !.routes = rs]
    BY DEF UpsertRouteIn
  <1>2. \A x \in Route : Yields(x) \in Route /\ Yields(x).id = x.id
    BY DEF Route
  <1> HIDE DEF Yields
  <1>3. /\ cut \in Seq(Route)
        /\ DOMAIN cut = DOMAIN s.routes /\ \A i \in DOMAIN s.routes : cut[i].id = s.routes[i].id
    <2>1. s.routes \in Seq(Route) /\ \A i \in DOMAIN s.routes : s.routes[i] \in Route
      BY FieldsTyped
    <2>2. cut \in Seq(Route)
      BY <1>2, <2>1
    <2> QED
      BY <1>2, <2>1, <2>2
  <1> HIDE DEF cut
  <1>4. Distinct(rs)
    BY <1>3, SameIdsDistinct, UpsertFrom DEF IdsAreUnique
  <1> HIDE DEF rs
  <1>5. IdsAreUnique([s EXCEPT !.routes = rs])
    BY <1>4 DEF IdsAreUnique, WellFormed
  <1> QED
    BY <1>1, <1>5

LEMMA ImportRoutingUnique ==
  ASSUME NEW s, WellFormed(s), IdsAreUnique(s), NEW id \in AllBlocks, id \in AllRoutes,
         NEW group \in Groups, NEW source \in SubIds \cup {None},
         NEW rules \in BOOLEAN, NEW enabled \in BOOLEAN
  PROVE  IdsAreUnique(ImportRouting(s, id, group, source, rules, enabled))
  <1> DEFINE b == [id |-> id, tag |-> Proxy, source |-> source]
             blocks == IF rules THEN Upsert(s.blocks, b) ELSE Drop(s.blocks, {id})
             r == [id |-> id, enabled |-> enabled, profiles |-> {},
                   groups |-> {group}, blocks |-> IF rules THEN {id} ELSE {},
                   final |-> Proxy, source |-> source]
  <1>1. b \in RuleBlock
    BY DEF RuleBlock
  <1>2. r \in Route
    BY DEF Route
  <1>3. ImportRouting(s, id, group, source, rules, enabled)
          = UpsertRouteIn([s EXCEPT !.blocks = blocks], r)
    BY DEF ImportRouting
  <1> HIDE DEF b, r
  <1>4. blocks \in Seq(RuleBlock) /\ Distinct(blocks)
    BY <1>1, FieldsTyped, UpsertTyped, DropTyped, UpsertFrom, DropFrom DEF IdsAreUnique
  <1> HIDE DEF blocks
  <1> DEFINE t == [s EXCEPT !.blocks = blocks]
  <1>5. WellFormed(t) /\ IdsAreUnique(t)
    BY <1>4 DEF WellFormed, IdsAreUnique
  <1> HIDE DEF t
  <1>6. IdsAreUnique(UpsertRouteIn(t, r))
    BY <1>2, <1>5, UpsertRouteInUnique
  <1> QED
    BY <1>3, <1>6 DEF t

LEMMA UnlistedUnique ==
  ASSUME NEW q \in Seq(Route), NEW gone, Distinct(q)
  PROVE  Distinct(Unlisted(q, gone))
  <1> DEFINE Fix(r) == [r EXCEPT !.blocks = @ \ gone]
             u == Unlisted(q, gone)
  <1>1. \A r \in Route : Fix(r).id = r.id
    BY DEF Route
  <1>2. u = [i \in DOMAIN q |-> Fix(q[i])]
    BY DEF Unlisted
  <1> HIDE DEF Fix, u
  <1>3. DOMAIN u = DOMAIN q /\ \A i \in DOMAIN q : u[i].id = q[i].id
    BY <1>1, <1>2
  <1>4. Distinct(u)
    BY <1>3, SameIdsDistinct
  <1> QED
    BY <1>4 DEF u

LEMMA WithoutProviderRoutingUnique ==
  ASSUME NEW s, WellFormed(s), IdsAreUnique(s), NEW id
  PROVE  IdsAreUnique(WithoutProviderRouting(s, id))
  <1> DEFINE gone == Ids(Where(s.blocks, LAMBDA b : b.source = id))
             left == Where(s.routes, LAMBDA r : r.source # id)
             blocks == Drop(s.blocks, gone)
             routes == Unlisted(left, gone)
  <1>1. WithoutProviderRouting(s, id) = [s EXCEPT !.blocks = blocks, !.routes = routes]
    BY DEF WithoutProviderRouting
  <1>2. left \in Seq(Route) /\ Distinct(left)
    <2>1. {i \in DOMAIN s.routes : s.routes[i].source # id} \in SUBSET DOMAIN s.routes
      OBVIOUS
    <2> QED
      BY <2>1, FieldsTyped, KeptTyped, KeptFrom DEF Where, IdsAreUnique
  <1> HIDE DEF gone, left
  <1>3. Distinct(blocks)
    BY FieldsTyped, DropFrom DEF IdsAreUnique
  <1>5. Distinct(routes)
    BY <1>2, UnlistedUnique
  <1> HIDE DEF blocks, routes
  <1>6. IdsAreUnique([s EXCEPT !.blocks = blocks, !.routes = routes])
    BY <1>3, <1>5 DEF WellFormed, IdsAreUnique
  <1> QED
    BY <1>1, <1>6

LEMMA WhereUnique ==
  ASSUME NEW s, WellFormed(s), IdsAreUnique(s), NEW u
  PROVE  /\ Where(s.profiles, LAMBDA p : ~OwnedBySub(p, u)) \in Seq(Profile)
         /\ Distinct(Where(s.profiles, LAMBDA p : ~OwnedBySub(p, u)))
         /\ Ids(Where(s.profiles, LAMBDA p : ~OwnedBySub(p, u))) \subseteq Ids(s.profiles)
  <1> DEFINE A == {i \in DOMAIN s.profiles : ~OwnedBySub(s.profiles[i], u)}
  <1>1. A \in SUBSET DOMAIN s.profiles
    OBVIOUS
  <1>2. Where(s.profiles, LAMBDA p : ~OwnedBySub(p, u)) = Kept(s.profiles, A)
    BY DEF Where
  <1>3. {s.profiles[i].id : i \in A} \subseteq Ids(s.profiles)
    BY DEF Ids
  <1>4. s.profiles \in Seq(Profile) /\ Distinct(s.profiles)
    BY FieldsTyped DEF IdsAreUnique
  <1> HIDE DEF A
  <1> DEFINE q == Kept(s.profiles, A)
  <1>5. q \in Seq(Profile) /\ Distinct(q) /\ Ids(q) \subseteq Ids(s.profiles)
    BY <1>1, <1>3, <1>4, KeptTyped, KeptFrom
  <1> HIDE DEF q
  <1> QED
    BY <1>2, <1>5 DEF q

LEMMA WithoutSubUnique ==
  ASSUME NEW s, WellFormed(s), IdsAreUnique(s), NEW u
  PROVE  IdsAreUnique(WithoutSub(s, u))
  <1> DEFINE ps == Where(s.profiles, LAMBDA p : ~OwnedBySub(p, u))
             us == Drop(s.subs, {u.id})
             t == [s EXCEPT !.profiles = ps, !.subs = us]
  <1>1. WithoutSub(s, u) = WithoutProviderRouting(t, u.id)
    BY DEF WithoutSub
  <1>2. ps \in Seq(Profile) /\ Distinct(ps)
    BY WhereUnique DEF Where
  <1>3. us \in Seq(Asked) /\ Distinct(us)
    BY FieldsTyped, DropTyped, DropFrom DEF IdsAreUnique
  <1> HIDE DEF ps, us
  <1>4. WellFormed(t) /\ IdsAreUnique(t)
    BY <1>2, <1>3 DEF WellFormed, IdsAreUnique
  <1> HIDE DEF t
  <1> QED
    BY <1>1, <1>4, WithoutProviderRoutingUnique

LEMMA DisownedUnique ==
  ASSUME NEW q \in Seq(Group), NEW id, Distinct(q)
  PROVE  Distinct(Disowned(q, id))
  <1> DEFINE Left(g) == IF g.owner = id THEN [g EXCEPT !.owner = None] ELSE g
             d == Disowned(q, id)
  <1>1. \A g \in Group : Left(g).id = g.id
    BY DEF Group
  <1>2. d = [i \in DOMAIN q |-> Left(q[i])]
    BY DEF Disowned
  <1> HIDE DEF Left, d
  <1>3. DOMAIN d = DOMAIN q /\ \A i \in DOMAIN q : d[i].id = q[i].id
    BY <1>1, <1>2
  <1>4. Distinct(d)
    BY <1>3, SameIdsDistinct
  <1> QED
    BY <1>4 DEF d

LEMMA DeduplicatedUnique ==
  ASSUME NEW q \in Seq(Profile), NEW active, NEW scope, Distinct(q)
  PROVE  Distinct(Deduplicated(q, active, scope))
  BY DropFrom DEF Deduplicated

LEMMA RepointedUnique ==
  ASSUME NEW s, WellFormed(s), IdsAreUnique(s), NEW point
  PROVE  IdsAreUnique(Repointed(s, point))
  <1> DEFINE Outbound(tag) == IF point[tag] = None THEN Proxy ELSE point[tag]
             Repoint(r) == [r EXCEPT !.profiles = {point[p] : p \in @} \ {None},
                                     !.final = Outbound(@)]
             Block(b) == [b EXCEPT !.tag = Outbound(@)]
             rs == [i \in DOMAIN s.routes |-> Repoint(s.routes[i])]
             bs == [i \in DOMAIN s.blocks |-> Block(s.blocks[i])]
  <1>1. Repointed(s, point) = [s EXCEPT !.routes = rs, !.blocks = bs]
    BY DEF Repointed
  <1> HIDE DEF Outbound
  <1>3. \A r \in Route : Repoint(r).id = r.id
    BY DEF Route
  <1>4. \A b \in RuleBlock : Block(b).id = b.id
    BY DEF RuleBlock
  <1> HIDE DEF Repoint, Block
  <1>8. s.routes \in Seq(Route) /\ s.blocks \in Seq(RuleBlock)
    BY FieldsTyped
  <1>9. DOMAIN rs = DOMAIN s.routes /\ \A i \in DOMAIN s.routes : rs[i].id = s.routes[i].id
    BY <1>3, <1>8
  <1>5. DOMAIN bs = DOMAIN s.blocks /\ \A i \in DOMAIN s.blocks : bs[i].id = s.blocks[i].id
    BY <1>4, <1>8
  <1> HIDE DEF rs, bs
  <1>6. Distinct(rs) /\ Distinct(bs)
    BY <1>5, <1>9, SameIdsDistinct DEF IdsAreUnique
  <1>7. IdsAreUnique([s EXCEPT !.routes = rs, !.blocks = bs])
    BY <1>6 DEF WellFormed, IdsAreUnique
  <1> QED
    BY <1>1, <1>7

LEMMA RoutingOffUnique ==
  ASSUME NEW s, WellFormed(s), IdsAreUnique(s), NEW id
  PROVE  IdsAreUnique(RoutingOff(s, id))
  <1> DEFINE Off(r) == IF r.source = id THEN [r EXCEPT !.enabled = FALSE] ELSE r
             rs == [i \in DOMAIN s.routes |-> Off(s.routes[i])]
  <1>1. RoutingOff(s, id) = [s EXCEPT !.routes = rs]
    BY DEF RoutingOff
  <1>2. \A r \in Route : Off(r).id = r.id
    BY DEF Route
  <1> HIDE DEF Off
  <1>3. DOMAIN rs = DOMAIN s.routes /\ \A i \in DOMAIN s.routes : rs[i].id = s.routes[i].id
    BY <1>2, FieldsTyped
  <1> HIDE DEF rs
  <1>4. Distinct(rs)
    BY <1>3, SameIdsDistinct DEF IdsAreUnique
  <1>5. IdsAreUnique([s EXCEPT !.routes = rs])
    BY <1>4 DEF WellFormed, IdsAreUnique
  <1> QED
    BY <1>1, <1>5

(* The ids a batch is given are new ones, each used once (MappedTyped).     *)
LEMMA MappedUnique ==
  ASSUME NEW s, NEW u \in Subscription, NEW batch \in Seq([name: Names, end: Ends, custom: BOOLEAN]),
         Cardinality(Unused(s, FreshIds)) >= Len(batch)
  PROVE  Distinct(Mapped(s, u, batch)) /\ Ids(Mapped(s, u, batch)) \cap Ids(s.profiles) = {}
  <1> DEFINE F == Unused(s, FreshIds)
             D == DOMAIN batch
             ids == IdsFor(s, D)
             Of(i) == [id |-> ids[i], name |-> batch[i].name, end |-> batch[i].end,
                       custom |-> batch[i].custom, sub |-> u.id, via |-> None,
                       group |-> IF u.target = None THEN Base ELSE u.target]
  <1>1. ids \in [D -> F] /\ \A i, j \in D : ids[i] = ids[j] => i = j
    <2>1. DOMAIN batch = 1 .. Len(batch) /\ Len(batch) \in Nat
      OBVIOUS
    <2> QED
      BY <2>1, IdsGiven
  <1>2. Mapped(s, u, batch) = [i \in D |-> Of(i)]
    BY DEF Mapped, IdsFor
  <1> HIDE DEF ids, F
  <1>3. \A i \in D : Of(i).id = ids[i]
    OBVIOUS
  <1> HIDE DEF Of, D
  <1>4. Distinct([i \in D |-> Of(i)])
    BY <1>1, <1>3 DEF Distinct
  <1>5. F \cap Ids(s.profiles) = {}
    BY DEF F, Unused
  <1>6. Ids([i \in D |-> Of(i)]) \subseteq F
    BY <1>1, <1>3 DEF Ids
  <1> QED
    BY <1>2, <1>4, <1>5, <1>6

LEMMA RefreshedProfilesUnique ==
  ASSUME NEW s, WellFormed(s), IdsAreUnique(s), NEW u, NEW fresh \in Seq(Profile),
         Distinct(fresh), Ids(fresh) \cap Ids(s.profiles) = {}
  PROVE  Distinct(RefreshedProfiles(s, u, fresh))
  <1> DEFINE Previous(f) == SelectInSeq(s.profiles, LAMBDA p : p.sub = u.id /\ SameIdentity(p, f))
             Carry(f) == IF Previous(f) = 0 THEN f
                         ELSE [f EXCEPT !.via = s.profiles[Previous(f)].via]
             carried == [i \in DOMAIN fresh |-> Carry(fresh[i])]
             left == Where(s.profiles, LAMBDA p : ~OwnedBySub(p, u))
             all == left \o carried
             Follow(p) == IF p.via = None THEN p
                          ELSE [p EXCEPT !.via = RefreshedId(s.profiles, @, u.id, fresh)]
             new == [i \in DOMAIN all |-> Follow(all[i])]
  <1>1. RefreshedProfiles(s, u, fresh) = new
    BY DEF RefreshedProfiles
  <1> HIDE DEF Previous
  <1>2. \A f \in Profile : Carry(f).id = f.id
    BY DEF Profile
  <1>3. \A f \in Profile : Follow(f).id = f.id
    BY DEF Profile
  <1>4. left \in Seq(Profile) /\ Distinct(left) /\ Ids(left) \subseteq Ids(s.profiles)
    BY WhereUnique DEF Where
  <1>5. \A f \in Profile : Carry(f) \in Profile
    <2> SUFFICES ASSUME NEW f \in Profile, Previous(f) # 0
                 PROVE  [f EXCEPT !.via = s.profiles[Previous(f)].via] \in Profile
      OBVIOUS
    <2> DEFINE X == {i \in 1 .. Len(s.profiles) : s.profiles[i].sub = u.id /\ SameIdentity(s.profiles[i], f)}
    <2>1. Previous(f) = IF X # {} THEN Min(X) ELSE 0
      BY DEF SelectInSeq, Previous
    <2>2. X \in SUBSET (1 .. Len(s.profiles)) /\ Len(s.profiles) \in Nat
      BY FieldsTyped
    <2> HIDE DEF X
    <2>3. Previous(f) \in 1 .. Len(s.profiles)
      BY <2>1, <2>2, LeastIsMin
    <2>4. s.profiles[Previous(f)] \in Profile
      BY <2>3, FieldsTyped
    <2> QED
      BY <2>4 DEF Profile
  <1> HIDE DEF Carry, Follow, left
  <1>6. /\ carried \in Seq(Profile)
        /\ DOMAIN carried = DOMAIN fresh /\ \A i \in DOMAIN fresh : carried[i].id = fresh[i].id
    BY <1>2, <1>5
  <1> HIDE DEF carried
  <1>7. Distinct(carried) /\ Ids(carried) = Ids(fresh)
    BY <1>6, SameIdsDistinct
  <1>8. Ids(left) \cap Ids(carried) = {}
    BY <1>4, <1>7
  <1>9. all \in Seq(Profile) /\ Distinct(all)
    BY <1>4, <1>6, <1>7, <1>8, ConcatFrom
  <1> HIDE DEF all
  <1>10. DOMAIN new = DOMAIN all /\ \A i \in DOMAIN all : new[i].id = all[i].id
    BY <1>3, <1>9
  <1> HIDE DEF new
  <1>11. Distinct(new)
    BY <1>9, <1>10, SameIdsDistinct
  <1> QED
    BY <1>1, <1>11

LEMMA AppliedUnique ==
  ASSUME NEW s, WellFormed(s), IdsAreUnique(s), NEW u \in Asked, NEW fresh \in Seq(Profile),
         NEW answer \in Answer, Distinct(fresh), Ids(fresh) \cap Ids(s.profiles) = {}
  PROVE  IdsAreUnique(Applied(s, u, fresh, answer))
  <1> DEFINE point == [p \in AllProfiles \cup {Proxy} |-> RefreshedId(s.profiles, p, u.id, fresh)]
             repointed == Repointed(s, point)
             sub == [u EXCEPT !.name = IF answer.title = None THEN @ ELSE answer.title,
                              !.pending = Offered(u, answer)]
             ps == RefreshedProfiles(s, u, fresh)
             a == IF repointed.active = None THEN None
                  ELSE RefreshedId(s.profiles, repointed.active, u.id, fresh)
             updated == [repointed EXCEPT !.profiles = ps, !.active = a]
             owned == RenameOwnedGroup(updated, sub)
             us == Upsert(owned.subs, sub)
             renamed == [owned EXCEPT !.subs = us]
             routed == IF answer.routing = "off" THEN RoutingOff(renamed, u.id) ELSE renamed
             few == Deduplicated(routed.profiles, routed.active, u.target)
  <1>0. Applied(s, u, fresh, answer) = IF s.dedup THEN [routed EXCEPT !.profiles = few] ELSE routed
    BY DEF Applied
  <1>1. WellFormed(repointed) /\ IdsAreUnique(repointed) /\ repointed.active = s.active
    <2>1. \A p \in AllProfiles : point[p] \in AllProfiles \cup {None}
      BY RefreshedIdTyped
    <2>2. point[Proxy] \in AllProfiles \cup {Proxy, None}
      BY RefreshedIdTyped
    <2> HIDE DEF point
    <2> QED
      BY <2>1, <2>2, RepointedTyped, RepointedUnique
  <1> HIDE DEF point, repointed
  <1>2. sub \in Asked
    <2>1. /\ Offered(u, answer) \in SUBSET Proposals
          /\ Offered(u, answer) \cap u.answered = {}
      BY AskedFields DEF Offered, Proposals
    <2>2. (IF answer.title = None THEN u.name ELSE answer.title) \in Names
      BY AskedFields DEF Answer
    <2>3. sub \in Subscription
      BY <2>1, <2>2 DEF Asked, Subscription
    <2>4. AsksOnce(sub)
      BY <2>1 DEF Asked, Subscription, AsksOnce
    <2> QED
      BY <2>3, <2>4 DEF Asked
  <1> HIDE DEF sub
  <1>3. ps \in Seq(Profile) /\ Distinct(ps)
    BY RefreshedProfilesTyped, RefreshedProfilesUnique
  <1>4. a \in AllProfiles \cup {None}
    <2>1. repointed.active \in AllProfiles \cup {None}
      BY <1>1, FieldsTyped
    <2>2. RefreshedId(s.profiles, repointed.active, u.id, fresh) \in AllProfiles \cup {None, repointed.active}
      BY RefreshedIdTyped
    <2> QED
      BY <2>1, <2>2
  <1> HIDE DEF ps, a
  <1>5. WellFormed(updated) /\ IdsAreUnique(updated)
    BY <1>1, <1>3, <1>4 DEF WellFormed, IdsAreUnique
  <1> HIDE DEF updated
  <1>6. WellFormed(owned) /\ IdsAreUnique(owned)
    BY <1>2, <1>5, AskedFields, RenameOwnedGroupTyped, RenameOwnedGroupUnique
  <1> HIDE DEF owned
  <1>7. us \in Seq(Asked) /\ Distinct(us)
    BY <1>2, <1>6, FieldsTyped, UpsertTyped, UpsertFrom DEF IdsAreUnique
  <1> HIDE DEF us
  <1>8. WellFormed(renamed) /\ IdsAreUnique(renamed)
    BY <1>6, <1>7 DEF WellFormed, IdsAreUnique
  <1> HIDE DEF renamed
  <1>9. WellFormed(routed) /\ IdsAreUnique(routed)
    BY <1>8, RoutingOffTyped, RoutingOffUnique
  <1> HIDE DEF routed
  <1>10. Distinct(few)
    BY <1>9, FieldsTyped, DeduplicatedUnique DEF IdsAreUnique
  <1> HIDE DEF few
  <1>11. IdsAreUnique([routed EXCEPT !.profiles = few])
    BY <1>9, <1>10 DEF WellFormed, IdsAreUnique
  <1> QED
    BY <1>0, <1>9, <1>11

(* Of another document only what has an id of its own is taken over.        *)
LEMMA AddedUnique ==
  ASSUME NEW S, NEW q \in Seq(S), NEW r \in Seq(S), NEW A \in SUBSET DOMAIN r,
         Distinct(q), Distinct(r), \A i \in A : r[i].id \notin Ids(q)
  PROVE  Distinct(q \o Kept(r, A))
  <1> DEFINE new == Kept(r, A)
  <1>1. new \in Seq(S) /\ Distinct(new) /\ Ids(new) \subseteq {r[i].id : i \in A}
    BY KeptTyped, KeptFrom
  <1> HIDE DEF new
  <1>2. Ids(q) \cap Ids(new) = {}
    BY <1>1
  <1>3. Distinct(q \o new)
    BY <1>1, <1>2, ConcatFrom
  <1> QED
    BY <1>3 DEF new

LEMMA MergedKeeps ==
  ASSUME NEW s, WellFormed(s), IdsAreUnique(s), NEW doc, WellFormed(doc), IdsAreUnique(doc)
  PROVE  WellFormed(Merged(s, doc)) /\ IdsAreUnique(Merged(s, doc))
  <1> DEFINE d == FoldLegacyRules(doc)
             GroupOf(id) == MatchedId("group", s.groups, d.groups, id)
             SubOf(id) == MatchedId("sub", s.subs, d.subs, id)
             ProfileOf(id) == MatchedId("profile", s.profiles, d.profiles, id)
             FixP(p) == [p EXCEPT !.group = GroupOf(@), !.sub = SubOf(@), !.via = ProfileOf(@)]
             FixG(g) == [g EXCEPT !.owner = SubOf(@)]
             FixU(u) == [u EXCEPT !.target = GroupOf(@)]
             FixB(b) == [b EXCEPT !.source = SubOf(@)]
             FixR(r) == [r EXCEPT !.source = SubOf(@), !.groups = {GroupOf(g) : g \in @}]
             profiles == [i \in DOMAIN d.profiles |-> FixP(d.profiles[i])]
             groups == [i \in DOMAIN d.groups |-> FixG(d.groups[i])]
             subs == [i \in DOMAIN d.subs |-> FixU(d.subs[i])]
             point == [p \in AllProfiles \cup {Proxy} |-> ProfileOf(p)]
             pointed == Repointed(d, point)
             blocks == [i \in DOMAIN pointed.blocks |-> FixB(pointed.blocks[i])]
             routes == [i \in DOMAIN pointed.routes |-> FixR(pointed.routes[i])]
             added == UNION {routes[i].blocks : i \in {j \in DOMAIN routes : routes[j].id = Default}}
             More(r) == IF r.id = Default THEN [r EXCEPT !.blocks = @ \cup added] ELSE r
             here == [i \in DOMAIN s.routes |-> More(s.routes[i])]
             ById(id) == id
             newP == Where(profiles, LAMBDA x : x.id \notin Ids(s.profiles) /\ ProfileOf(x.id) = x.id)
             newG == Where(groups, LAMBDA x : x.id \notin Ids(s.groups) /\ GroupOf(x.id) = x.id)
             newU == Where(subs, LAMBDA x : x.id \notin Ids(s.subs) /\ SubOf(x.id) = x.id)
             newB == Where(blocks, LAMBDA x : x.id \notin Ids(s.blocks) /\ ById(x.id) = x.id)
             newR == Where(routes, LAMBDA x : x.id \notin Ids(s.routes) /\ ById(x.id) = x.id)
  <1>1. Merged(s, doc) = Doc(s.profiles \o newP, s.groups \o newG, s.subs \o newU, s.blocks \o newB,
                             here \o newR, s.active, d.dedup, None)
    BY DEF Merged
  <1>2. WellFormed(d) /\ IdsAreUnique(d)
    BY LegacyRuleTyped, LegacyUnique
  <1> HIDE DEF d
  <1>3. \A id \in Groups \cup {None} : GroupOf(id) \in Groups \cup {id}
    BY IdsTyped, FieldsTyped, MatchedIdTyped
  <1>4. \A id \in SubIds \cup {None} : SubOf(id) \in SubIds \cup {id}
    BY IdsTyped, FieldsTyped, MatchedIdTyped
  <1>5. \A id \in AllProfiles \cup {Proxy, None} : ProfileOf(id) \in AllProfiles \cup {id}
    BY IdsTyped, FieldsTyped, MatchedIdTyped
  <1> HIDE DEF GroupOf, SubOf, ProfileOf
  <1>6. WellFormed(pointed) /\ IdsAreUnique(pointed)
    <2>1. \A p \in AllProfiles : point[p] \in AllProfiles \cup {None}
      BY <1>5
    <2>2. point[Proxy] \in AllProfiles \cup {Proxy, None}
      BY <1>5
    <2> HIDE DEF point
    <2> QED
      BY <1>2, <2>1, <2>2, RepointedTyped, RepointedUnique
  <1> HIDE DEF pointed
  <1>7. \A p \in Profile : FixP(p) \in Profile
    BY <1>3, <1>4, <1>5 DEF Profile
  <1>8. \A g \in Group : FixG(g) \in Group
    BY <1>4 DEF Group
  <1>9. \A u \in Asked : FixU(u) \in Asked
    <2>1. \A u \in Asked : FixU(u) \in Subscription
      BY <1>3 DEF Asked, Subscription
    <2>2. \A u \in Asked : AsksOnce(FixU(u))
      BY DEF Asked, Subscription, AsksOnce
    <2> QED
      BY <2>1, <2>2 DEF Asked
  <1>10. \A b \in RuleBlock : FixB(b) \in RuleBlock
    BY <1>4 DEF RuleBlock
  <1>11. \A r \in Route : FixR(r) \in Route
    <2> SUFFICES ASSUME NEW r \in Route PROVE FixR(r) \in Route
      OBVIOUS
    <2> DEFINE gs == {GroupOf(g) : g \in r.groups}
    <2>1. gs \in SUBSET Groups
      BY <1>3 DEF Route
    <2>2. SubOf(r.source) \in SubIds \cup {None}
      BY <1>4 DEF Route
    <2> HIDE DEF gs
    <2>3. [r EXCEPT !.source = SubOf(r.source), !.groups = gs] \in Route
      BY <2>1, <2>2 DEF Route
    <2> QED
      BY <2>3 DEF gs
  <1>27. /\ \A p \in Profile : FixP(p).id = p.id
         /\ \A g \in Group : FixG(g).id = g.id
         /\ \A u \in Asked : FixU(u).id = u.id
         /\ \A b \in RuleBlock : FixB(b).id = b.id
         /\ \A r \in Route : FixR(r).id = r.id
    BY DEF Profile, Group, Asked, Subscription, RuleBlock, Route
  <1> HIDE DEF FixP, FixG, FixU, FixB, FixR
  <1>23. /\ d.profiles \in Seq(Profile) /\ d.groups \in Seq(Group)
         /\ d.subs \in Seq(Asked) /\ d.dedup \in BOOLEAN
         /\ pointed.blocks \in Seq(RuleBlock) /\ pointed.routes \in Seq(Route)
    BY <1>2, <1>6, FieldsTyped
  <1>24. /\ s.profiles \in Seq(Profile) /\ s.groups \in Seq(Group)
         /\ s.subs \in Seq(Asked) /\ s.blocks \in Seq(RuleBlock)
         /\ s.routes \in Seq(Route) /\ s.active \in AllProfiles \cup {None}
    BY FieldsTyped
  <1>12. profiles \in Seq(Profile)
    <2>1. \A i \in DOMAIN d.profiles : d.profiles[i] \in Profile
      BY <1>23
    <2>2. \A i \in DOMAIN d.profiles : profiles[i] \in Profile
      BY <2>1, <1>7
    <2>3. profiles \in [DOMAIN d.profiles -> Profile]
      BY <2>2
    <2> QED
      BY <2>3, <1>23, MapTyped
  <1>13. groups \in Seq(Group)
    <2>1. \A i \in DOMAIN d.groups : d.groups[i] \in Group
      BY <1>23
    <2>2. \A i \in DOMAIN d.groups : groups[i] \in Group
      BY <2>1, <1>8
    <2>3. groups \in [DOMAIN d.groups -> Group]
      BY <2>2
    <2> QED
      BY <2>3, <1>23, MapTyped
  <1>14. subs \in Seq(Asked)
    <2>1. \A i \in DOMAIN d.subs : d.subs[i] \in Asked
      BY <1>23
    <2>2. \A i \in DOMAIN d.subs : subs[i] \in Asked
      BY <2>1, <1>9
    <2>3. subs \in [DOMAIN d.subs -> Asked]
      BY <2>2
    <2> QED
      BY <2>3, <1>23, MapTyped
  <1>15. blocks \in Seq(RuleBlock)
    <2>1. \A i \in DOMAIN pointed.blocks : pointed.blocks[i] \in RuleBlock
      BY <1>23
    <2>2. \A i \in DOMAIN pointed.blocks : blocks[i] \in RuleBlock
      BY <2>1, <1>10
    <2>3. blocks \in [DOMAIN pointed.blocks -> RuleBlock]
      BY <2>2
    <2> QED
      BY <2>3, <1>23, MapTyped
  <1>16. routes \in Seq(Route)
    <2>1. \A i \in DOMAIN pointed.routes : pointed.routes[i] \in Route
      BY <1>23
    <2>2. \A i \in DOMAIN pointed.routes : routes[i] \in Route
      BY <2>1, <1>11
    <2>3. routes \in [DOMAIN pointed.routes -> Route]
      BY <2>2
    <2> QED
      BY <2>3, <1>23, MapTyped
  <1>28. Distinct(profiles)
    <2>1. DOMAIN profiles = DOMAIN d.profiles /\ \A i \in DOMAIN d.profiles : profiles[i].id = d.profiles[i].id
      BY <1>23, <1>27
    <2> HIDE DEF profiles
    <2> QED
      BY <1>2, <2>1, SameIdsDistinct DEF IdsAreUnique
  <1>29. Distinct(groups)
    <2>1. DOMAIN groups = DOMAIN d.groups /\ \A i \in DOMAIN d.groups : groups[i].id = d.groups[i].id
      BY <1>23, <1>27
    <2> HIDE DEF groups
    <2> QED
      BY <1>2, <2>1, SameIdsDistinct DEF IdsAreUnique
  <1>30. Distinct(subs)
    <2>1. DOMAIN subs = DOMAIN d.subs /\ \A i \in DOMAIN d.subs : subs[i].id = d.subs[i].id
      BY <1>23, <1>27
    <2> HIDE DEF subs
    <2> QED
      BY <1>2, <2>1, SameIdsDistinct DEF IdsAreUnique
  <1>31. Distinct(blocks)
    <2>1. DOMAIN blocks = DOMAIN pointed.blocks /\ \A i \in DOMAIN pointed.blocks : blocks[i].id = pointed.blocks[i].id
      BY <1>23, <1>27
    <2> HIDE DEF blocks
    <2> QED
      BY <1>6, <2>1, SameIdsDistinct DEF IdsAreUnique
  <1>32. Distinct(routes)
    <2>1. DOMAIN routes = DOMAIN pointed.routes /\ \A i \in DOMAIN pointed.routes : routes[i].id = pointed.routes[i].id
      BY <1>23, <1>27
    <2> HIDE DEF routes
    <2> QED
      BY <1>6, <2>1, SameIdsDistinct DEF IdsAreUnique
  <1> HIDE DEF profiles, groups, subs, blocks, routes
  <1>17. newP \in Seq(Profile) /\ newG \in Seq(Group) /\ newU \in Seq(Asked)
    BY <1>12, <1>13, <1>14, KeptTyped DEF Where
  <1>18. newB \in Seq(RuleBlock) /\ newR \in Seq(Route)
    BY <1>15, <1>16, KeptTyped DEF Where
  <1>19. added \in SUBSET AllBlocks
    <2>1. \A i \in DOMAIN routes : routes[i] \in Route
      BY <1>16
    <2>2. \A i \in DOMAIN routes : routes[i].blocks \subseteq AllBlocks
      BY <2>1 DEF Route
    <2> QED
      BY <2>2
  <1> HIDE DEF added
  <1>20. \A r \in Route : More(r) \in Route /\ More(r).id = r.id
    BY <1>19 DEF Route
  <1> HIDE DEF More
  <1>21. here \in Seq(Route)
    BY <1>20, <1>24
  <1>33. Distinct(here) /\ Ids(here) = Ids(s.routes)
    <2>1. DOMAIN here = DOMAIN s.routes /\ \A i \in DOMAIN s.routes : here[i].id = s.routes[i].id
      BY <1>20, <1>24
    <2> HIDE DEF here
    <2> QED
      BY <2>1, SameIdsDistinct DEF IdsAreUnique
  <1> HIDE DEF here
  <1>34. Distinct(s.profiles \o newP)
    BY <1>12, <1>24, <1>28, AddedUnique DEF Where, IdsAreUnique
  <1>35. Distinct(s.groups \o newG)
    BY <1>13, <1>24, <1>29, AddedUnique DEF Where, IdsAreUnique
  <1>36. Distinct(s.subs \o newU)
    BY <1>14, <1>24, <1>30, AddedUnique DEF Where, IdsAreUnique
  <1>37. Distinct(s.blocks \o newB)
    BY <1>15, <1>24, <1>31, AddedUnique DEF Where, IdsAreUnique
  <1>38. Distinct(here \o newR)
    BY <1>16, <1>21, <1>32, <1>33, AddedUnique DEF Where
  <1> HIDE DEF newP, newG, newU, newB, newR
  <1> DEFINE P == s.profiles \o newP
             G == s.groups \o newG
             U == s.subs \o newU
             B == s.blocks \o newB
             R == here \o newR
  <1>22. P \in Seq(Profile) /\ G \in Seq(Group) /\ U \in Seq(Asked) /\ B \in Seq(RuleBlock) /\ R \in Seq(Route)
    BY <1>17, <1>18, <1>21, <1>24
  <1>25. Merged(s, doc) = Doc(P, G, U, B, R, s.active, d.dedup, None)
    BY <1>1
  <1>39. Distinct(P) /\ Distinct(G) /\ Distinct(U) /\ Distinct(B) /\ Distinct(R)
    BY <1>34, <1>35, <1>36, <1>37, <1>38
  <1> HIDE DEF P, G, U, B, R
  <1>26. None \in AllProfiles \cup {Proxy, None}
    OBVIOUS
  <1>40. WellFormed(Doc(P, G, U, B, R, s.active, d.dedup, None))
    BY <1>22, <1>23, <1>24, <1>26, DocTyped
  <1>41. IdsAreUnique(Doc(P, G, U, B, R, s.active, d.dedup, None))
    BY <1>39 DEF IdsAreUnique, Doc
  <1> QED
    BY <1>25, <1>40, <1>41

LEMMA ReplacedKeeps ==
  ASSUME NEW s, WellFormed(s), IdsAreUnique(s), NEW doc, WellFormed(doc), IdsAreUnique(doc)
  PROVE  WellFormed(Replaced(s, doc)) /\ IdsAreUnique(Replaced(s, doc))
  <1> DEFINE new == Drop(doc.profiles, Ids(s.profiles))
             ps == s.profiles \o new
  <1>1. new \in Seq(Profile) /\ Distinct(new) /\ Ids(s.profiles) \cap Ids(new) = {}
    BY FieldsTyped, DropTyped, DropFrom DEF IdsAreUnique
  <1> HIDE DEF new
  <1>2. ps \in Seq(Profile) /\ Distinct(ps)
    BY <1>1, FieldsTyped, ConcatFrom DEF IdsAreUnique
  <1>3. Replaced(s, doc) = [doc EXCEPT !.profiles = ps]
    BY DEF Replaced, new
  <1> HIDE DEF ps
  <1> QED
    BY <1>2, <1>3 DEF WellFormed, IdsAreUnique

(* A write that stores what the chain makes of a document of the right      *)
(* shape with no id twice.                                                  *)
WrittenWell == \E d : WellFormed(d) /\ IdsAreUnique(d) /\ saved' = Chain(d)

LEMMA EditWrites ==
  ASSUME NEW d, WellFormed(d), IdsAreUnique(d), Edit(d) \/ Write(d)
  PROVE  WrittenWell
  BY DEF Edit, Write, WrittenWell

LEMMA ProfileStepWrites ==
  ASSUME WellFormed(saved), IdsAreUnique(saved), ProfileStep
  PROVE  WrittenWell
  <1> DEFINE s == Read
  <1>0. WellFormed(s) /\ IdsAreUnique(s) /\ s.profiles \in Seq(Profile)
    BY ReadTyped, ReadUnique, FieldsTyped DEF Read
  <1> HIDE DEF s
  <1>1. ASSUME NEW id \in ProfileIds, NEW n \in Names, NEW e \in Ends, NEW g \in Groups,
               NEW v \in AllProfiles \cup {None}, AddProfile(id, n, e, g, v)
        PROVE  WrittenWell
    <2> DEFINE p == [id |-> id, name |-> n, end |-> e, custom |-> FALSE,
                     group |-> g, sub |-> None, via |-> v]
               ps == <<p>> \o s.profiles
    <2>1. Edit([s EXCEPT !.profiles = ps]) /\ p.id \notin Ids(s.profiles)
      BY <1>1 DEF AddProfile, Unused, s
    <2>2. p \in Profile
      BY DEF Profile, AllProfiles
    <2> HIDE DEF p
    <2>3. ps \in Seq(Profile) /\ Distinct(ps)
      <3>1. ps \in Seq(Profile)
        BY <1>0, <2>2
      <3> QED
        BY <1>0, <2>1, <2>2, <3>1, PrependFrom DEF IdsAreUnique
    <2> HIDE DEF ps
    <2>4. /\ WellFormed([s EXCEPT !.profiles = ps])
          /\ IdsAreUnique([s EXCEPT !.profiles = ps])
      BY <1>0, <2>3 DEF WellFormed, IdsAreUnique
    <2> QED
      BY <2>1, <2>4, EditWrites
  <1>2. ASSUME NEW id \in AllProfiles, NEW n \in Names, NEW g \in Groups,
               NEW v \in AllProfiles \cup {None}, UpsertProfile(id, n, g, v)
        PROVE  WrittenWell
    <2> DEFINE p == [Get(s.profiles, id) EXCEPT !.name = n, !.group = g, !.via = v]
               ps == Upsert(s.profiles, p)
    <2>1. Edit([s EXCEPT !.profiles = ps]) /\ id \in Ids(s.profiles)
      BY <1>2 DEF UpsertProfile, s
    <2>2. p \in Profile
      <3>1. Get(s.profiles, id) \in Profile
        BY <1>0, <2>1, GetTyped
      <3> QED
        BY <3>1 DEF Profile
    <2> HIDE DEF p
    <2>3. ps \in Seq(Profile) /\ Distinct(ps)
      BY <1>0, <2>2, UpsertTyped, UpsertFrom DEF IdsAreUnique
    <2> HIDE DEF ps
    <2>4. /\ WellFormed([s EXCEPT !.profiles = ps])
          /\ IdsAreUnique([s EXCEPT !.profiles = ps])
      BY <1>0, <2>3 DEF WellFormed, IdsAreUnique
    <2> QED
      BY <2>1, <2>4, EditWrites
  <1>3. ASSUME NEW ids, RemoveProfiles(ids) PROVE WrittenWell
    <2> DEFINE ps == Drop(s.profiles, ids)
    <2>1. Edit([s EXCEPT !.profiles = ps])
      BY <1>3 DEF RemoveProfiles, s
    <2>3. ps \in Seq(Profile) /\ Distinct(ps)
      BY <1>0, DropTyped, DropFrom DEF IdsAreUnique
    <2> HIDE DEF ps
    <2>4. /\ WellFormed([s EXCEPT !.profiles = ps])
          /\ IdsAreUnique([s EXCEPT !.profiles = ps])
      BY <1>0, <2>3 DEF WellFormed, IdsAreUnique
    <2> QED
      BY <2>1, <2>4, EditWrites
  <1>4. ASSUME NEW id \in AllProfiles, NEW copy \in FreshIds, NEW n \in Names, CloneProfile(id, copy, n)
        PROVE  WrittenWell
    <2> DEFINE p == [Get(s.profiles, id) EXCEPT !.id = copy, !.name = n, !.sub = None]
               ps == InsertAt(s.profiles, IndexOf(s.profiles, id) + 1, p)
    <2>1. Edit([s EXCEPT !.profiles = ps]) /\ id \in Ids(s.profiles) /\ copy \notin Ids(s.profiles)
      BY <1>4 DEF CloneProfile, Unused, s
    <2>2. p \in Profile /\ p.id = copy
      <3>1. Get(s.profiles, id) \in Profile
        BY <1>0, <2>1, GetTyped
      <3> QED
        BY <3>1 DEF Profile, AllProfiles
    <2> HIDE DEF p
    <2>3. ps \in Seq(Profile) /\ Distinct(ps)
      <3>1. IndexOf(s.profiles, id) + 1 \in 1 .. Len(s.profiles) + 1
        <4>1. IndexOf(s.profiles, id) \in 1 .. Len(s.profiles) /\ Len(s.profiles) \in Nat
          BY <1>0, <2>1, FirstWith
        <4> QED
          BY <4>1
      <3> QED
        BY <1>0, <2>1, <2>2, <3>1, InsertAtTyped, InsertAtFrom DEF IdsAreUnique
    <2> HIDE DEF ps
    <2>4. /\ WellFormed([s EXCEPT !.profiles = ps])
          /\ IdsAreUnique([s EXCEPT !.profiles = ps])
      BY <1>0, <2>3 DEF WellFormed, IdsAreUnique
    <2> QED
      BY <2>1, <2>4, EditWrites
  <1>5. ASSUME NEW ids, NEW g \in Groups, MoveProfiles(ids, g) PROVE WrittenWell
    <2> DEFINE Put(p) == IF p.id \in ids THEN [p EXCEPT !.group = g] ELSE p
               ps == [i \in DOMAIN s.profiles |-> Put(s.profiles[i])]
    <2>1. Edit([s EXCEPT !.profiles = ps])
      BY <1>5 DEF MoveProfiles, s
    <2>2. \A p \in Profile : Put(p) \in Profile /\ Put(p).id = p.id
      BY DEF Profile
    <2> HIDE DEF Put
    <2>5. ps \in Seq(Profile)
      BY <1>0, <2>2
    <2>6. DOMAIN ps = DOMAIN s.profiles /\ \A i \in DOMAIN s.profiles : ps[i].id = s.profiles[i].id
      BY <1>0, <2>2
    <2> HIDE DEF ps
    <2>3. ps \in Seq(Profile) /\ Distinct(ps)
      BY <1>0, <2>5, <2>6, SameIdsDistinct DEF IdsAreUnique
    <2>4. /\ WellFormed([s EXCEPT !.profiles = ps])
          /\ IdsAreUnique([s EXCEPT !.profiles = ps])
      BY <1>0, <2>3 DEF WellFormed, IdsAreUnique
    <2> QED
      BY <2>1, <2>4, EditWrites
  <1>6. ASSUME NEW active, NEW scope, DeduplicateProfiles(active, scope) PROVE WrittenWell
    <2> DEFINE ps == Deduplicated(s.profiles, active, scope)
    <2>1. Edit([s EXCEPT !.profiles = ps])
      BY <1>6 DEF DeduplicateProfiles, s
    <2>3. ps \in Seq(Profile) /\ Distinct(ps)
      BY <1>0, DeduplicatedTyped, DeduplicatedUnique DEF IdsAreUnique
    <2> HIDE DEF ps
    <2>4. /\ WellFormed([s EXCEPT !.profiles = ps])
          /\ IdsAreUnique([s EXCEPT !.profiles = ps])
      BY <1>0, <2>3 DEF WellFormed, IdsAreUnique
    <2> QED
      BY <2>1, <2>4, EditWrites
  <1>7. ASSUME NEW id \in AllProfiles \cup {None}, SetActive(id) PROVE WrittenWell
    <2>1. Edit([s EXCEPT !.active = id])
      BY <1>7 DEF SetActive, s
    <2>4. /\ WellFormed([s EXCEPT !.active = id])
          /\ IdsAreUnique([s EXCEPT !.active = id])
      BY <1>0 DEF WellFormed, IdsAreUnique
    <2> QED
      BY <2>1, <2>4, EditWrites
  <1> QED
    BY <1>1, <1>2, <1>3, <1>4, <1>5, <1>6, <1>7 DEF ProfileStep

LEMMA GroupStepWrites ==
  ASSUME WellFormed(saved), IdsAreUnique(saved), GroupStep
  PROVE  WrittenWell
  <1> DEFINE s == Read
  <1>0. WellFormed(s) /\ IdsAreUnique(s) /\ s.groups \in Seq(Group)
    BY ReadTyped, ReadUnique, FieldsTyped DEF Read
  <1> HIDE DEF s
  <1>1. ASSUME NEW id \in Groups, NEW n \in Names, NEW u \in SubIds \cup {None}, AddGroup(id, n, u)
        PROVE  WrittenWell
    <2> DEFINE g == [id |-> id, name |-> n, owner |-> u]
               gs == Append(s.groups, g)
    <2>1. Edit([s EXCEPT !.groups = gs]) /\ g.id \notin Ids(s.groups)
      BY <1>1 DEF AddGroup, s
    <2>2. g \in Group
      BY DEF Group
    <2> HIDE DEF g
    <2>3. gs \in Seq(Group) /\ Distinct(gs)
      <3>1. gs \in Seq(Group)
        BY <1>0, <2>2
      <3> QED
        BY <1>0, <2>1, <2>2, <3>1, AppendFrom DEF IdsAreUnique
    <2> HIDE DEF gs
    <2>4. /\ WellFormed([s EXCEPT !.groups = gs])
          /\ IdsAreUnique([s EXCEPT !.groups = gs])
      BY <1>0, <2>3 DEF WellFormed, IdsAreUnique
    <2> QED
      BY <2>1, <2>4, EditWrites
  <1>2. ASSUME NEW id \in Groups, NEW n \in Names, RenameGroup(id, n) PROVE WrittenWell
    <2> DEFINE g == [Get(s.groups, id) EXCEPT !.name = n]
               gs == Upsert(s.groups, g)
    <2>1. Edit([s EXCEPT !.groups = gs]) /\ id \in Ids(s.groups)
      BY <1>2 DEF RenameGroup, s
    <2>2. g \in Group
      <3>1. Get(s.groups, id) \in Group
        BY <1>0, <2>1, GetTyped
      <3> QED
        BY <3>1 DEF Group
    <2> HIDE DEF g
    <2>3. gs \in Seq(Group) /\ Distinct(gs)
      BY <1>0, <2>2, UpsertTyped, UpsertFrom DEF IdsAreUnique
    <2> HIDE DEF gs
    <2>4. /\ WellFormed([s EXCEPT !.groups = gs])
          /\ IdsAreUnique([s EXCEPT !.groups = gs])
      BY <1>0, <2>3 DEF WellFormed, IdsAreUnique
    <2> QED
      BY <2>1, <2>4, EditWrites
  <1>3. ASSUME NEW id \in Groups, RemoveGroup(id) PROVE WrittenWell
    <2> DEFINE gs == Drop(s.groups, {id})
               ps == Where(s.profiles, LAMBDA p : p.group # id)
               Put(u) == IF u.target = id THEN [u EXCEPT !.target = Base] ELSE u
               us == [i \in DOMAIN s.subs |-> Put(s.subs[i])]
    <2>1. Edit([s EXCEPT !.groups = gs, !.profiles = ps, !.subs = us])
      BY <1>3 DEF RemoveGroup, s
    <2>2. \A u \in Asked : Put(u) \in Asked /\ Put(u).id = u.id
      <3>1. \A u \in Asked : Put(u) \in Subscription /\ Put(u).id = u.id
        BY IdsAssumption DEF Asked, Subscription
      <3>2. \A u \in Asked : AsksOnce(Put(u))
        BY DEF Asked, Subscription, AsksOnce
      <3> QED
        BY <3>1, <3>2 DEF Asked
    <2>5. gs \in Seq(Group) /\ Distinct(gs)
      BY <1>0, DropTyped, DropFrom DEF IdsAreUnique
    <2>6. ps \in Seq(Profile) /\ Distinct(ps)
      <3>1. {i \in DOMAIN s.profiles : s.profiles[i].group # id} \in SUBSET DOMAIN s.profiles
        OBVIOUS
      <3> QED
        BY <1>0, <3>1, FieldsTyped, KeptTyped, KeptFrom DEF Where, IdsAreUnique
    <2> HIDE DEF Put
    <2>7. us \in Seq(Asked) /\ Distinct(us)
      <3>1. s.subs \in Seq(Asked) /\ Distinct(s.subs)
        BY <1>0, FieldsTyped DEF IdsAreUnique
      <3>2. us \in Seq(Asked)
        BY <2>2, <3>1
      <3>3. DOMAIN us = DOMAIN s.subs /\ \A i \in DOMAIN s.subs : us[i].id = s.subs[i].id
        BY <2>2, <3>1
      <3> HIDE DEF us
      <3> QED
        BY <3>1, <3>2, <3>3, SameIdsDistinct
    <2> HIDE DEF gs, ps, us
    <2>4. /\ WellFormed([s EXCEPT !.groups = gs, !.profiles = ps, !.subs = us])
          /\ IdsAreUnique([s EXCEPT !.groups = gs, !.profiles = ps, !.subs = us])
      BY <1>0, <2>5, <2>6, <2>7 DEF WellFormed, IdsAreUnique
    <2> QED
      BY <2>1, <2>4, EditWrites
  <1>4. ASSUME NEW from, NEW to, ReorderGroups(from, to) PROVE WrittenWell
    <2> DEFINE pinned == IF s.groups[1].id = Base THEN 1 ELSE 0
               gs == MoveItem(s.groups, from, IF to > pinned THEN to ELSE pinned + 1)
    <2>1. Edit([s EXCEPT !.groups = gs])
      BY <1>4 DEF ReorderGroups, s
    <2>3. gs \in Seq(Group) /\ Distinct(gs)
      BY <1>0, MoveItemTyped, MoveItemFrom DEF IdsAreUnique
    <2> HIDE DEF gs
    <2>4. /\ WellFormed([s EXCEPT !.groups = gs])
          /\ IdsAreUnique([s EXCEPT !.groups = gs])
      BY <1>0, <2>3 DEF WellFormed, IdsAreUnique
    <2> QED
      BY <2>1, <2>4, EditWrites
  <1> QED
    BY <1>1, <1>2, <1>3, <1>4 DEF GroupStep

LEMMA SubStepWrites ==
  ASSUME WellFormed(saved), IdsAreUnique(saved), SubStep
  PROVE  WrittenWell
  <1> DEFINE s == Read
  <1>0. WellFormed(s) /\ IdsAreUnique(s) /\ s.groups \in Seq(Group)
    BY ReadTyped, ReadUnique, FieldsTyped DEF Read
  <1> HIDE DEF s
  <1>1. ASSUME NEW id \in SubIds, NEW n \in Names, NEW g \in Groups \cup {None}, AddSub(id, n, g)
        PROVE  WrittenWell
    <2> DEFINE u == [id |-> id, name |-> n, enabled |-> TRUE, target |-> g,
                     configs |-> FALSE, pending |-> {}, answered |-> {}]
    <2>1. Edit(StoreSub(s, u))
      BY <1>1 DEF AddSub, s
    <2>2. u \in Asked
      BY DEF Asked, Subscription, AsksOnce
    <2> HIDE DEF u
    <2> QED
      BY <1>0, <2>1, <2>2, StoreSubTyped, StoreSubUnique, EditWrites
  <1>2. ASSUME NEW id, NEW deleteGroup, RemoveSub(id, deleteGroup) PROVE WrittenWell
    <2> DEFINE u == IF id \in Ids(s.subs) THEN Get(s.subs, id)
                    ELSE [id |-> id, target |-> None]
               left == WithoutSub(s, u)
               gone == IF deleteGroup /\ OwnedGroupIsEmpty(left, id, u.target)
                       THEN {u.target} ELSE {}
               gs == Disowned(Drop(left.groups, gone), id)
    <2>1. Edit([left EXCEPT !.groups = gs])
      BY <1>2 DEF RemoveSub, s
    <2> HIDE DEF u, gone
    <2>2. WellFormed(left) /\ IdsAreUnique(left)
      BY <1>0, WithoutSubTyped, WithoutSubUnique
    <2> HIDE DEF left
    <2>3. gs \in Seq(Group) /\ Distinct(gs)
      <3>1. Drop(left.groups, gone) \in Seq(Group) /\ Distinct(Drop(left.groups, gone))
        BY <2>2, FieldsTyped, DropTyped, DropFrom DEF IdsAreUnique
      <3> QED
        BY <3>1, DisownedTyped, DisownedUnique
    <2> HIDE DEF gs
    <2>4. /\ WellFormed([left EXCEPT !.groups = gs])
          /\ IdsAreUnique([left EXCEPT !.groups = gs])
      BY <2>2, <2>3 DEF WellFormed, IdsAreUnique
    <2> QED
      BY <2>1, <2>4, EditWrites
  <1>3. ASSUME NEW on \in BOOLEAN, SetSettings(on) PROVE WrittenWell
    <2>1. Edit([s EXCEPT !.dedup = on])
      BY <1>3 DEF SetSettings, s
    <2>2. /\ WellFormed([s EXCEPT !.dedup = on])
          /\ IdsAreUnique([s EXCEPT !.dedup = on])
      BY <1>0 DEF WellFormed, IdsAreUnique
    <2> QED
      BY <2>1, <2>2, EditWrites
  <1> QED
    BY <1>1, <1>2, <1>3 DEF SubStep

FetchTyped == fetch \in [Fetchers -> Subscription \cup {None}]

LEMMA FetchStepWrites ==
  ASSUME WellFormed(saved), IdsAreUnique(saved), FetchTyped, FetchStep
  PROVE  (WrittenWell \/ saved' = saved) /\ FetchTyped' /\ sheet' = sheet
  <1> DEFINE s == Read
  <1>0. WellFormed(s) /\ IdsAreUnique(s) /\ s.subs \in Seq(Asked)
    BY ReadTyped, ReadUnique, FieldsTyped DEF Read
  <1> HIDE DEF s
  <1>1. ASSUME NEW f \in Fetchers, NEW id \in SubIds, FetchBegin(f, id)
        PROVE  saved' = saved /\ FetchTyped' /\ sheet' = sheet
    <2>1. id \in Ids(s.subs) /\ fetch' = [fetch EXCEPT ![f] = Get(s.subs, id)]
      BY <1>1 DEF FetchBegin, s
    <2>2. Get(s.subs, id) \in Subscription
      BY <1>0, <2>1, GetTyped DEF Asked
    <2> QED
      BY <1>1, <2>1, <2>2 DEF FetchBegin, FetchTyped
  <1>2. ASSUME NEW f \in Fetchers, NEW a \in Answers, FetchLand(f, a)
        PROVE  (WrittenWell \/ saved' = saved) /\ FetchTyped' /\ sheet' = sheet
    <2> DEFINE u == Get(s.subs, fetch[f].id)
               fresh == Mapped(s, fetch[f], a.batch)
               live == fetch[f].id \in Ids(s.subs) /\ (f = "tick" => u.enabled)
    <2>1. /\ fetch[f] # None /\ Cardinality(Unused(s, FreshIds)) >= Len(a.batch)
          /\ fetch' = [fetch EXCEPT ![f] = None]
          /\ IF live THEN Write(Applied(s, u, fresh, a)) ELSE UNCHANGED <<saved, writes>>
          /\ UNCHANGED sheet
      BY <1>2 DEF FetchLand, s
    <2>2. fetch[f] \in Subscription
      BY <2>1 DEF FetchTyped
    <2>3. a \in Answer /\ a.batch \in Seq([name: Names, end: Ends, custom: BOOLEAN])
      <3>1. a \in Answer
        BY InputsAssumption
      <3> QED
        BY <3>1 DEF Answer
    <2>4. fresh \in Seq(Profile) /\ Distinct(fresh) /\ Ids(fresh) \cap Ids(s.profiles) = {}
      BY <2>1, <2>2, <2>3, MappedTyped, MappedUnique
    <2>5. CASE live
      <3>1. u \in Asked
        BY <1>0, <2>5, GetTyped
      <3>2. Write(Applied(s, u, fresh, a))
        BY <2>1, <2>5
      <3> HIDE DEF u, fresh, live
      <3>3. WrittenWell
        BY <1>0, <2>3, <2>4, <3>1, <3>2, AppliedTyped, AppliedUnique, EditWrites
      <3>4. FetchTyped'
        BY <2>1 DEF FetchTyped
      <3> QED
        BY <2>1, <3>3, <3>4
    <2>6. CASE ~live
      <3>1. saved' = saved /\ sheet' = sheet
        BY <2>1, <2>6
      <3>2. FetchTyped'
        BY <2>1 DEF FetchTyped
      <3> QED
        BY <3>1, <3>2
    <2> QED
      BY <2>5, <2>6
  <1>3. ASSUME NEW f \in Fetchers, NEW consent \in BOOLEAN, FetchFail(f, consent)
        PROVE  (WrittenWell \/ saved' = saved) /\ FetchTyped' /\ sheet' = sheet
    <2> DEFINE id == fetch[f].id
               u == Get(s.subs, id)
               asks == IF consent /\ ~u.configs THEN {"configs"} \ u.answered ELSE {}
               asked == [u EXCEPT !.pending = @ \cup asks]
               us == Upsert(s.subs, asked)
    <2>1. /\ fetch' = [fetch EXCEPT ![f] = None]
          /\ IF id \in Ids(s.subs) THEN Write([s EXCEPT !.subs = us]) ELSE UNCHANGED <<saved, writes>>
          /\ UNCHANGED sheet
      BY <1>3 DEF FetchFail, s
    <2>2. FetchTyped'
      BY <2>1 DEF FetchTyped
    <2>3. CASE id \in Ids(s.subs)
      <3>1. u \in Asked
        BY <1>0, <2>3, GetTyped
      <3>2. Write([s EXCEPT !.subs = us])
        BY <2>1, <2>3
      <3> HIDE DEF u
      <3>3. asks \in SUBSET Proposals /\ asks \cap u.answered = {}
        BY DEF Proposals
      <3> HIDE DEF asks
      <3>4. asked \in Asked
        <4>1. asked \in Subscription
          BY <3>1, <3>3 DEF Asked, Subscription
        <4>2. AsksOnce(asked)
          BY <3>1, <3>3 DEF Asked, Subscription, AsksOnce
        <4> QED
          BY <4>1, <4>2 DEF Asked
      <3> HIDE DEF asked
      <3>5. us \in Seq(Asked) /\ Distinct(us)
        BY <1>0, <3>4, UpsertTyped, UpsertFrom DEF IdsAreUnique
      <3> HIDE DEF us
      <3>6. WellFormed([s EXCEPT !.subs = us]) /\ IdsAreUnique([s EXCEPT !.subs = us])
        BY <1>0, <3>5 DEF WellFormed, IdsAreUnique
      <3> QED
        BY <2>1, <2>2, <3>2, <3>6, EditWrites
    <2>4. CASE id \notin Ids(s.subs)
      BY <2>1, <2>2, <2>4
    <2> QED
      BY <2>3, <2>4
  <1> QED
    BY <1>1, <1>2, <1>3 DEF FetchStep

LEMMA SheetStepWrites ==
  ASSUME WellFormed(saved), IdsAreUnique(saved), sheet \in Asked \cup {None}, SheetStep
  PROVE  (WrittenWell \/ saved' = saved) /\ sheet' \in Asked \cup {None} /\ fetch' = fetch
  <1> DEFINE s == Read
  <1>0. WellFormed(s) /\ IdsAreUnique(s) /\ s.subs \in Seq(Asked)
    BY ReadTyped, ReadUnique, FieldsTyped DEF Read
  <1> HIDE DEF s
  <1>1. ASSUME NEW id \in SubIds, OpenSheet(id)
        PROVE  saved' = saved /\ sheet' \in Asked \cup {None} /\ fetch' = fetch
    <2>1. id \in Ids(s.subs) /\ sheet' = Get(s.subs, id)
      BY <1>1 DEF OpenSheet, s
    <2>2. Get(s.subs, id) \in Asked
      BY <1>0, <2>1, GetTyped
    <2> QED
      BY <1>1, <2>1, <2>2 DEF OpenSheet
  <1>2. ASSUME sheet # None, NEW edit \in SheetEdits, SaveSheet(edit)
        PROVE  WrittenWell /\ sheet' \in Asked \cup {None} /\ fetch' = fetch
    <2> DEFINE next == IF edit.id \in Ids(s.subs)
                       THEN MergeSubEdit(edit, Get(s.subs, edit.id), sheet) ELSE edit
    <2>1. Write(StoreSub(s, next)) /\ sheet' = None /\ fetch' = fetch
      BY <1>2 DEF SaveSheet, s
    <2>2. edit \in Asked
      <3>1. sheet \in Asked
        BY <1>2
      <3>2. \A n \in Names : [sheet EXCEPT !.name = n] \in Asked
        BY <3>1 DEF Asked, Subscription, AsksOnce
      <3>3. \A on \in BOOLEAN : [sheet EXCEPT !.enabled = on] \in Asked
        BY <3>1 DEF Asked, Subscription, AsksOnce
      <3>4. \A g \in Groups \cup {None} : [sheet EXCEPT !.target = g] \in Asked
        BY <3>1 DEF Asked, Subscription, AsksOnce
      <3>5. \A on \in BOOLEAN : [sheet EXCEPT !.configs = on] \in Asked
        BY <3>1 DEF Asked, Subscription, AsksOnce
      <3> QED
        BY <3>2, <3>3, <3>4, <3>5 DEF SheetEdits
    <2>3. next \in Asked
      BY <1>0, <2>2, GetTyped, MergeSubEditTyped
    <2> HIDE DEF next
    <2> QED
      BY <1>0, <2>1, <2>3, StoreSubTyped, StoreSubUnique, EditWrites
  <1> QED
    BY <1>1, <1>2 DEF SheetStep

LEMMA AnswerStepWrites ==
  ASSUME WellFormed(saved), IdsAreUnique(saved), AnswerStep
  PROVE  WrittenWell
  <1> DEFINE s == Read
  <1>0. WellFormed(s) /\ IdsAreUnique(s) /\ s.subs \in Seq(Asked) /\ s.profiles \in Seq(Profile)
    BY ReadTyped, ReadUnique, FieldsTyped DEF Read
  <1> HIDE DEF s
  <1>1. ASSUME NEW id \in SubIds, NEW change \in Proposals, NEW accept \in BOOLEAN,
               NEW activate \in BOOLEAN, ResolveSubChange(id, change, accept, activate)
        PROVE  WrittenWell
    <2> DEFINE u == Get(s.subs, id)
               said == [u EXCEPT !.pending = @ \ {change}, !.answered = @ \cup {change}]
               answered == [s EXCEPT !.subs = Upsert(@, said)]
               group == IF u.target = None THEN Base ELSE u.target
               allowed == [Get(answered.subs, id) EXCEPT !.configs = TRUE]
               agreed == [answered EXCEPT !.subs = Upsert(@, allowed)]
    <2>1. /\ id \in Ids(s.subs)
          /\ \/ Edit(answered)
             \/ Edit(ImportRouting(answered, <<"sub", id>>, group, id, TRUE, activate))
             \/ Edit(agreed)
      BY <1>1, Zenon DEF ResolveSubChange, s
    <2>2. u \in Asked
      BY <1>0, <2>1, GetTyped
    <2> HIDE DEF u
    <2>3. said \in Asked /\ said.id = u.id
      <3>1. said \in Subscription /\ said.id = u.id
        BY <2>2 DEF Asked, Subscription
      <3>2. AsksOnce(said)
        BY <2>2 DEF Asked, Subscription, AsksOnce
      <3> QED
        BY <3>1, <3>2 DEF Asked
    <2> HIDE DEF said
    <2>4. WellFormed(answered) /\ IdsAreUnique(answered) /\ answered.subs = Upsert(s.subs, said)
      <3> DEFINE us == Upsert(s.subs, said)
      <3>1. us \in Seq(Asked) /\ Distinct(us)
        BY <1>0, <2>3, UpsertTyped, UpsertFrom DEF IdsAreUnique
      <3>2. answered = [s EXCEPT !.subs = us]
        OBVIOUS
      <3> HIDE DEF us, answered
      <3> QED
        BY <1>0, <3>1, <3>2 DEF WellFormed, IdsAreUnique, us
    <2>5. group \in Groups
      BY <2>2, AskedFields, IdsAssumption
    <2> HIDE DEF group
    <2>6. /\ WellFormed(ImportRouting(answered, <<"sub", id>>, group, id, TRUE, activate))
          /\ IdsAreUnique(ImportRouting(answered, <<"sub", id>>, group, id, TRUE, activate))
      <3>1. <<"sub", id>> \in AllBlocks /\ <<"sub", id>> \in AllRoutes
        BY DEF AllBlocks, AllRoutes
      <3> HIDE DEF answered
      <3> QED
        BY <2>4, <2>5, <3>1, ImportRoutingTyped, ImportRoutingUnique
    <2>7. ASSUME Edit(agreed) PROVE WrittenWell
      <3>1. id \in Ids(answered.subs)
        <4>1. u.id = id
          BY <1>0, <2>1, GetTyped DEF u
        <4>2. IndexOf(s.subs, id) \in DOMAIN s.subs
          BY <1>0, <2>1, FirstWith
        <4>3. Upsert(s.subs, said) = [s.subs EXCEPT ![IndexOf(s.subs, id)] = said]
          BY <2>1, <2>3, <4>1 DEF Upsert
        <4>4. Upsert(s.subs, said)[IndexOf(s.subs, id)] = said /\ IndexOf(s.subs, id) \in DOMAIN Upsert(s.subs, said)
          BY <4>2, <4>3
        <4> QED
          BY <2>3, <2>4, <4>1, <4>4 DEF Ids
      <3> HIDE DEF answered
      <3>2. Get(answered.subs, id) \in Asked
        BY <2>4, <3>1, FieldsTyped, GetTyped
      <3>3. allowed \in Asked
        BY <3>2 DEF Asked, Subscription, AsksOnce
      <3> HIDE DEF allowed
      <3> DEFINE us == Upsert(answered.subs, allowed)
      <3>4. us \in Seq(Asked) /\ Distinct(us)
        BY <2>4, <3>3, FieldsTyped, UpsertTyped, UpsertFrom DEF IdsAreUnique
      <3>6. agreed = [answered EXCEPT !.subs = us]
        OBVIOUS
      <3> HIDE DEF us, agreed
      <3>5. WellFormed(agreed) /\ IdsAreUnique(agreed)
        BY <2>4, <3>4, <3>6 DEF WellFormed, IdsAreUnique
      <3> QED
        BY <2>7, <3>5, EditWrites
    <2> HIDE DEF answered, agreed
    <2> QED
      BY <2>1, <2>4, <2>6, <2>7, EditWrites
  <1>2. ASSUME NEW id \in SubIds, WithdrawProviderConfigs(id) PROVE WrittenWell
    <2> DEFINE u == Get(s.subs, id)
               gone == Ids(Where(s.profiles, LAMBDA p : p.custom /\ OwnedBySub(p, u)))
               left == Where(s.profiles, LAMBDA p : p.sub = id /\ p.id \notin gone)
               us == Upsert(s.subs, [u EXCEPT !.configs = FALSE])
               ps == Drop(s.profiles, gone)
               a == IF s.active \in gone THEN RefreshedId(s.profiles, s.active, id, left) ELSE s.active
    <2>1. id \in Ids(s.subs) /\ Edit([s EXCEPT !.subs = us, !.profiles = ps, !.active = a])
      BY <1>2 DEF WithdrawProviderConfigs, s
    <2>2. u \in Asked
      BY <1>0, <2>1, GetTyped
    <2>3. left \in Seq(Profile)
      BY <1>0, KeptTyped DEF Where
    <2> HIDE DEF u, left, gone
    <2>4. [u EXCEPT !.configs = FALSE] \in Asked
      BY <2>2 DEF Asked, Subscription, AsksOnce
    <2>5. us \in Seq(Asked) /\ Distinct(us)
      BY <1>0, <2>4, UpsertTyped, UpsertFrom DEF IdsAreUnique
    <2>6. ps \in Seq(Profile) /\ Distinct(ps)
      BY <1>0, DropTyped, DropFrom DEF IdsAreUnique
    <2>7. a \in AllProfiles \cup {None}
      <3>1. s.active \in AllProfiles \cup {None}
        BY <1>0, FieldsTyped
      <3>2. RefreshedId(s.profiles, s.active, id, left) \in AllProfiles \cup {None, s.active}
        BY <2>3, RefreshedIdTyped
      <3> QED
        BY <3>1, <3>2
    <2> HIDE DEF us, ps, a
    <2>8. /\ WellFormed([s EXCEPT !.subs = us, !.profiles = ps, !.active = a])
          /\ IdsAreUnique([s EXCEPT !.subs = us, !.profiles = ps, !.active = a])
      BY <1>0, <2>5, <2>6, <2>7 DEF WellFormed, IdsAreUnique
    <2> QED
      BY <2>1, <2>8, EditWrites
  <1> QED
    BY <1>1, <1>2 DEF AnswerStep

LEMMA RouteStepWrites ==
  ASSUME WellFormed(saved), IdsAreUnique(saved), RouteStep
  PROVE  WrittenWell
  <1> DEFINE s == Read
  <1>0. WellFormed(s) /\ IdsAreUnique(s) /\ s.blocks \in Seq(RuleBlock) /\ s.routes \in Seq(Route)
    BY ReadTyped, ReadUnique, FieldsTyped DEF Read
  <1> HIDE DEF s
  <1>1. ASSUME NEW id \in BlockIds, NEW tag \in AllProfiles \cup {Proxy}, UpsertRuleBlock(id, tag)
        PROVE  WrittenWell
    <2> DEFINE source == IF id \in Ids(s.blocks) THEN Get(s.blocks, id).source ELSE None
               b == [id |-> id, tag |-> tag, source |-> source]
               bs == Upsert(s.blocks, b)
    <2>1. Edit([s EXCEPT !.blocks = bs])
      BY <1>1 DEF UpsertRuleBlock, s
    <2>2. source \in SubIds \cup {None}
      <3>1. id \in Ids(s.blocks) => Get(s.blocks, id) \in RuleBlock
        BY <1>0, GetTyped
      <3> QED
        BY <3>1 DEF RuleBlock
    <2> HIDE DEF source
    <2>3. b \in RuleBlock
      BY <2>2 DEF RuleBlock, AllBlocks
    <2> HIDE DEF b
    <2>4. bs \in Seq(RuleBlock) /\ Distinct(bs)
      BY <1>0, <2>3, UpsertTyped, UpsertFrom DEF IdsAreUnique
    <2> HIDE DEF bs
    <2>5. /\ WellFormed([s EXCEPT !.blocks = bs])
          /\ IdsAreUnique([s EXCEPT !.blocks = bs])
      BY <1>0, <2>4 DEF WellFormed, IdsAreUnique
    <2> QED
      BY <2>1, <2>5, EditWrites
  <1>2. ASSUME NEW id, RemoveRuleBlock(id) PROVE WrittenWell
    <2> DEFINE bs == Drop(s.blocks, {id})
               rs == Unlisted(s.routes, {id})
    <2>1. Edit([s EXCEPT !.blocks = bs, !.routes = rs])
      BY <1>2 DEF RemoveRuleBlock, s
    <2>2. bs \in Seq(RuleBlock) /\ rs \in Seq(Route) /\ Distinct(bs) /\ Distinct(rs)
      BY <1>0, DropTyped, DropFrom, UnlistedTyped, UnlistedUnique DEF IdsAreUnique
    <2> HIDE DEF bs, rs
    <2>3. /\ WellFormed([s EXCEPT !.blocks = bs, !.routes = rs])
          /\ IdsAreUnique([s EXCEPT !.blocks = bs, !.routes = rs])
      BY <1>0, <2>2 DEF WellFormed, IdsAreUnique
    <2> QED
      BY <2>1, <2>3, EditWrites
  <1>3. ASSUME NEW r \in RouteDrafts, UpsertRoute(r) PROVE WrittenWell
    <2>1. r \in Route
      BY InputsAssumption
    <2>2. Edit(UpsertRouteIn(s, r))
      BY <1>3 DEF UpsertRoute, s
    <2> QED
      BY <1>0, <2>1, <2>2, UpsertRouteInTyped, UpsertRouteInUnique, EditWrites
  <1>4. ASSUME NEW id, RemoveRoute(id) PROVE WrittenWell
    <2> DEFINE rs == Drop(s.routes, {id})
    <2>1. Edit([s EXCEPT !.routes = rs])
      BY <1>4 DEF RemoveRoute, s
    <2>2. rs \in Seq(Route) /\ Distinct(rs)
      BY <1>0, DropTyped, DropFrom DEF IdsAreUnique
    <2> HIDE DEF rs
    <2>3. /\ WellFormed([s EXCEPT !.routes = rs])
          /\ IdsAreUnique([s EXCEPT !.routes = rs])
      BY <1>0, <2>2 DEF WellFormed, IdsAreUnique
    <2> QED
      BY <2>1, <2>3, EditWrites
  <1>5. ASSUME NEW p \in AllProfiles, NEW route, SetProfileRoute(p, route) PROVE WrittenWell
    <2> DEFINE Put(r) == [r EXCEPT !.profiles = IF r.id = route THEN @ \cup {p} ELSE @ \ {p}]
               rs == [i \in DOMAIN s.routes |-> Put(s.routes[i])]
    <2>1. Edit([s EXCEPT !.routes = rs])
      BY <1>5 DEF SetProfileRoute, s
    <2>2. \A r \in Route : Put(r) \in Route /\ Put(r).id = r.id
      BY DEF Route
    <2> HIDE DEF Put
    <2>5. rs \in Seq(Route)
      BY <1>0, <2>2
    <2>6. DOMAIN rs = DOMAIN s.routes /\ \A i \in DOMAIN s.routes : rs[i].id = s.routes[i].id
      BY <1>0, <2>2
    <2> HIDE DEF rs
    <2>3. rs \in Seq(Route) /\ Distinct(rs)
      BY <1>0, <2>5, <2>6, SameIdsDistinct DEF IdsAreUnique
    <2>4. /\ WellFormed([s EXCEPT !.routes = rs])
          /\ IdsAreUnique([s EXCEPT !.routes = rs])
      BY <1>0, <2>3 DEF WellFormed, IdsAreUnique
    <2> QED
      BY <2>1, <2>4, EditWrites
  <1>6. ASSUME NEW g \in Groups, NEW rules \in BOOLEAN, NEW on \in BOOLEAN, ImportRoutingLink(g, rules, on)
        PROVE  WrittenWell
    <2>1. Edit(ImportRouting(s, <<"link", g>>, g, None, rules, on))
      BY <1>6 DEF ImportRoutingLink, s
    <2>2. <<"link", g>> \in AllBlocks /\ <<"link", g>> \in AllRoutes /\ None \in SubIds \cup {None}
      BY DEF AllBlocks, AllRoutes
    <2> QED
      BY <1>0, <2>1, <2>2, ImportRoutingTyped, ImportRoutingUnique, EditWrites
  <1>7. ASSUME NEW id \in RouteIds, NEW block \in BlockIds, ImportRoutePackage(id, block) PROVE WrittenWell
    <2> DEFINE b == [id |-> block, tag |-> Proxy, source |-> None]
               r == [DefaultRoute EXCEPT !.id = id, !.blocks = {block}]
               bs == IF block \in Ids(s.blocks) THEN s.blocks ELSE Append(s.blocks, b)
               rs == Append(s.routes, r)
    <2>1. Edit([s EXCEPT !.blocks = bs, !.routes = rs]) /\ id \notin Ids(s.routes)
      BY <1>7 DEF ImportRoutePackage, s
    <2>2. b \in RuleBlock /\ b.id = block
      BY DEF RuleBlock, AllBlocks
    <2>3. r \in Route /\ r.id = id
      BY DefaultRouteTyped DEF Route, AllRoutes, AllBlocks
    <2> HIDE DEF b, r
    <2>4. bs \in Seq(RuleBlock) /\ Distinct(bs)
      BY <1>0, <2>2, AppendFrom DEF IdsAreUnique
    <2>5. rs \in Seq(Route) /\ Distinct(rs)
      BY <1>0, <2>1, <2>3, AppendFrom DEF IdsAreUnique
    <2> HIDE DEF bs, rs
    <2>6. /\ WellFormed([s EXCEPT !.blocks = bs, !.routes = rs])
          /\ IdsAreUnique([s EXCEPT !.blocks = bs, !.routes = rs])
      BY <1>0, <2>4, <2>5 DEF WellFormed, IdsAreUnique
    <2> QED
      BY <2>1, <2>6, EditWrites
  <1> QED
    BY <1>1, <1>2, <1>3, <1>4, <1>5, <1>6, <1>7 DEF RouteStep

LEMMA BackupStepWrites ==
  ASSUME WellFormed(saved), IdsAreUnique(saved), BackupStep
  PROVE  WrittenWell
  <1>0. WellFormed(Read) /\ IdsAreUnique(Read)
    BY ReadTyped, ReadUnique DEF Read
  <1>1. \A d \in Backups : WellFormed(d) /\ IdsAreUnique(d)
    BY DocumentsAssumption, WellFormedIs
  <1>2. ASSUME NEW d \in Backups, NEW mode, ImportBackup(d, mode) PROVE WrittenWell
    <2>1. Edit(Merged(Read, d)) \/ Edit(Replaced(Read, d))
      BY <1>2 DEF ImportBackup
    <2> QED
      BY <1>0, <1>1, <2>1, MergedKeeps, ReplacedKeeps, EditWrites
  <1>3. ASSUME NEW d \in Backups, ReplaceState(d) PROVE WrittenWell
    BY <1>1, <1>3, EditWrites DEF ReplaceState
  <1> QED
    BY <1>2, <1>3 DEF BackupStep

(* The inductive invariant: what is on disk is what the chain made of a     *)
(* document of the right shape with no id twice, and the copies kept        *)
(* outside the document are a subscription each, the sheet's with no        *)
(* proposal pending and answered.                                           *)
SettingsInv ==
  /\ \E d : WellFormed(d) /\ IdsAreUnique(d) /\ saved = Chain(d)
  /\ FetchTyped
  /\ sheet \in Asked \cup {None}
  /\ writes \in 0 .. MaxWrites

LEMMA SettingsAreWellFormed ==
  ASSUME SettingsInv
  PROVE  WellFormed(saved) /\ IdsAreUnique(saved) /\ saved.legacy = None
  BY ChainTyped, ChainUnique DEF SettingsInv

(* One write per step, and none past the bound. *)
LEMMA StepCounts ==
  ASSUME [Next]_vars, writes \in 0 .. MaxWrites
  PROVE  writes' \in 0 .. MaxWrites
  <1>1. ASSUME Next PROVE writes' = writes \/ writes' = writes + 1
    <2>1. ASSUME ProfileStep PROVE writes' = writes + 1
      BY <2>1 DEF ProfileStep, AddProfile, UpsertProfile, RemoveProfiles, CloneProfile, MoveProfiles, DeduplicateProfiles, SetActive, Edit, Write
    <2>2. ASSUME GroupStep PROVE writes' = writes + 1
      BY <2>2 DEF GroupStep, AddGroup, RenameGroup, RemoveGroup, ReorderGroups, Edit, Write
    <2>3. ASSUME SubStep PROVE writes' = writes + 1
      BY <2>3 DEF SubStep, AddSub, RemoveSub, SetSettings, Edit, Write
    <2>4. ASSUME FetchStep PROVE writes' = writes \/ writes' = writes + 1
      BY <2>4 DEF FetchStep, FetchBegin, FetchLand, FetchFail, Edit, Write
    <2>5. ASSUME SheetStep PROVE writes' = writes \/ writes' = writes + 1
      BY <2>5 DEF SheetStep, OpenSheet, SaveSheet, Edit, Write
    <2>6. ASSUME AnswerStep PROVE writes' = writes + 1
      <3>1. ASSUME NEW u, NEW change, NEW accept, NEW activate,
                   ResolveSubChange(u, change, accept, activate)
            PROVE  writes' = writes + 1
        BY <3>1, Zenon DEF ResolveSubChange, Edit, Write
      <3>2. ASSUME NEW u, WithdrawProviderConfigs(u) PROVE writes' = writes + 1
        BY <3>2 DEF WithdrawProviderConfigs, Edit, Write
      <3> QED
        BY <2>6, <3>1, <3>2 DEF AnswerStep
    <2>7. ASSUME RouteStep PROVE writes' = writes + 1
      BY <2>7 DEF RouteStep, UpsertRuleBlock, RemoveRuleBlock, UpsertRoute, RemoveRoute, SetProfileRoute, ImportRoutingLink, ImportRoutePackage, Edit, Write
    <2>8. ASSUME BackupStep PROVE writes' = writes + 1
      BY <2>8 DEF BackupStep, ImportBackup, ReplaceState, Edit, Write
    <2> QED
      BY <1>1, <2>1, <2>2, <2>3, <2>4, <2>5, <2>6, <2>7, <2>8 DEF Next
  <1>2. ASSUME Next PROVE writes < MaxWrites
    BY <1>2 DEF Next
  <1>3. ASSUME UNCHANGED vars PROVE writes' = writes
    BY <1>3 DEF vars
  <1> QED
    BY <1>1, <1>2, <1>3, BoundAssumption

(* Only the fetches and the sheet change the copies. *)
LEMMA OthersKeepCopies ==
  ASSUME ProfileStep \/ GroupStep \/ SubStep \/ AnswerStep \/ RouteStep \/ BackupStep
  PROVE  fetch' = fetch /\ sheet' = sheet
  <1>1. ASSUME ProfileStep PROVE fetch' = fetch /\ sheet' = sheet
    BY <1>1 DEF ProfileStep, AddProfile, UpsertProfile, RemoveProfiles, CloneProfile, MoveProfiles, DeduplicateProfiles, SetActive, Edit
  <1>2. ASSUME GroupStep PROVE fetch' = fetch /\ sheet' = sheet
    BY <1>2 DEF GroupStep, AddGroup, RenameGroup, RemoveGroup, ReorderGroups, Edit
  <1>3. ASSUME SubStep PROVE fetch' = fetch /\ sheet' = sheet
    BY <1>3 DEF SubStep, AddSub, RemoveSub, SetSettings, Edit
  <1>4. ASSUME AnswerStep PROVE fetch' = fetch /\ sheet' = sheet
    <2>1. ASSUME NEW u, NEW change, NEW accept, NEW activate,
                 ResolveSubChange(u, change, accept, activate)
          PROVE  fetch' = fetch /\ sheet' = sheet
      BY <2>1, Zenon DEF ResolveSubChange, Edit
    <2>2. ASSUME NEW u, WithdrawProviderConfigs(u) PROVE fetch' = fetch /\ sheet' = sheet
      BY <2>2 DEF WithdrawProviderConfigs, Edit
    <2> QED
      BY <1>4, <2>1, <2>2 DEF AnswerStep
  <1>5. ASSUME RouteStep PROVE fetch' = fetch /\ sheet' = sheet
    BY <1>5 DEF RouteStep, UpsertRuleBlock, RemoveRuleBlock, UpsertRoute, RemoveRoute, SetProfileRoute, ImportRoutingLink, ImportRoutePackage, Edit
  <1>6. ASSUME BackupStep PROVE fetch' = fetch /\ sheet' = sheet
    BY <1>6 DEF BackupStep, ImportBackup, ReplaceState, Edit
  <1> QED
    BY <1>1, <1>2, <1>3, <1>4, <1>5, <1>6

LEMMA SettingsInvInit ==
  ASSUME Init
  PROVE  SettingsInv
  <1>1. PICK d \in Starts : saved = Chain(d)
    BY DEF Init
  <1>2. WellFormed(d) /\ IdsAreUnique(d)
    BY DocumentsAssumption, WellFormedIs
  <1>3. FetchTyped /\ sheet \in Asked \cup {None}
    BY DEF Init, FetchTyped
  <1>4. writes \in 0 .. MaxWrites
    BY BoundAssumption DEF Init
  <1> QED
    BY <1>1, <1>2, <1>3, <1>4 DEF SettingsInv

LEMMA SettingsInvNext ==
  ASSUME SettingsInv, [Next]_vars
  PROVE  SettingsInv'
  <1>0. WellFormed(saved) /\ IdsAreUnique(saved) /\ FetchTyped /\ sheet \in Asked \cup {None}
    BY SettingsAreWellFormed DEF SettingsInv
  <1>1. writes' \in 0 .. MaxWrites
    BY StepCounts DEF SettingsInv
  <1>2. (WrittenWell \/ saved' = saved) /\ FetchTyped' /\ sheet' \in Asked \cup {None}
    <2>1. ASSUME fetch' = fetch PROVE FetchTyped'
      BY <1>0, <2>1 DEF FetchTyped
    <2>2. ASSUME ProfileStep \/ GroupStep \/ SubStep \/ AnswerStep \/ RouteStep \/ BackupStep
          PROVE  WrittenWell /\ FetchTyped' /\ sheet' \in Asked \cup {None}
      <3>1. fetch' = fetch /\ sheet' = sheet
        BY <2>2, OthersKeepCopies
      <3>2. WrittenWell
        BY <1>0, <2>2, ProfileStepWrites, GroupStepWrites, SubStepWrites, AnswerStepWrites, RouteStepWrites, BackupStepWrites
      <3> QED
        BY <1>0, <2>1, <3>1, <3>2
    <2>3. ASSUME FetchStep PROVE (WrittenWell \/ saved' = saved) /\ FetchTyped' /\ sheet' \in Asked \cup {None}
      BY <1>0, <2>3, FetchStepWrites
    <2>4. ASSUME SheetStep PROVE (WrittenWell \/ saved' = saved) /\ FetchTyped' /\ sheet' \in Asked \cup {None}
      BY <1>0, <2>1, <2>4, SheetStepWrites
    <2>5. ASSUME UNCHANGED vars PROVE saved' = saved /\ FetchTyped' /\ sheet' \in Asked \cup {None}
      BY <1>0, <2>1, <2>5 DEF vars
    <2> QED
      BY <2>2, <2>3, <2>4, <2>5 DEF Next
  <1>3. \E d : WellFormed(d) /\ IdsAreUnique(d) /\ saved' = Chain(d)
    <2>1. CASE WrittenWell
      BY <2>1 DEF WrittenWell
    <2>2. CASE saved' = saved
      BY <2>2 DEF SettingsInv
    <2> QED
      BY <1>2, <2>1, <2>2
  <1> QED
    BY <1>1, <1>2, <1>3 DEF SettingsInv

LEMMA AlwaysSettingsInv == Spec => []SettingsInv
  <1>1. Init => SettingsInv
    BY SettingsInvInit
  <1>2. SettingsInv /\ [Next]_vars => SettingsInv'
    BY SettingsInvNext
  <1> QED
    BY <1>1, <1>2, PTL DEF Spec

(* In every reachable state, for any edits, answers and backups: the saved  *)
(* document has the shape every reader expects, with no id twice in a list, *)
(* and what a write left is what the next read returns (run_mutation,       *)
(* default_chain, normalize_app_state).                                     *)
THEOREM SettingsReadBack == Spec => []DocumentReadsBack
  <1>1. SettingsInv => DocumentReadsBack
    <2> SUFFICES ASSUME SettingsInv PROVE DocumentReadsBack
      OBVIOUS
    <2>1. WellFormed(saved) /\ IdsAreUnique(saved) /\ saved.legacy = None
      BY SettingsAreWellFormed
    <2>2. TypeOK
      <3>1. saved \in Document
        BY <2>1, WellFormedIs
      <3>2. sheet \in Subscription \cup {None}
        BY DEF SettingsInv, Asked
      <3> QED
        BY <2>1, <3>1, <3>2 DEF SettingsInv, FetchTyped, TypeOK
    <2>3. ReadsBack
      <3> SUFFICES ASSUME Base \in Ids(saved.groups) PROVE Read = saved
        BY DEF ReadsBack
      <3>1. PICK d : WellFormed(d) /\ saved = Chain(d)
        BY DEF SettingsInv
      <3>2. d.routes \in Seq(Route)
        BY <3>1, FieldsTyped
      <3>3. Base \in Ids(d.groups)
        BY <3>1, <3>2, ChainShapes
      <3> QED
        BY <3>1, <3>2, <3>3, ChainReadsBack DEF Read
    <2> QED
      BY <2>1, <2>2, <2>3 DEF DocumentReadsBack
  <1> QED
    BY <1>1, AlwaysSettingsInv, PTL

(* A provider asks once: whatever fetches, sheets and answers interleave,   *)
(* no proposal the user has answered is ever pending again (offer_changes,  *)
(* offer_provider_configs, merge_sub_edit, resolve_changes).                *)
THEOREM ProviderAsksOnce == Spec => []AskedOnce
  <1>1. SettingsInv => AskedOnce
    BY SettingsAreWellFormed, WellFormedIs DEF AskedOnce
  <1> QED
    BY <1>1, AlwaysSettingsInv, PTL

-----------------------------------------------------------------------------
(* What an edit starts from, and what the chain keeps of its result *)

(* The first rule without the base group: what it names is listed or the    *)
(* base group itself (fixup_dangling_groups).                               *)
LEMMA ChainNearlyResolves ==
  ASSUME NEW s, NEW t, t = Chain(s)
  PROVE  /\ \A i \in DOMAIN t.profiles : t.profiles[i].group \in Ids(t.groups) \cup {Base}
         /\ \A i \in DOMAIN t.subs : t.subs[i].target \in Ids(t.groups) \cup {Base, None}
         /\ \A i \in DOMAIN t.groups : t.groups[i].owner \in Ids(t.subs) \cup {None}
  <1> DEFINE a == FixupDanglingGroups(s)
             b == FixupActiveId(a)
             c == FixupDanglingVia(b)
  <1>1. /\ Ids(a.groups) = Ids(s.groups) /\ Ids(a.subs) = Ids(s.subs)
        /\ \A i \in DOMAIN a.profiles : a.profiles[i].group \in Ids(s.groups) \cup {Base}
        /\ \A i \in DOMAIN a.subs : a.subs[i].target \in Ids(s.groups) \cup {Base, None}
        /\ \A i \in DOMAIN a.groups : a.groups[i].owner \in Ids(s.subs) \cup {None}
    BY DEF FixupDanglingGroups, Doc, Ids
  <1>2. /\ b.profiles = a.profiles /\ b.groups = a.groups
        /\ b.subs = a.subs /\ b.active \in Ids(b.profiles) \cup {None}
    BY ActiveRule
  <1>3. /\ c.groups = b.groups /\ c.subs = b.subs
        /\ DOMAIN c.profiles = DOMAIN b.profiles
        /\ \A i \in DOMAIN c.profiles : c.profiles[i].group = b.profiles[i].group
    BY <1>2, ViaRule
  <1>4. t.profiles = c.profiles /\ t.groups = c.groups /\ t.subs = c.subs
    BY RoutesRule DEF Chain
  <1> HIDE DEF a, b, c
  <1> QED
    BY <1>1, <1>2, <1>3, <1>4

(* An edit starts from the document on disk; the read only adds the base    *)
(* group when it is missing (read_app_state, normalize_app_state).          *)
LEMMA ReadIsSaved ==
  ASSUME SettingsInv
  PROVE  /\ Read = EnsureBaseGroup(saved)
         /\ Read.profiles = saved.profiles /\ Read.subs = saved.subs
         /\ Read.blocks = saved.blocks /\ Read.routes = saved.routes
         /\ Read.active = saved.active /\ Read.dedup = saved.dedup
         /\ Read.legacy = None
         /\ Whole(Read) /\ Shaped(Read) /\ Routed(Read)
         /\ GroupsResolve(Read) /\ ProfilesResolve(Read) /\ RoutesResolve(Read)
  <1> DEFINE e == EnsureBaseGroup(saved)
  <1>1. PICK d : WellFormed(d) /\ saved = Chain(d)
    BY DEF SettingsInv
  <1>2. Whole(saved) /\ Shaped(saved) /\ Routed(saved)
    BY <1>1, FieldsTyped, ChainShapes
  <1>3. ProfilesResolve(saved) /\ RoutesResolve(saved)
    BY <1>1, ChainResolves DEF Resolves
  <1>4. saved.groups \in Seq(Group)
    BY SettingsAreWellFormed, FieldsTyped
  <1>5. /\ e.profiles = saved.profiles /\ e.subs = saved.subs
        /\ e.blocks = saved.blocks /\ e.routes = saved.routes
        /\ e.active = saved.active /\ e.dedup = saved.dedup
        /\ e.legacy = saved.legacy /\ Whole(e)
    BY <1>2 DEF EnsureBaseGroup, Doc, Whole
  <1>6. Ids(e.groups) = Ids(saved.groups) \cup {Base}
        /\ e.groups = [i \in DOMAIN e.groups |-> GroupFields(e.groups[i])]
        /\ \A i \in DOMAIN e.groups : e.groups[i].owner \in Ids(saved.subs) \cup {None}
    <2>0. \A i \in DOMAIN saved.groups : saved.groups[i].owner \in Ids(saved.subs) \cup {None}
      BY <1>1, ChainNearlyResolves
    <2>1. CASE Base \in Ids(saved.groups)
      <3>1. e.groups = saved.groups
        BY <2>1 DEF EnsureBaseGroup
      <3> QED
        BY <1>2, <2>0, <2>1, <3>1 DEF Shaped
    <2>2. CASE Base \notin Ids(saved.groups)
      <3> DEFINE b == [id |-> Base, name |-> CHOOSE n \in Names : TRUE, owner |-> None]
                 q == saved.groups
                 gs == <<b>> \o q
      <3>1. e.groups = gs
        BY <2>2 DEF EnsureBaseGroup, Doc
      <3>2. b = GroupFields(b) /\ b.id = Base /\ b.owner = None
        BY DEF GroupFields
      <3>3. \A i \in DOMAIN q : q[i] = GroupFields(q[i])
        BY <1>2 DEF Shaped
      <3> HIDE DEF b
      <3>4. /\ Len(q) \in Nat /\ DOMAIN q = 1 .. Len(q) /\ DOMAIN gs = 1 .. Len(q) + 1
            /\ gs[1] = b /\ \A i \in 2 .. Len(q) + 1 : gs[i] = q[i - 1]
            /\ gs = [i \in DOMAIN gs |-> gs[i]]
        BY <1>4
      <3> HIDE DEF gs, q
      <3>5. \A i \in DOMAIN gs : gs[i] = b \/ \E j \in DOMAIN q : gs[i] = q[j]
        BY <3>4
      <3>6. \A j \in DOMAIN q : \E i \in DOMAIN gs : gs[i] = q[j]
        <4> TAKE j \in DOMAIN q
        <4>1. j + 1 \in DOMAIN gs /\ gs[j + 1] = q[j]
          BY <3>4
        <4> QED
          BY <4>1
      <3>7. 1 \in DOMAIN gs
        BY <3>4
      <3>8. Ids(gs) = Ids(q) \cup {Base}
        BY <3>2, <3>4, <3>5, <3>6, <3>7 DEF Ids
      <3>9. \A i \in DOMAIN gs : gs[i] = GroupFields(gs[i]) /\ gs[i].owner \in Ids(saved.subs) \cup {None}
        BY <3>2, <3>3, <3>5, <2>0 DEF q
      <3>10. gs = [i \in DOMAIN gs |-> GroupFields(gs[i])]
        BY <3>4, <3>9
      <3> QED
        BY <3>1, <3>8, <3>9, <3>10 DEF q
    <2> QED
      BY <2>1, <2>2
  <1> HIDE DEF e
  <1>7. Shaped(e)
    BY <1>2, <1>5, <1>6 DEF Shaped
  <1>8. Routed(e)
    BY <1>2, <1>5 DEF Routed
  <1>9. GroupsResolve(e)
    BY <1>1, <1>5, <1>6, ChainNearlyResolves DEF GroupsResolve
  <1>10. ProfilesResolve(e)
    BY <1>3, <1>5 DEF ProfilesResolve
  <1>11. RoutesResolve(e)
    BY <1>3, <1>5, <1>6 DEF RoutesResolve
  <1>12. FixupDanglingGroups(e) = e
    BY <1>5, <1>7, <1>9, GroupsRuleKeeps
  <1>13. FixupActiveId(e) = e
    BY <1>5, <1>10, ActiveRuleKeeps DEF ProfilesResolve
  <1>14. FixupDanglingVia(e) = e
    BY <1>5, <1>7, <1>10, ViaRuleKeeps
  <1>15. NormalizeRoutes(e) = e
    BY <1>5, <1>8, <1>11, RoutesRuleKeeps
  <1>16. Read = e
    BY <1>12, <1>13, <1>14, <1>15 DEF Read, Normalize, e
  <1>17. e.legacy = None
    BY <1>2, <1>5 DEF Routed
  <1>18. Read = EnsureBaseGroup(saved)
    BY <1>16 DEF e
  <1> QED
    BY <1>5, <1>7, <1>8, <1>9, <1>10, <1>11, <1>16, <1>17, <1>18

(* What the chain keeps of the document it is given: its profiles and       *)
(* subscriptions, in their places, but for a group or a hop that is missing *)
(* (default_chain).                                                         *)
ProfileAfter(s, p) ==
  [id |-> p.id, name |-> p.name, end |-> p.end, custom |-> p.custom, sub |-> p.sub,
   group |-> IF p.group \in Ids(s.groups) THEN p.group ELSE Base,
   via |-> IF p.via \in Ids(s.profiles) \ {p.id} THEN p.via ELSE None]
SubAfter(s, u) ==
  [id |-> u.id, name |-> u.name, enabled |-> u.enabled,
   configs |-> u.configs, pending |-> u.pending, answered |-> u.answered,
   target |-> IF u.target \in Ids(s.groups) \cup {None} THEN u.target ELSE Base]

LEMMA ChainKeeps ==
  ASSUME NEW s, NEW t, t = Chain(s)
  PROVE  /\ t.profiles = [i \in DOMAIN s.profiles |-> ProfileAfter(s, s.profiles[i])]
         /\ t.subs = [i \in DOMAIN s.subs |-> SubAfter(s, s.subs[i])]
         /\ t.active = IF s.active \in Ids(s.profiles) THEN s.active ELSE None
         /\ Ids(t.profiles) = Ids(s.profiles) /\ Ids(t.subs) = Ids(s.subs)
  <1> DEFINE a == FixupDanglingGroups(s)
             b == FixupActiveId(a)
             c == FixupDanglingVia(b)
  <1>1. /\ a.subs = [i \in DOMAIN s.subs |-> 
            [id |-> s.subs[i].id, name |-> s.subs[i].name, enabled |-> s.subs[i].enabled,
               configs |-> s.subs[i].configs, pending |-> s.subs[i].pending, answered |-> s.subs[i].answered,
               target |-> IF s.subs[i].target \in Ids(s.groups) \cup {None} THEN s.subs[i].target ELSE Base]]
        /\ a.profiles = [i \in DOMAIN s.profiles |->
              [id |-> s.profiles[i].id, name |-> s.profiles[i].name, end |-> s.profiles[i].end,
               custom |-> s.profiles[i].custom, sub |-> s.profiles[i].sub, via |-> s.profiles[i].via,
               group |-> IF s.profiles[i].group \in Ids(s.groups) THEN s.profiles[i].group ELSE Base]]
        /\ a.active = s.active
    BY DEF FixupDanglingGroups, Doc
  <1>2. Ids(a.profiles) = Ids(s.profiles) /\ Ids(a.subs) = Ids(s.subs)
    BY DEF FixupDanglingGroups, Doc, Ids
  <1>3. /\ b.profiles = a.profiles /\ b.subs = a.subs
        /\ b.active = IF a.active \in Ids(a.profiles) THEN a.active ELSE None
    BY DEF FixupActiveId, Doc
  <1>4. /\ c.subs = b.subs /\ c.active = b.active
        /\ c.profiles = [i \in DOMAIN b.profiles |->
              [id |-> b.profiles[i].id, name |-> b.profiles[i].name, end |-> b.profiles[i].end,
               custom |-> b.profiles[i].custom, sub |-> b.profiles[i].sub, group |-> b.profiles[i].group,
               via |-> IF b.profiles[i].via \in Ids(b.profiles) \ {b.profiles[i].id} THEN b.profiles[i].via ELSE None]]
    BY DEF FixupDanglingVia, Doc
  <1>5. Ids(c.profiles) = Ids(b.profiles)
    BY DEF FixupDanglingVia, Doc, Ids
  <1>6. t.profiles = c.profiles /\ t.subs = c.subs /\ t.active = c.active
    BY RoutesRule DEF Chain
  <1> HIDE DEF a, b, c
  <1>8. ASSUME NEW i \in DOMAIN s.profiles
        PROVE  t.profiles[i] = ProfileAfter(s, s.profiles[i])
    <2>1. a.profiles[i] = [id |-> s.profiles[i].id, name |-> s.profiles[i].name, end |-> s.profiles[i].end,
               custom |-> s.profiles[i].custom, sub |-> s.profiles[i].sub, via |-> s.profiles[i].via,
               group |-> IF s.profiles[i].group \in Ids(s.groups) THEN s.profiles[i].group ELSE Base]
      BY <1>1
    <2>2. t.profiles[i] = [id |-> a.profiles[i].id, name |-> a.profiles[i].name, end |-> a.profiles[i].end,
               custom |-> a.profiles[i].custom, sub |-> a.profiles[i].sub, group |-> a.profiles[i].group,
               via |-> IF a.profiles[i].via \in Ids(s.profiles) \ {a.profiles[i].id} THEN a.profiles[i].via ELSE None]
      <3>1. b.profiles = a.profiles /\ i \in DOMAIN b.profiles /\ Ids(b.profiles) = Ids(s.profiles)
        BY <1>1, <1>2, <1>3
      <3>2. t.profiles[i] = c.profiles[i]
        BY <1>6
      <3> QED
        BY <1>4, <3>1, <3>2
    <2> QED
      BY <2>1, <2>2 DEF ProfileAfter
  <1>9. t.profiles = [i \in DOMAIN s.profiles |-> t.profiles[i]]
    BY <1>1, <1>3, <1>4, <1>6
  <1>10. t.subs = [i \in DOMAIN s.subs |-> SubAfter(s, s.subs[i])]
    <2>1. t.subs = a.subs
      BY <1>3, <1>4, <1>6
    <2> QED
      BY <1>1, <2>1 DEF SubAfter
  <1>11. t.active = IF s.active \in Ids(s.profiles) THEN s.active ELSE None
    <2>1. a.active = s.active
      BY <1>1
    <2>2. t.active = IF a.active \in Ids(a.profiles) THEN a.active ELSE None
      BY <1>3, <1>4, <1>6
    <2> QED
      BY <1>2, <2>1, <2>2
  <1>12. Ids(t.profiles) = Ids(s.profiles) /\ Ids(t.subs) = Ids(s.subs)
    BY <1>2, <1>3, <1>4, <1>5, <1>6
  <1> QED
    BY <1>8, <1>9, <1>10, <1>11, <1>12

(* What an edit sheet leads to: the settings left as the sheet showed them  *)
(* are merged with what is stored, and the profiles stay when the group     *)
(* does (merge_sub_edit, the UpsertSub arm).                                *)
LEMMA SheetIsMinimal ==
  ASSUME SettingsInv, sheet # None, NEW e \in SheetEdits, SaveSheet(e),
         e.id \in Ids(saved.subs)
  PROVE  LET old == Get(saved.subs, e.id)
             new == Get(saved'.subs, e.id)
         IN /\ new.pending = old.pending /\ new.answered = old.answered
            /\ \A field \in {"name", "enabled", "target", "configs"} :
                 e[field] = sheet[field] => new[field] = old[field]
            /\ e.target = sheet.target => saved'.profiles = saved.profiles
  <1> DEFINE s == Read
             old == Get(s.subs, e.id)
             next == MergeSubEdit(e, old, sheet)
             m == RenameOwnedGroup(s, next)
             g == MigrateProfiles(m, next)
             t == StoreSub(s, next)
             k == IndexOf(s.subs, e.id)
  <1>1. WellFormed(s) /\ s.subs \in Seq(Asked) /\ s.profiles \in Seq(Profile)
        /\ s.subs = saved.subs /\ s.profiles = saved.profiles
    BY SettingsAreWellFormed, ReadTyped, ReadIsSaved, FieldsTyped DEF Read
  <1>2. Shaped(s) /\ GroupsResolve(s) /\ ProfilesResolve(s)
    BY ReadIsSaved
  <1>3. saved' = Chain(t)
    BY <1>1 DEF SaveSheet, Write, s
  <1> HIDE DEF s
  <1>4. e \in Asked /\ e.id = sheet.id
    <2>1. sheet \in Asked
      BY DEF SettingsInv
    <2>2. \A n \in Names : [sheet EXCEPT !.name = n] \in Asked /\ [sheet EXCEPT !.name = n].id = sheet.id
      BY <2>1 DEF Asked, Subscription, AsksOnce
    <2>3. \A on \in BOOLEAN : [sheet EXCEPT !.enabled = on] \in Asked /\ [sheet EXCEPT !.enabled = on].id = sheet.id
      BY <2>1 DEF Asked, Subscription, AsksOnce
    <2>4. \A x \in Groups \cup {None} : [sheet EXCEPT !.target = x] \in Asked /\ [sheet EXCEPT !.target = x].id = sheet.id
      BY <2>1 DEF Asked, Subscription, AsksOnce
    <2>5. \A on \in BOOLEAN : [sheet EXCEPT !.configs = on] \in Asked /\ [sheet EXCEPT !.configs = on].id = sheet.id
      BY <2>1 DEF Asked, Subscription, AsksOnce
    <2> QED
      BY <2>2, <2>3, <2>4, <2>5 DEF SheetEdits
  <1>5. old \in Asked /\ old.id = e.id
    BY <1>1, GetTyped
  <1> HIDE DEF old
  <1>6. /\ next \in Asked /\ next.id = e.id
        /\ next.pending = old.pending /\ next.answered = old.answered
        /\ e.name = sheet.name => next.name = old.name
        /\ e.enabled = sheet.enabled => next.enabled = old.enabled
        /\ e.target = sheet.target => next.target = old.target
        /\ e.configs = sheet.configs => next.configs = old.configs
    <2>1. next \in Asked
      BY <1>4, <1>5, MergeSubEditTyped
    <2> QED
      BY <1>4, <1>5, <2>1 DEF MergeSubEdit, Asked, Subscription
  <1> HIDE DEF next
  <1>7. m.subs = s.subs /\ m.profiles = s.profiles /\ Ids(m.groups) = Ids(s.groups) /\ WellFormed(m)
    <2>1. m.subs = s.subs /\ WellFormed(m)
      BY <1>1, <1>6, AskedFields, RenameOwnedGroupTyped
    <2>2. m.profiles = s.profiles /\ Ids(m.groups) = Ids(s.groups)
      <3> DEFINE prev == Get(s.subs, next.id)
                 Renamed(x) == IF x.id = next.target /\ x.owner = next.id /\ x.name = prev.name
                               THEN [x EXCEPT !.name = next.name] ELSE x
                 gs == [i \in DOMAIN s.groups |-> Renamed(s.groups[i])]
      <3>1. m = [s EXCEPT !.groups = gs]
        BY <1>1, <1>6 DEF RenameOwnedGroup
      <3>2. \A x \in Group : Renamed(x).id = x.id
        BY DEF Group
      <3> HIDE DEF Renamed
      <3>3. \A i \in DOMAIN s.groups : gs[i].id = s.groups[i].id
        BY <1>1, <3>2, FieldsTyped
      <3>4. Ids(gs) = Ids(s.groups)
        BY <3>3 DEF Ids
      <3> HIDE DEF gs
      <3>5. m.profiles = s.profiles /\ m.groups = gs
        BY <1>1, <3>1 DEF WellFormed
      <3> QED
        BY <3>4, <3>5
    <2> QED
      BY <2>1, <2>2
  <1> HIDE DEF m
  <1>8. /\ g.subs = s.subs /\ g.groups = m.groups /\ WellFormed(g)
        /\ e.target = sheet.target => g.profiles = s.profiles
    <2>1. g.subs = s.subs /\ WellFormed(g)
      BY <1>6, <1>7, AskedFields, MigrateProfilesTyped
    <2>2. CASE next.target = None
      BY <1>7, <2>1, <2>2 DEF MigrateProfiles
    <2>3. CASE next.target # None
      <3> DEFINE Moved(p) == IF OwnedBySub(p, old) THEN [p EXCEPT !.group = next.target] ELSE p
                 ps == [i \in DOMAIN m.profiles |-> Moved(m.profiles[i])]
      <3>1. g = [m EXCEPT !.profiles = ps]
        BY <1>1, <1>6, <1>7, <2>3 DEF MigrateProfiles, old
      <3>2. ASSUME e.target = sheet.target PROVE \A p \in Profile : Moved(p) = p
        <4>1. next.target = old.target /\ old.target # None
          BY <1>6, <2>3, <3>2
        <4> TAKE p \in Profile
        <4>2. OwnedBySub(p, old) => p.group = next.target
          BY <4>1 DEF OwnedBySub
        <4> QED
          BY <4>2 DEF Profile
      <3>3. m.profiles \in Seq(Profile)
        BY <1>7, FieldsTyped
      <3> HIDE DEF Moved
      <3>4. ASSUME e.target = sheet.target PROVE ps = m.profiles
        BY <3>2, <3>3, <3>4
      <3> HIDE DEF ps
      <3>5. g.profiles = ps /\ g.groups = m.groups
        BY <1>7, <3>1 DEF WellFormed
      <3> QED
        BY <1>7, <2>1, <3>4, <3>5
    <2> QED
      BY <2>2, <2>3
  <1>9. /\ t.subs = Upsert(s.subs, next) /\ t.groups = g.groups /\ t.profiles = g.profiles
    <2>1. t = [g EXCEPT !.subs = Upsert(@, next)]
      BY DEF StoreSub, m
    <2> HIDE DEF g, t
    <2> QED
      BY <1>8, <2>1 DEF WellFormed
  <1> HIDE DEF g, t
  <1>10. /\ t.subs = [s.subs EXCEPT ![k] = next] /\ k \in 1 .. Len(s.subs) /\ Len(t.subs) = Len(s.subs)
         /\ DOMAIN t.subs = 1 .. Len(s.subs) /\ IndexOf(t.subs, e.id) = k
    <2>1. next.id \in Ids(s.subs) /\ next.id = e.id
      BY <1>1, <1>6
    <2> HIDE DEF k
    <2> DEFINE q == Upsert(s.subs, next)
    <2>2. /\ q = [s.subs EXCEPT ![IndexOf(s.subs, next.id)] = next]
          /\ IndexOf(s.subs, next.id) \in 1 .. Len(s.subs)
          /\ Len(q) = Len(s.subs) /\ DOMAIN q = 1 .. Len(s.subs)
          /\ IndexOf(q, next.id) = IndexOf(s.subs, next.id)
      BY <1>1, <1>6, <2>1, UpsertReplaces
    <2> HIDE DEF q
    <2>3. t.subs = q /\ k = IndexOf(s.subs, next.id)
      BY <1>9, <2>1 DEF q, k
    <2> QED
      BY <2>1, <2>2, <2>3
  <1> HIDE DEF k
  <1>11. t.subs[k] = next
    BY <1>1, <1>10
  <1>12. /\ saved'.subs = [i \in DOMAIN t.subs |-> SubAfter(t, t.subs[i])]
         /\ saved'.profiles = [i \in DOMAIN t.profiles |-> ProfileAfter(t, t.profiles[i])]
    BY <1>3, ChainKeeps
  <1>13. IndexOf(saved'.subs, e.id) = k
    <2>1. /\ DOMAIN saved'.subs = DOMAIN t.subs
          /\ \A i \in DOMAIN t.subs : saved'.subs[i].id = t.subs[i].id
      BY <1>12 DEF SubAfter
    <2>2. Len(saved'.subs) = Len(t.subs)
      BY <1>1, <1>10, <2>1
    <2>3. DOMAIN t.subs = 1 .. Len(t.subs)
      BY <1>10
    <2>4. IndexOf(saved'.subs, e.id) = IndexOf(t.subs, e.id)
      BY <2>1, <2>2, <2>3, SamePlace
    <2> QED
      BY <1>10, <2>4
  <1>14. old.target \in Ids(s.groups) \cup {None} /\ s.subs[k] = old
    BY <1>1, <1>2, <1>10, FirstWith DEF GroupsResolve, old, Get, k
  <1>15. Get(saved'.subs, e.id) = SubAfter(t, next) /\ Ids(t.groups) = Ids(s.groups)
    BY <1>7, <1>8, <1>9, <1>10, <1>11, <1>13, <1>12 DEF Get
  <1>16. ASSUME e.target = sheet.target PROVE saved'.profiles = saved.profiles
    <2>1. t.profiles = s.profiles /\ Ids(t.groups) = Ids(s.groups)
      BY <1>7, <1>8, <1>9, <1>16
    <2>2. \A i \in DOMAIN s.profiles :
            /\ s.profiles[i].group \in Ids(s.groups)
            /\ s.profiles[i].via \in (Ids(s.profiles) \ {s.profiles[i].id}) \cup {None}
      BY <1>2 DEF GroupsResolve, ProfilesResolve
    <2>3. \A i \in DOMAIN s.profiles : s.profiles[i] = ProfileFields(s.profiles[i])
      BY <1>2 DEF Shaped
    <2>4. ASSUME NEW i \in DOMAIN s.profiles PROVE saved'.profiles[i] = s.profiles[i]
      <3>1. saved'.profiles[i] = ProfileAfter(t, s.profiles[i])
        BY <1>12, <2>1
      <3>2. ProfileAfter(t, s.profiles[i]) = ProfileFields(s.profiles[i])
        BY <2>1, <2>2 DEF ProfileFields, ProfileAfter
      <3> QED
        BY <2>3, <3>1, <3>2
    <2>5. saved'.profiles = [i \in DOMAIN s.profiles |-> saved'.profiles[i]]
      BY <1>12, <2>1
    <2>6. s.profiles = [i \in DOMAIN s.profiles |-> s.profiles[i]]
      BY <1>1
    <2> QED
      BY <1>1, <2>4, <2>5, <2>6
  <1>17. old = Get(saved.subs, e.id)
    BY <1>1 DEF old
  <1>18. Get(saved'.subs, e.id).pending = old.pending /\ Get(saved'.subs, e.id).answered = old.answered
    BY <1>6, <1>15 DEF SubAfter
  <1>19. \A field \in {"name", "enabled", "target", "configs"} :
           e[field] = sheet[field] => Get(saved'.subs, e.id)[field] = old[field]
    <2>1. e.name = sheet.name => Get(saved'.subs, e.id).name = old.name
      BY <1>6, <1>15 DEF SubAfter
    <2>2. e.enabled = sheet.enabled => Get(saved'.subs, e.id).enabled = old.enabled
      BY <1>6, <1>15 DEF SubAfter
    <2>3. e.target = sheet.target => Get(saved'.subs, e.id).target = old.target
      BY <1>6, <1>14, <1>15 DEF SubAfter
    <2>4. e.configs = sheet.configs => Get(saved'.subs, e.id).configs = old.configs
      BY <1>6, <1>15 DEF SubAfter
    <2> QED
      BY <2>1, <2>2, <2>3, <2>4
  <1> QED
    BY <1>16, <1>17, <1>19, <1>18

(* Whatever was written while a sheet was open, saving it changes what the  *)
(* user edited and nothing else: not the answers, not a setting left alone, *)
(* and no profile unless the group was changed (merge_sub_edit).            *)
THEOREM SheetsUndoNothing == Spec => EditIsMinimal
  <1>1. SettingsInv => [\A e \in IF sheet = None \/ sheet' # None THEN {}
              ELSE SheetEdits \ {sheet} :
       SaveSheet(e) /\ e.id \in Ids(saved.subs) =>
         LET old == Get(saved.subs, e.id)
             new == Get(saved'.subs, e.id)
         IN /\ new.pending = old.pending /\ new.answered = old.answered
            /\ \A field \in {"name", "enabled", "target", "configs"} :
                e[field] = sheet[field] => new[field] = old[field]
            /\ e.target = sheet.target => saved'.profiles = saved.profiles]_vars
    BY SheetIsMinimal
  <1> QED
    BY <1>1, AlwaysSettingsInv, PTL DEF EditIsMinimal

-----------------------------------------------------------------------------
(* A route edit takes effect *)

(* A list of routes that starts with the default one is only restricted by  *)
(* the chain: each route keeps what no earlier one lists (normalize_routes).*)
LEMMA ChainRoutes ==
  ASSUME NEW s, WellFormed(s), s.legacy = None, 1 \in DOMAIN s.routes, s.routes[1].id = Default
  PROVE  /\ DOMAIN Chain(s).routes = DOMAIN s.routes
         /\ Ids(Chain(s).profiles) = Ids(s.profiles)
         /\ Ids(Chain(s).groups) = Ids(s.groups)
         /\ \A i \in DOMAIN s.routes :
              /\ Chain(s).routes[i].id = s.routes[i].id
              /\ Chain(s).routes[i].enabled = IF s.routes[i].id = Default THEN TRUE ELSE s.routes[i].enabled
              /\ Chain(s).routes[i].profiles =
                   {p \in s.routes[i].profiles \cap Ids(s.profiles) :
                      \A j \in {k \in DOMAIN s.routes : k < i} : p \notin s.routes[j].profiles}
              /\ Chain(s).routes[i].groups =
                   {g \in s.routes[i].groups \cap Ids(s.groups) :
                      /\ s.routes[i].id # Default
                      /\ \A j \in {k \in DOMAIN s.routes : k < i} :
                           s.routes[j].id = Default \/ g \notin s.routes[j].groups}
  <1> DEFINE a == FixupDanglingGroups(s)
             b == FixupActiveId(a)
             c == FixupDanglingVia(b)
             t == FixRoutes(c, s.routes)
  <1>1. /\ a.routes = s.routes /\ a.legacy = s.legacy /\ Ids(a.groups) = Ids(s.groups)
        /\ Ids(a.profiles) = Ids(s.profiles)
    BY DEF FixupDanglingGroups, Doc, Ids
  <1>2. b.routes = a.routes /\ b.legacy = a.legacy /\ b.groups = a.groups /\ b.profiles = a.profiles
    BY DEF FixupActiveId, Doc
  <1>3. /\ c.routes = b.routes /\ c.legacy = b.legacy /\ c.groups = b.groups
        /\ Ids(c.profiles) = Ids(b.profiles)
    BY DEF FixupDanglingVia, Doc, Ids
  <1>4. EnsureDefaultRoute(s.routes) = s.routes
    <2>1. s.routes \in Seq(Route) /\ Len(s.routes) \in Nat /\ DOMAIN s.routes = 1 .. Len(s.routes)
      BY FieldsTyped
    <2>2. s.routes = [i \in 1 .. Len(s.routes) |-> s.routes[i]] /\ Len(s.routes) \in Nat \ {0}
      BY <2>1
    <2> QED
      BY <2>2, DefaultStaysFirst
  <1>5. Chain(s) = NormalizeRoutes(c)
    BY DEF Chain
  <1> HIDE DEF a, b, c
  <1>6. FoldLegacyRules(c) = c
    BY <1>1, <1>2, <1>3 DEF FoldLegacyRules
  <1>7. Chain(s) = t
    BY <1>1, <1>2, <1>3, <1>4, <1>5, <1>6 DEF NormalizeRoutes, WithDefaultRoute
  <1>8. /\ DOMAIN t.routes = DOMAIN s.routes
        /\ t.profiles = c.profiles /\ t.groups = c.groups
        /\ \A i \in DOMAIN s.routes :
             /\ t.routes[i].id = s.routes[i].id
             /\ t.routes[i].enabled = IF s.routes[i].id = Default THEN TRUE ELSE s.routes[i].enabled
             /\ t.routes[i].profiles =
                  {p \in s.routes[i].profiles \cap Ids(c.profiles) :
                     \A j \in {k \in DOMAIN s.routes : k < i} : p \notin s.routes[j].profiles}
             /\ t.routes[i].groups =
                  {g \in s.routes[i].groups \cap Ids(c.groups) :
                     /\ s.routes[i].id # Default
                     /\ \A j \in {k \in DOMAIN s.routes : k < i} :
                          s.routes[j].id = Default \/ g \notin s.routes[j].groups}
    BY DEF FixRoutes, Doc
  <1> HIDE DEF t
  <1>9. Ids(t.profiles) = Ids(s.profiles) /\ Ids(t.groups) = Ids(s.groups)
    BY <1>1, <1>2, <1>3, <1>8
  <1>10. Ids(c.profiles) = Ids(s.profiles) /\ Ids(c.groups) = Ids(s.groups)
    BY <1>1, <1>2, <1>3
  <1> QED
    BY <1>7, <1>8, <1>9, <1>10

(* Where routes claim nothing twice, a profile runs with the one that is on *)
(* and lists it, and with the one that lists its group when none lists it   *)
(* (route_for).                                                             *)
LEMMA RunsWithItsRoute ==
  ASSUME NEW s, RoutesResolve(s), s.routes \in Seq(Route), NEW p,
         NEW k \in DOMAIN s.routes, s.routes[k].enabled
  PROVE  /\ p.id \in s.routes[k].profiles => RouteFor(s, p) = s.routes[k].id
         /\ /\ p.group \in s.routes[k].groups
            /\ \A j \in DOMAIN s.routes : ~(s.routes[j].enabled /\ p.id \in s.routes[j].profiles)
            => RouteFor(s, p) = s.routes[k].id
  <1> DEFINE n == Len(s.routes)
             I == {i \in 1 .. n : s.routes[i].enabled /\ p.id \in s.routes[i].profiles}
             J == {i \in 1 .. n : s.routes[i].enabled /\ p.group \in s.routes[i].groups}
             own == IF I # {} THEN Min(I) ELSE 0
             group == IF J # {} THEN Min(J) ELSE 0
  <1>1. n \in Nat /\ DOMAIN s.routes = 1 .. n
    OBVIOUS
  <1>2. RouteFor(s, p) = IF own # 0 THEN s.routes[own].id
                         ELSE IF group # 0 THEN s.routes[group].id ELSE Default
    BY DEF RouteFor, SelectInSeq
  <1>3. \A i, j \in 1 .. n : i # j => /\ s.routes[i].profiles \cap s.routes[j].profiles = {}
                                      /\ s.routes[i].groups \cap s.routes[j].groups = {}
    BY <1>1 DEF RoutesResolve
  <1>4. Min({k}) = k /\ k # 0
    BY <1>1 DEF Min
  <1>5. ASSUME p.id \in s.routes[k].profiles PROVE RouteFor(s, p) = s.routes[k].id
    <2>1. I = {k}
      BY <1>1, <1>3, <1>5
    <2> QED
      BY <1>2, <1>4, <2>1
  <1>6. ASSUME p.group \in s.routes[k].groups,
               \A j \in DOMAIN s.routes : ~(s.routes[j].enabled /\ p.id \in s.routes[j].profiles)
        PROVE  RouteFor(s, p) = s.routes[k].id
    <2>1. I = {}
      BY <1>1, <1>6
    <2>2. J = {k}
      BY <1>1, <1>3, <1>6
    <2> QED
      BY <1>2, <1>4, <2>1, <2>2
  <1> QED
    BY <1>5, <1>6

(* A route that is on, and to whose profiles and groups every other route   *)
(* has yielded, has its effect when the chain has run.                      *)
LEMMA ClaimsTakeEffect ==
  ASSUME NEW w, WellFormed(w), w.legacy = None, 1 \in DOMAIN w.routes, w.routes[1].id = Default,
         Base \in Ids(w.groups), NEW k \in DOMAIN w.routes, NEW r,
         w.routes[k].id = r.id, w.routes[k].enabled \/ r.id = Default,
         r.profiles \subseteq w.routes[k].profiles, r.groups \subseteq w.routes[k].groups,
         \A j \in DOMAIN w.routes \ {k} : /\ w.routes[j].profiles \cap r.profiles = {}
                                          /\ w.routes[j].groups \cap r.groups = {}
  PROVE  RunsWith(Chain(w), r)
  <1> DEFINE t == Chain(w)
  <1>1. /\ k \in DOMAIN t.routes /\ t.routes[k].id = r.id /\ t.routes[k].enabled
        /\ t.routes[k].profiles =
             {p \in w.routes[k].profiles \cap Ids(w.profiles) :
                \A j \in {i \in DOMAIN w.routes : i < k} : p \notin w.routes[j].profiles}
        /\ t.routes[k].groups =
             {g \in w.routes[k].groups \cap Ids(w.groups) :
                /\ w.routes[k].id # Default
                /\ \A j \in {i \in DOMAIN w.routes : i < k} :
                     w.routes[j].id = Default \/ g \notin w.routes[j].groups}
        /\ Ids(t.profiles) = Ids(w.profiles) /\ Ids(t.groups) = Ids(w.groups)
    <2>a. WellFormed(w) /\ w.legacy = None /\ 1 \in DOMAIN w.routes /\ w.routes[1].id = Default
      OBVIOUS
    <2>b. /\ DOMAIN Chain(w).routes = DOMAIN w.routes
          /\ Ids(Chain(w).profiles) = Ids(w.profiles)
          /\ Ids(Chain(w).groups) = Ids(w.groups)
          /\ \A i \in DOMAIN w.routes :
               /\ Chain(w).routes[i].id = w.routes[i].id
               /\ Chain(w).routes[i].enabled =
                    IF w.routes[i].id = Default THEN TRUE ELSE w.routes[i].enabled
               /\ Chain(w).routes[i].profiles =
                    {p \in w.routes[i].profiles \cap Ids(w.profiles) :
                       \A j \in {m \in DOMAIN w.routes : m < i} : p \notin w.routes[j].profiles}
               /\ Chain(w).routes[i].groups =
                    {g \in w.routes[i].groups \cap Ids(w.groups) :
                       /\ w.routes[i].id # Default
                       /\ \A j \in {m \in DOMAIN w.routes : m < i} :
                            w.routes[j].id = Default \/ g \notin w.routes[j].groups}
      BY ONLY <2>a, ChainRoutes
    <2>c. k \in DOMAIN w.routes
      OBVIOUS
    <2>1. /\ DOMAIN t.routes = DOMAIN w.routes /\ t.routes[k].id = w.routes[k].id
          /\ t.routes[k].enabled = IF w.routes[k].id = Default THEN TRUE ELSE w.routes[k].enabled
      BY ONLY <2>b, <2>c DEF t
    <2>2. /\ t.routes[k].profiles =
                {p \in w.routes[k].profiles \cap Ids(w.profiles) :
                   \A j \in {i \in DOMAIN w.routes : i < k} : p \notin w.routes[j].profiles}
          /\ t.routes[k].groups =
                {g \in w.routes[k].groups \cap Ids(w.groups) :
                   /\ w.routes[k].id # Default
                   /\ \A j \in {i \in DOMAIN w.routes : i < k} :
                        w.routes[j].id = Default \/ g \notin w.routes[j].groups}
          /\ Ids(t.profiles) = Ids(w.profiles) /\ Ids(t.groups) = Ids(w.groups)
      BY ONLY <2>b, <2>c DEF t
    <2>3. t.routes[k].enabled
      <3>1. CASE w.routes[k].id = Default
        BY <2>1, <3>1
      <3>2. CASE w.routes[k].id # Default
        <4>1. t.routes[k].enabled = w.routes[k].enabled
          BY <2>1, <3>2
        <4>2. w.routes[k].enabled
          BY <3>2
        <4> QED
          BY <4>1, <4>2, Zenon
      <3> QED
        BY <3>1, <3>2
    <2> QED
      BY <2>1, <2>2, <2>3
  <1>2. RoutesResolve(t)
    BY ChainResolves DEF Resolves
  <1>3. WellFormed(t)
    BY ChainTyped
  <1>4. \A i \in DOMAIN t.profiles : t.profiles[i].group \in Ids(t.groups)
    BY <1>1, ChainNearlyResolves
  <1>5. t.routes \in Seq(Route)
    BY <1>3, FieldsTyped
  <1>6. \A j \in {i \in DOMAIN w.routes : i < k} : j \in DOMAIN w.routes \ {k}
    <2>1. w.routes \in Seq(Route) /\ DOMAIN w.routes = 1 .. Len(w.routes) /\ Len(w.routes) \in Nat
      BY FieldsTyped
    <2> QED
      BY <2>1
  <1> HIDE DEF t
  <1> SUFFICES ASSUME NEW i \in DOMAIN t.profiles
               PROVE  LET p == t.profiles[i]
                          pinned == \E j \in DOMAIN t.routes :
                                      t.routes[j].enabled /\ p.id \in t.routes[j].profiles
                      IN \/ p.id \notin r.profiles
                              /\ (pinned \/ r.id = Default \/ p.group \notin r.groups)
                         \/ RouteFor(t, p) = r.id
    BY DEF RunsWith, t
  <1> DEFINE p == t.profiles[i]
  <1>7. p.id \in Ids(t.profiles)
    BY DEF Ids
  <1>8. p.group \in Ids(t.groups)
    BY <1>4
  <1> HIDE DEF p
  <1>9. RoutesResolve(t) /\ t.routes \in Seq(Route) /\ k \in DOMAIN t.routes /\ t.routes[k].enabled
    BY <1>1, <1>2, <1>5
  <1>10. /\ p.id \in t.routes[k].profiles => RouteFor(t, p) = t.routes[k].id
         /\ /\ p.group \in t.routes[k].groups
            /\ \A j \in DOMAIN t.routes : ~(t.routes[j].enabled /\ p.id \in t.routes[j].profiles)
            => RouteFor(t, p) = t.routes[k].id
    BY <1>9, RunsWithItsRoute
  <1>11. ASSUME p.id \in r.profiles PROVE RouteFor(t, p) = r.id
    <2>1. p.id \in t.routes[k].profiles
      BY <1>1, <1>6, <1>7, <1>11
    <2>2. RouteFor(t, p) = t.routes[k].id
      BY <2>1, <1>10
    <2> QED
      BY <1>1, <2>2
  <1>12. ASSUME r.id # Default, p.group \in r.groups,
               \A j \in DOMAIN t.routes : ~(t.routes[j].enabled /\ p.id \in t.routes[j].profiles)
        PROVE  RouteFor(t, p) = r.id
    <2>1. p.group \in t.routes[k].groups
      BY <1>1, <1>6, <1>12, <1>8
    <2>2. RouteFor(t, p) = t.routes[k].id
      BY <1>12, <2>1, <1>10
    <2> QED
      BY <1>1, <2>2
  <1> QED
    BY <1>11, <1>12 DEF p

(* A route that is stored takes what it lists from every other              *)
(* (upsert_route).                                                          *)
LEMMA StoredRouteClaims ==
  ASSUME NEW s, WellFormed(s), IdsAreUnique(s), s.legacy = None, 1 \in DOMAIN s.routes,
         s.routes[1].id = Default, Base \in Ids(s.groups), NEW r \in Route,
         r.enabled \/ r.id = Default, NEW q, q.id = r.id, q.profiles = r.profiles, q.groups = r.groups
  PROVE  RunsWith(Chain(UpsertRouteIn(s, r)), q)
  <1> DEFINE Yields(x) == IF x.id = r.id THEN x
                       ELSE [x EXCEPT !.profiles = @ \ r.profiles, !.groups = @ \ r.groups]
             cut == [i \in DOMAIN s.routes |-> Yields(s.routes[i])]
             rs == Upsert(cut, r)
             w == UpsertRouteIn(s, r)
  <1>1. w = [s EXCEPT !.routes = rs]
    BY DEF UpsertRouteIn
  <1>2. WellFormed(w) /\ IdsAreUnique(w)
    BY UpsertRouteInTyped, UpsertRouteInUnique
  <1>3. \A x \in Route : /\ Yields(x) \in Route /\ Yields(x).id = x.id
                         /\ x.id # r.id => /\ Yields(x).profiles \cap r.profiles = {}
                                           /\ Yields(x).groups \cap r.groups = {}
    BY DEF Route
  <1> HIDE DEF w, Yields
  <1>4. w.routes = rs /\ w.groups = s.groups /\ w.legacy = None
    BY <1>1 DEF WellFormed
  <1>5. s.routes \in Seq(Route) /\ \A i \in DOMAIN s.routes : s.routes[i] \in Route
    BY FieldsTyped
  <1>6. cut \in Seq(Route)
    BY <1>3, <1>5
  <1>7. /\ DOMAIN cut = DOMAIN s.routes
        /\ \A i \in DOMAIN cut : /\ cut[i].id = s.routes[i].id
                                 /\ cut[i].id # r.id => /\ cut[i].profiles \cap r.profiles = {}
                                                        /\ cut[i].groups \cap r.groups = {}
    BY <1>3, <1>5
  <1> HIDE DEF cut
  <1>8. PICK k \in DOMAIN rs : /\ rs[k] = r /\ 1 \in DOMAIN rs /\ rs[1].id = Default
                               /\ \A j \in DOMAIN rs \ {k} : j \in DOMAIN cut /\ rs[j] = cut[j]
    <2>0. DOMAIN cut = 1 .. Len(cut) /\ Len(cut) \in Nat
      BY <1>6
    <2>1. CASE r.id \in Ids(cut)
      <3> DEFINE k == IndexOf(cut, r.id)
      <3>1. k \in 1 .. Len(cut) /\ cut[k].id = r.id
        BY <1>6, <2>1, FirstWith
      <3>2. rs = [cut EXCEPT ![k] = r]
        BY <2>1 DEF Upsert
      <3> HIDE DEF k, rs
      <3>3. /\ DOMAIN rs = DOMAIN cut /\ k \in DOMAIN rs /\ rs[k] = r
            /\ \A j \in DOMAIN rs \ {k} : rs[j] = cut[j]
        BY <2>0, <3>1, <3>2
      <3>4. rs[1].id = Default
        BY <1>7, <3>1, <3>3
      <3> QED
        BY <1>7, <3>3, <3>4
    <2>2. CASE r.id \notin Ids(cut)
      <3>1. rs = Append(cut, r)
        BY <2>2 DEF Upsert
      <3> HIDE DEF rs
      <3>2. /\ DOMAIN rs = 1 .. Len(cut) + 1 /\ rs[Len(cut) + 1] = r
            /\ \A j \in 1 .. Len(cut) : rs[j] = cut[j]
        BY <1>6, <3>1
      <3>3. Len(cut) + 1 \in DOMAIN rs /\ \A j \in DOMAIN rs \ {Len(cut) + 1} : j \in DOMAIN cut
        BY <2>0, <3>2
      <3>4. 1 \in DOMAIN rs /\ rs[1].id = Default
        BY <1>7, <2>0, <3>2
      <3> QED
        BY <2>0, <3>2, <3>3, <3>4
    <2> QED
      BY <2>1, <2>2
  <1> HIDE DEF rs
  <1>9. \A j \in DOMAIN rs \ {k} : rs[j].id # r.id
    BY <1>2, <1>4, <1>8 DEF IdsAreUnique, Distinct
  <1>10. \A j \in DOMAIN w.routes \ {k} : /\ w.routes[j].profiles \cap q.profiles = {}
                                          /\ w.routes[j].groups \cap q.groups = {}
    BY <1>4, <1>7, <1>8, <1>9
  <1>11. /\ k \in DOMAIN w.routes /\ 1 \in DOMAIN w.routes /\ w.routes[1].id = Default
         /\ w.routes[k].id = q.id /\ (w.routes[k].enabled \/ q.id = Default)
         /\ q.profiles \subseteq w.routes[k].profiles /\ q.groups \subseteq w.routes[k].groups
         /\ Base \in Ids(w.groups)
    BY <1>4, <1>8
  <1>12. RunsWith(Chain(w), q)
    BY <1>2, <1>4, <1>10, <1>11, ClaimsTakeEffect
  <1> QED
    BY <1>12 DEF w

(* Putting a profile on a route takes it off every other                    *)
(* (set_profile_route).                                                     *)
LEMMA PutProfileClaims ==
  ASSUME NEW s, WellFormed(s), IdsAreUnique(s), s.legacy = None, 1 \in DOMAIN s.routes,
         s.routes[1].id = Default, Base \in Ids(s.groups), NEW p \in AllProfiles,
         NEW k \in DOMAIN s.routes, s.routes[k].enabled, NEW w,
         w = [s EXCEPT !.routes = [i \in DOMAIN s.routes |->
               [s.routes[i] EXCEPT !.profiles = IF s.routes[i].id = s.routes[k].id THEN @ \cup {p} ELSE @ \ {p}]]],
         NEW q, q.id = s.routes[k].id, q.profiles = {p}, q.groups = {}
  PROVE  RunsWith(Chain(w), q)
  <1> DEFINE Put(r) == [r EXCEPT !.profiles = IF r.id = q.id THEN @ \cup {p} ELSE @ \ {p}]
             rs == [i \in DOMAIN s.routes |-> Put(s.routes[i])]
  <1>1. w = [s EXCEPT !.routes = rs]
    OBVIOUS
  <1>2. \A r \in Route : /\ Put(r) \in Route /\ Put(r).id = r.id /\ Put(r).enabled = r.enabled
                         /\ r.id = q.id => p \in Put(r).profiles
                         /\ r.id # q.id => p \notin Put(r).profiles
    BY DEF Route
  <1> HIDE DEF Put
  <1>3. s.routes \in Seq(Route) /\ \A i \in DOMAIN s.routes : s.routes[i] \in Route
    BY FieldsTyped
  <1>4. rs \in Seq(Route)
    BY <1>2, <1>3
  <1>5. /\ DOMAIN rs = DOMAIN s.routes
        /\ \A i \in DOMAIN s.routes : /\ rs[i].id = s.routes[i].id /\ rs[i].enabled = s.routes[i].enabled
                                      /\ s.routes[i].id = q.id => p \in rs[i].profiles
                                      /\ s.routes[i].id # q.id => p \notin rs[i].profiles
    BY <1>2, <1>3
  <1> HIDE DEF rs
  <1>6. WellFormed(w) /\ w.routes = rs /\ w.groups = s.groups /\ w.legacy = None
    BY <1>1, <1>4 DEF WellFormed
  <1>7. \A j \in DOMAIN w.routes \ {k} : w.routes[j].profiles \cap q.profiles = {} /\ w.routes[j].groups \cap q.groups = {}
    <2>1. \A j \in DOMAIN s.routes \ {k} : s.routes[j].id # q.id
      BY DEF IdsAreUnique, Distinct
    <2> QED
      BY <1>5, <1>6, <2>1
  <1>8. /\ k \in DOMAIN w.routes /\ 1 \in DOMAIN w.routes /\ w.routes[1].id = Default
        /\ w.routes[k].id = q.id
        /\ q.profiles \subseteq w.routes[k].profiles /\ q.groups \subseteq w.routes[k].groups
        /\ Base \in Ids(w.groups)
    BY <1>5, <1>6
  <1>9. w.routes[k].enabled
    <2>1. w.routes[k].enabled = s.routes[k].enabled
      BY <1>5, <1>6
    <2> QED
      BY <2>1, Zenon
  <1>10. /\ WellFormed(w) /\ w.legacy = None
         /\ k \in DOMAIN w.routes /\ 1 \in DOMAIN w.routes /\ w.routes[1].id = Default
         /\ w.routes[k].id = q.id /\ (w.routes[k].enabled \/ q.id = Default)
         /\ q.profiles \subseteq w.routes[k].profiles /\ q.groups \subseteq w.routes[k].groups
         /\ Base \in Ids(w.groups)
    BY <1>6, <1>8, <1>9
  <1> HIDE DEF Put, rs
  <1>11. RunsWith(Chain(w), q)
    BY ONLY <1>7, <1>10, ClaimsTakeEffect
  <1> QED
    BY <1>11

(* What every edit starts from has the default route first and the base     *)
(* group listed.                                                            *)
LEMMA ReadHasDefault ==
  ASSUME SettingsInv
  PROVE  /\ WellFormed(Read) /\ IdsAreUnique(Read) /\ Read.legacy = None
         /\ 1 \in DOMAIN Read.routes /\ Read.routes[1].id = Default /\ Base \in Ids(Read.groups)
         /\ Read.routes = saved.routes
  <1>1. WellFormed(saved) /\ IdsAreUnique(saved)
    BY SettingsAreWellFormed
  <1>2. WellFormed(Read) /\ IdsAreUnique(Read)
    BY <1>1, ReadTyped, ReadUnique DEF Read
  <1>3. Routed(Read) /\ Read.routes = saved.routes /\ Read.legacy = None /\ Read = EnsureBaseGroup(saved)
    BY ReadIsSaved
  <1>4. 1 \in DOMAIN Read.routes /\ Read.routes[1].id = Default
    <2>1. PICK n \in Nat \ {0} : Read.routes = [i \in 1 .. n |-> RouteFields(Read.routes[i])]
      BY <1>3 DEF Routed
    <2>2. DOMAIN Read.routes = 1 .. n
      BY <2>1
    <2> QED
      BY <1>3, <2>2 DEF Routed
  <1>5. Base \in Ids(Read.groups)
    <2>1. CASE Base \in Ids(saved.groups)
      BY <1>3, <2>1 DEF EnsureBaseGroup
    <2>2. CASE Base \notin Ids(saved.groups)
      <3> DEFINE b == [id |-> Base, name |-> CHOOSE n \in Names : TRUE, owner |-> None]
                 one == <<b>>
                 gs == one \o saved.groups
      <3>1. Read.groups = gs
        BY <1>3, <2>2 DEF EnsureBaseGroup, Doc
      <3>2. b \in Group /\ b.id = Base
        BY IdsAssumption DEF Group
      <3> HIDE DEF b
      <3>3. one \in Seq(Group) /\ Ids(one) = {Base}
        BY <3>2, OneIsDistinct
      <3> HIDE DEF one
      <3>4. Ids(gs) = Ids(one) \cup Ids(saved.groups)
        BY <1>1, <3>3, FieldsTyped, ConcatFrom
      <3> QED
        BY <3>1, <3>3, <3>4
    <2> QED
      BY <2>1, <2>2
  <1> QED
    BY <1>2, <1>3, <1>4, <1>5

LEMMA RouteStepTakesEffect ==
  ASSUME SettingsInv
  PROVE  /\ \A r \in RouteDrafts :
              UpsertRoute(r) /\ (r.enabled \/ r.id = Default) => RunsWith(saved', r)
         /\ \A g \in Groups, rules \in BOOLEAN :
              ImportRoutingLink(g, rules, TRUE)
                => RunsWith(saved', [id |-> <<"link", g>>, profiles |-> {}, groups |-> {g}])
         /\ \A p \in AllProfiles, i \in DOMAIN saved.routes :
              saved.routes[i].enabled /\ SetProfileRoute(p, saved.routes[i].id)
                => RunsWith(saved', [id |-> saved.routes[i].id, profiles |-> {p}, groups |-> {}])
  <1> DEFINE s == Read
  <1>0. /\ WellFormed(s) /\ IdsAreUnique(s) /\ s.legacy = None
        /\ 1 \in DOMAIN s.routes /\ s.routes[1].id = Default /\ Base \in Ids(s.groups)
        /\ s.routes = saved.routes
    BY ReadHasDefault
  <1> HIDE DEF s
  <1>1. ASSUME NEW r \in RouteDrafts, UpsertRoute(r), r.enabled \/ r.id = Default
        PROVE  RunsWith(saved', r)
    <2>1. r \in Route
      BY InputsAssumption
    <2>2. saved' = Chain(UpsertRouteIn(s, r))
      BY <1>1 DEF UpsertRoute, Edit, Write, s
    <2>3. RunsWith(Chain(UpsertRouteIn(s, r)), r)
      BY <1>0, <1>1, <2>1, StoredRouteClaims
    <2> QED
      BY <2>2, <2>3
  <1>2. ASSUME NEW g \in Groups, NEW rules \in BOOLEAN, ImportRoutingLink(g, rules, TRUE)
        PROVE  RunsWith(saved', [id |-> <<"link", g>>, profiles |-> {}, groups |-> {g}])
    <2> DEFINE id == <<"link", g>>
               b == [id |-> id, tag |-> Proxy, source |-> None]
               blocks == IF rules THEN Upsert(s.blocks, b) ELSE Drop(s.blocks, {id})
               r == [id |-> id, enabled |-> TRUE, profiles |-> {},
                     groups |-> {g}, blocks |-> IF rules THEN {id} ELSE {},
                     final |-> Proxy, source |-> None]
               q == [id |-> id, profiles |-> {}, groups |-> {g}]
               t == [s EXCEPT !.blocks = blocks]
    <2>1. saved' = Chain(UpsertRouteIn(t, r))
      BY <1>2 DEF ImportRoutingLink, ImportRouting, Edit, Write, s
    <2>2. b \in RuleBlock /\ r \in Route
      BY DEF RuleBlock, Route, AllBlocks, AllRoutes
    <2>3. blocks \in Seq(RuleBlock) /\ Distinct(blocks)
      <3>1. s.blocks \in Seq(RuleBlock) /\ Distinct(s.blocks)
        BY <1>0, FieldsTyped DEF IdsAreUnique
      <3> HIDE DEF b, id
      <3>2. Upsert(s.blocks, b) \in Seq(RuleBlock) /\ Distinct(Upsert(s.blocks, b))
        BY <2>2, <3>1, UpsertTyped, UpsertFrom
      <3>3. Drop(s.blocks, {id}) \in Seq(RuleBlock) /\ Distinct(Drop(s.blocks, {id}))
        BY <3>1, DropTyped, DropFrom
      <3> QED
        BY <3>2, <3>3
    <2> HIDE DEF blocks
    <2>4. /\ WellFormed(t) /\ IdsAreUnique(t) /\ t.legacy = None
          /\ t.routes = s.routes /\ t.groups = s.groups
      BY <1>0, <2>3 DEF WellFormed, IdsAreUnique
    <2>5. r.enabled /\ q.id = r.id /\ q.profiles = r.profiles /\ q.groups = r.groups
      OBVIOUS
    <2> HIDE DEF r, t, q
    <2>6. RunsWith(Chain(UpsertRouteIn(t, r)), q)
      BY <1>0, <2>2, <2>4, <2>5, StoredRouteClaims
    <2> QED
      BY <2>1, <2>6 DEF q
  <1>3. ASSUME NEW p \in AllProfiles, NEW i \in DOMAIN saved.routes, saved.routes[i].enabled,
               SetProfileRoute(p, saved.routes[i].id)
        PROVE  RunsWith(saved', [id |-> saved.routes[i].id, profiles |-> {p}, groups |-> {}])
    <2> DEFINE id == s.routes[i].id
               q == [id |-> id, profiles |-> {p}, groups |-> {}]
               w == [s EXCEPT !.routes = [j \in DOMAIN s.routes |->
                      [s.routes[j] EXCEPT !.profiles = IF s.routes[j].id = id THEN @ \cup {p} ELSE @ \ {p}]]]
    <2>1. saved' = Chain(w)
      BY <1>0, <1>3 DEF SetProfileRoute, Edit, Write, s
    <2>2. i \in DOMAIN s.routes /\ s.routes[i].enabled
      BY <1>0, <1>3
    <2>3. q.id = s.routes[i].id /\ q.profiles = {p} /\ q.groups = {}
      OBVIOUS
    <2> HIDE DEF q
    <2>4. RunsWith(Chain(w), q)
      BY <1>0, <2>2, <2>3, PutProfileClaims
    <2> QED
      BY <1>0, <2>1, <2>4 DEF q
  <1> QED
    BY <1>1, <1>2, <1>3

(* A route edit takes effect for everybody it names, whatever routes        *)
(* claimed them before: who is put on a route that is on runs with it, and  *)
(* so does every profile of a group put on it that no route lists itself    *)
(* (upsert_route, set_profile_route, import_routing, route_for).            *)
THEOREM RouteEditsHold == Spec => RouteEditsTakeEffect
  <1>1. SettingsInv => [
       /\ \A r \in RouteDrafts :
            UpsertRoute(r) /\ (r.enabled \/ r.id = Default) => RunsWith(saved', r)
       /\ \A g \in Groups, rules \in BOOLEAN :
            ImportRoutingLink(g, rules, TRUE)
              => RunsWith(saved', [id |-> <<"link", g>>, profiles |-> {},
                                   groups |-> {g}])
       /\ \A p \in AllProfiles, i \in DOMAIN saved.routes :
            saved.routes[i].enabled /\ SetProfileRoute(p, saved.routes[i].id)
              => RunsWith(saved', [id |-> saved.routes[i].id,
                                   profiles |-> {p}, groups |-> {}])]_vars
    BY RouteStepTakesEffect
  <1> QED
    BY <1>1, AlwaysSettingsInv, PTL DEF RouteEditsTakeEffect

-----------------------------------------------------------------------------
(* What is kept of a list *)

(* Everything at a kept place is in the sublist, once its rank is reached   *)
(* (Kept).                                                                  *)
LEMMA KeptAll ==
  ASSUME NEW S, NEW q \in Seq(S), NEW A \in SUBSET DOMAIN q, NEW i \in A
  PROVE  \E k \in DOMAIN Kept(q, A) : Kept(q, A)[k] = q[i]
  <1> DEFINE Lower(j) == {m \in A : m < j}
             k == Cardinality(Lower(i)) + 1
             At(r) == CHOOSE j \in A : Cardinality(Lower(j)) = r - 1
  <1>1. /\ A \in SUBSET (1 .. Len(q)) /\ Len(q) \in Nat
        /\ \A j \in A : j \in Nat
    OBVIOUS
  <1>2. IsFiniteSet(A) /\ Cardinality(A) \in Nat
    <2>1. IsFiniteSet(1 .. Len(q))
      BY <1>1, FS_Interval
    <2> QED
      BY <1>1, <2>1, FS_Subset, FS_CardinalityType
  <1>3. \A j : Lower(j) \in SUBSET A
    OBVIOUS
  <1>4. \A j : IsFiniteSet(Lower(j)) /\ Cardinality(Lower(j)) \in Nat
    <2> HIDE DEF Lower
    <2> QED
      BY <1>2, <1>3, FS_Subset, FS_CardinalityType
  <1>5. \A m, j \in A : m < j => Cardinality(Lower(m)) < Cardinality(Lower(j))
    <2> SUFFICES ASSUME NEW m \in A, NEW j \in A, m < j
                 PROVE  Cardinality(Lower(m)) < Cardinality(Lower(j))
      OBVIOUS
    <2>1. Lower(m) \cup {m} \in SUBSET Lower(j) /\ m \notin Lower(m)
      BY <1>1
    <2> HIDE DEF Lower
    <2>2. Cardinality(Lower(m) \cup {m}) = Cardinality(Lower(m)) + 1
      BY <1>4, <2>1, FS_AddElement
    <2>3. Cardinality(Lower(m) \cup {m}) <= Cardinality(Lower(j))
      BY <1>4, <2>1, FS_Subset
    <2>4. Cardinality(Lower(m)) \in Nat /\ Cardinality(Lower(j)) \in Nat
      BY <1>4
    <2> QED
      BY <2>2, <2>3, <2>4
  <1>6. k \in 1 .. Cardinality(A)
    <2>1. Lower(i) \cup {i} \in SUBSET A /\ i \notin Lower(i)
      BY <1>1
    <2> HIDE DEF Lower
    <2>2. Cardinality(Lower(i) \cup {i}) = Cardinality(Lower(i)) + 1
      BY <1>4, <2>1, FS_AddElement
    <2>3. Cardinality(Lower(i) \cup {i}) <= Cardinality(A)
      BY <1>2, <2>1, FS_Subset
    <2> QED
      BY <1>2, <1>4, <2>2, <2>3
  <1>7. At(k) = i
    <2>1. Cardinality(Lower(i)) = k - 1
      <3> HIDE DEF Lower, At
      <3> QED
        BY <1>4
    <2> HIDE DEF k
    <2>2. At(k) \in A /\ Cardinality(Lower(At(k))) = k - 1
      <3> HIDE DEF Lower
      <3> QED
        BY <2>1
    <2> DEFINE a == At(k)
    <2> HIDE DEF Lower, a, At
    <2>3. ~(a < i) /\ ~(i < a)
      BY <1>4, <1>5, <2>1, <2>2 DEF a
    <2> QED
      BY <1>1, <2>2, <2>3 DEF a
  <1>8. Kept(q, A) = [r \in 1 .. Cardinality(A) |-> q[At(r)]]
    BY DEF Kept
  <1> HIDE DEF At, k
  <1>9. k \in DOMAIN Kept(q, A) /\ Kept(q, A)[k] = q[i]
    BY <1>6, <1>7, <1>8
  <1> QED
    BY <1>9

(* An item whose id is its alone is found by it. *)
LEMMA FoundById ==
  ASSUME NEW S, NEW q \in Seq(S), Distinct(q), NEW i \in DOMAIN q
  PROVE  Get(q, q[i].id) = q[i]
  <1>1. q[i].id \in Ids(q)
    BY DEF Ids
  <1>2. IndexOf(q, q[i].id) \in 1 .. Len(q) /\ q[IndexOf(q, q[i].id)].id = q[i].id
    BY <1>1, FirstWith
  <1> QED
    BY <1>2 DEF Get, Distinct

(* Dropping ids takes what has one of them and nothing else.                *)
LEMMA DropIs ==
  ASSUME NEW S, NEW q \in Seq(S), NEW gone
  PROVE  /\ \A k \in DOMAIN Drop(q, gone) : \E i \in DOMAIN q : Drop(q, gone)[k] = q[i]
         /\ \A i \in DOMAIN q : q[i].id \notin gone =>
              \E k \in DOMAIN Drop(q, gone) : Drop(q, gone)[k] = q[i]
  <1> DEFINE A == {i \in DOMAIN q : q[i].id \notin gone}
  <1>1. Drop(q, gone) = Kept(q, A)
    BY DEF Drop, Where
  <1>2. A \in SUBSET DOMAIN q /\ \A i \in DOMAIN q : q[i].id \notin gone => i \in A
    OBVIOUS
  <1> HIDE DEF A
  <1>3. \A k \in DOMAIN Kept(q, A) : \E i \in A : Kept(q, A)[k] = q[i]
    BY <1>2, KeptFrom
  <1>4. \A i \in A : \E k \in DOMAIN Kept(q, A) : Kept(q, A)[k] = q[i]
    BY <1>2, KeptAll
  <1> QED
    BY <1>1, <1>2, <1>3, <1>4

LEMMA DropKeeps ==
  ASSUME NEW S, NEW q \in Seq(S), NEW gone, NEW i \in DOMAIN q, q[i].id \notin gone
  PROVE  \E k \in DOMAIN Drop(q, gone) : Drop(q, gone)[k] = q[i]
  BY DropIs

-----------------------------------------------------------------------------
(* What a refresh leads to *)

(* What a profile keeps when a refresh or the chain touches it: all but its *)
(* hop.                                                                     *)
SameButHop(p, q) ==
  /\ p.id = q.id /\ p.name = q.name /\ p.end = q.end /\ p.custom = q.custom
  /\ p.group = q.group /\ p.sub = q.sub

(* A profile of a stored group comes through the chain (default_chain).     *)
LEMMA ChainKeepsProfile ==
  ASSUME NEW m, NEW j \in DOMAIN m.profiles, m.profiles[j].group \in Ids(m.groups)
  PROVE  j \in DOMAIN Chain(m).profiles /\ SameButHop(Chain(m).profiles[j], m.profiles[j])
  <1>1. Chain(m).profiles = [i \in DOMAIN m.profiles |-> ProfileAfter(m, m.profiles[i])]
    BY ChainKeeps
  <1>2. j \in DOMAIN Chain(m).profiles /\ Chain(m).profiles[j] = ProfileAfter(m, m.profiles[j])
    BY <1>1
  <1> QED
    BY <1>2 DEF ProfileAfter, SameButHop

(* Whatever it drops, a deduplication keeps the active profile              *)
(* (deduplicate_profiles_scoped).                                           *)
LEMMA DedupKeepsActive ==
  ASSUME NEW q \in Seq(Profile), NEW active, NEW scope, NEW i \in DOMAIN q, q[i].id = active
  PROVE  \E k \in DOMAIN Deduplicated(q, active, scope) : Deduplicated(q, active, scope)[k] = q[i]
  <1> DEFINE Scope == {j \in DOMAIN q : scope = None \/ q[j].group = scope}
             Same(j) == {k \in Scope : /\ q[k].end = q[j].end
                                       /\ q[k].custom = q[j].custom}
             Loses(j) == IF \E k \in Same(j) : q[k].id = active
                         THEN q[j].id # active
                         ELSE \E k \in Same(j) : k < j
             gone == {q[j].id : j \in {k \in Scope : Loses(k)}}
  <1>1. Deduplicated(q, active, scope) = Drop(q, gone)
    BY DEF Deduplicated
  <1>2. q[i].id \notin gone
    <2> SUFFICES ASSUME NEW j \in Scope, Loses(j), q[j].id = active PROVE FALSE
      OBVIOUS
    <2>1. j \in Same(j)
      OBVIOUS
    <2> QED
      BY <2>1
  <1> HIDE DEF gone
  <1> QED
    BY <1>1, <1>2, DropIs

LEMMA DedupKeeps ==
  ASSUME NEW q \in Seq(Profile), NEW scope, NEW i \in DOMAIN q
  PROVE  \E k \in DOMAIN Deduplicated(q, q[i].id, scope) : Deduplicated(q, q[i].id, scope)[k] = q[i]
  <1> DEFINE active == q[i].id
  <1>1. q[i].id = active
    OBVIOUS
  <1> HIDE DEF active
  <1>2. \E k \in DOMAIN Deduplicated(q, active, scope) : Deduplicated(q, active, scope)[k] = q[i]
    BY <1>1, DedupKeepsActive
  <1> QED
    BY <1>1, <1>2

(* Where a reference points after a refresh: one to a profile of another    *)
(* origin stays, the others follow their profile to the fresh one that is   *)
(* the same or has its name.                                                *)
LEMMA RefreshedIdIs ==
  ASSUME NEW ps, NEW ref \in Ids(ps), NEW id, NEW fresh \in Seq(Profile)
  PROVE  LET old == Get(ps, ref)
             n == RefreshedId(ps, ref, id, fresh)
         IN /\ old.sub # id => n = ref
            /\ old.sub = id /\ n # None =>
                 \E k \in DOMAIN fresh :
                   fresh[k].id = n /\ (SameIdentity(fresh[k], old) \/ fresh[k].name = old.name)
            /\ old.sub = id /\ (\E k \in DOMAIN fresh : SameIdentity(fresh[k], old)) =>
                 \E k \in DOMAIN fresh : fresh[k].id = n /\ SameIdentity(fresh[k], old)
  <1> DEFINE old == Get(ps, ref)
             exact == SelectInSeq(fresh, LAMBDA f : SameIdentity(f, old))
             named == SelectInSeq(fresh, LAMBDA f : /\ f.custom = old.custom
                                                    /\ f.name = old.name)
             X == {i \in 1 .. Len(fresh) : SameIdentity(fresh[i], old)}
             N == {i \in 1 .. Len(fresh) : fresh[i].custom = old.custom /\ fresh[i].name = old.name}
             n == RefreshedId(ps, ref, id, fresh)
  <1>1. n = IF old.sub # id THEN ref
            ELSE IF exact # 0 THEN fresh[exact].id
            ELSE IF named # 0 THEN fresh[named].id ELSE None
    BY DEF RefreshedId
  <1>2. exact = IF X # {} THEN Min(X) ELSE 0
    BY DEF SelectInSeq
  <1>3. named = IF N # {} THEN Min(N) ELSE 0
    BY DEF SelectInSeq
  <1>4. /\ X \in SUBSET (1 .. Len(fresh)) /\ N \in SUBSET (1 .. Len(fresh)) /\ Len(fresh) \in Nat
        /\ DOMAIN fresh = 1 .. Len(fresh)
    OBVIOUS
  <1>5. /\ \A i \in DOMAIN fresh : SameIdentity(fresh[i], old) => i \in X
        /\ \A i \in X : i \in DOMAIN fresh /\ SameIdentity(fresh[i], old)
        /\ \A i \in N : i \in DOMAIN fresh /\ fresh[i].name = old.name
    OBVIOUS
  <1> HIDE DEF X, N, exact, named, old, n
  <1>6. exact # 0 => exact \in X
    BY <1>2, <1>4, LeastIsMin
  <1>7. named # 0 => named \in N
    BY <1>3, <1>4, LeastIsMin
  <1>8. X # {} => exact # 0
    <2>1. X # {} => exact \in 1 .. Len(fresh)
      BY <1>2, <1>4, LeastIsMin
    <2> QED
      BY <2>1
  <1> QED
    BY <1>1, <1>5, <1>6, <1>7, <1>8 DEF old, n

(* What a fetch made of the answer. *)
LEMMA MappedIs ==
  ASSUME NEW s, NEW u, NEW batch
  PROVE  LET fresh == Mapped(s, u, batch) IN
         /\ DOMAIN fresh = DOMAIN batch
         /\ \A i \in DOMAIN batch :
              /\ fresh[i].name = batch[i].name /\ fresh[i].end = batch[i].end
              /\ fresh[i].custom = batch[i].custom /\ fresh[i].sub = u.id
  BY DEF Mapped

(* The profiles after a refresh: the fresh ones and those the subscription  *)
(* does not own, but for their hop (apply_subscription_profiles).           *)
LEMMA RefreshedIs ==
  ASSUME NEW s, WellFormed(s), NEW u, NEW fresh \in Seq(Profile)
  PROVE  LET ps == RefreshedProfiles(s, u, fresh) IN
         /\ \A j \in DOMAIN ps :
              \/ \E i \in DOMAIN s.profiles : SameButHop(ps[j], s.profiles[i])
              \/ \E i \in DOMAIN fresh : SameButHop(ps[j], fresh[i])
         /\ \A i \in DOMAIN s.profiles :
              ~OwnedBySub(s.profiles[i], u) => \E j \in DOMAIN ps : SameButHop(ps[j], s.profiles[i])
         /\ \A i \in DOMAIN fresh : \E j \in DOMAIN ps : SameButHop(ps[j], fresh[i])
  <1> DEFINE Previous(f) == SelectInSeq(s.profiles, LAMBDA p : p.sub = u.id /\ SameIdentity(p, f))
             Carry(f) == IF Previous(f) = 0 THEN f
                         ELSE [f EXCEPT !.via = s.profiles[Previous(f)].via]
             carried == [i \in DOMAIN fresh |-> Carry(fresh[i])]
             A == {i \in DOMAIN s.profiles : ~OwnedBySub(s.profiles[i], u)}
             left == Kept(s.profiles, A)
             all == left \o carried
             Follow(p) == IF p.via = None THEN p
                          ELSE [p EXCEPT !.via = RefreshedId(s.profiles, @, u.id, fresh)]
             ps == [i \in DOMAIN all |-> Follow(all[i])]
  <1>1. RefreshedProfiles(s, u, fresh) = ps
    BY DEF RefreshedProfiles, Where
  <1>2. s.profiles \in Seq(Profile)
    BY FieldsTyped
  <1>3. A \in SUBSET DOMAIN s.profiles /\ \A i \in DOMAIN s.profiles : ~OwnedBySub(s.profiles[i], u) => i \in A
    OBVIOUS
  <1> HIDE DEF A, Previous
  <1>4. left \in Seq(Profile)
    BY <1>2, <1>3, KeptTyped
  <1>5. \A k \in DOMAIN left : \E i \in A : left[k] = s.profiles[i]
    BY <1>2, <1>3, KeptFrom
  <1>6. \A i \in A : \E k \in DOMAIN left : left[k] = s.profiles[i]
    BY <1>2, <1>3, KeptAll
  <1>7. \A f \in Profile : Carry(f) \in Profile /\ SameButHop(Carry(f), f)
    <2> SUFFICES ASSUME NEW f \in Profile PROVE Carry(f) \in Profile /\ SameButHop(Carry(f), f)
      OBVIOUS
    <2>1. CASE Previous(f) = 0
      BY <2>1 DEF SameButHop
    <2>2. CASE Previous(f) # 0
      <3> DEFINE X == {i \in 1 .. Len(s.profiles) : s.profiles[i].sub = u.id /\ SameIdentity(s.profiles[i], f)}
                 h == s.profiles[Previous(f)].via
      <3>1. Previous(f) = IF X # {} THEN Min(X) ELSE 0
        BY DEF SelectInSeq, Previous
      <3>2. X \in SUBSET (1 .. Len(s.profiles)) /\ Len(s.profiles) \in Nat
        BY <1>2
      <3> HIDE DEF X
      <3>3. Previous(f) \in 1 .. Len(s.profiles)
        BY <2>2, <3>1, <3>2, LeastIsMin
      <3>4. h \in AllProfiles \cup {None}
        <4>1. s.profiles[Previous(f)] \in Profile
          BY <1>2, <3>3
        <4> QED
          BY <4>1 DEF Profile
      <3>5. Carry(f) = [f EXCEPT !.via = h]
        BY <2>2
      <3> HIDE DEF h, Carry
      <3> QED
        BY <3>4, <3>5 DEF Profile, SameButHop
    <2> QED
      BY <2>1, <2>2
  <1>8. \A p \in Profile : SameButHop(Follow(p), p)
    BY DEF Profile, SameButHop
  <1> HIDE DEF Carry, Follow, left
  <1>9. /\ carried \in Seq(Profile) /\ DOMAIN carried = DOMAIN fresh
        /\ \A i \in DOMAIN fresh : SameButHop(carried[i], fresh[i])
    BY <1>7
  <1> HIDE DEF carried
  <1>10. /\ all \in Seq(Profile)
         /\ \A j \in DOMAIN all : \/ \E k \in DOMAIN left : all[j] = left[k]
                                 \/ \E k \in DOMAIN carried : all[j] = carried[k]
         /\ \A k \in DOMAIN left : \E j \in DOMAIN all : all[j] = left[k]
         /\ \A k \in DOMAIN carried : \E j \in DOMAIN all : all[j] = carried[k]
    <2> DEFINE n == Len(left)
    <2>1. /\ n \in Nat /\ Len(carried) \in Nat /\ DOMAIN left = 1 .. n
          /\ DOMAIN carried = 1 .. Len(carried) /\ DOMAIN all = 1 .. n + Len(carried)
          /\ \A i \in 1 .. n : all[i] = left[i]
          /\ \A i \in n + 1 .. n + Len(carried) : all[i] = carried[i - n]
          /\ all \in Seq(Profile)
      BY <1>4, <1>9
    <2> HIDE DEF all, n
    <2>2. \A i \in DOMAIN all : \/ i \in DOMAIN left /\ all[i] = left[i]
                                \/ i - n \in DOMAIN carried /\ all[i] = carried[i - n]
      BY ONLY <2>1
    <2>3. \A j \in DOMAIN carried : j + n \in DOMAIN all /\ all[j + n] = carried[j]
      BY ONLY <2>1
    <2>4. \A i \in DOMAIN left : i \in DOMAIN all /\ all[i] = left[i]
      BY ONLY <2>1
    <2>5. \A j \in DOMAIN all : \/ \E k \in DOMAIN left : all[j] = left[k]
                                \/ \E k \in DOMAIN carried : all[j] = carried[k]
      BY ONLY <2>2
    <2> QED
      BY <2>1, <2>3, <2>4, <2>5
  <1> HIDE DEF all
  <1>11. DOMAIN ps = DOMAIN all /\ \A j \in DOMAIN all : SameButHop(ps[j], all[j])
    BY <1>8, <1>10
  <1> HIDE DEF ps
  <1>12. \A j \in DOMAIN ps :
           \/ \E i \in DOMAIN s.profiles : SameButHop(ps[j], s.profiles[i])
           \/ \E i \in DOMAIN fresh : SameButHop(ps[j], fresh[i])
    <2> SUFFICES ASSUME NEW j \in DOMAIN ps
                 PROVE  \/ \E i \in DOMAIN s.profiles : SameButHop(ps[j], s.profiles[i])
                        \/ \E i \in DOMAIN fresh : SameButHop(ps[j], fresh[i])
      OBVIOUS
    <2>1. CASE \E k \in DOMAIN left : all[j] = left[k]
      BY <1>3, <1>5, <1>11, <2>1
    <2>2. CASE \E k \in DOMAIN carried : all[j] = carried[k]
      BY <1>9, <1>11, <2>2 DEF SameButHop
    <2> QED
      BY <1>10, <1>11, <2>1, <2>2
  <1>13. \A i \in A : \E j \in DOMAIN ps : SameButHop(ps[j], s.profiles[i])
    <2> SUFFICES ASSUME NEW i \in A PROVE \E j \in DOMAIN ps : SameButHop(ps[j], s.profiles[i])
      OBVIOUS
    <2>1. PICK k \in DOMAIN left : left[k] = s.profiles[i]
      BY <1>6
    <2>2. PICK j \in DOMAIN all : all[j] = left[k]
      BY <1>10
    <2> QED
      BY <1>11, <2>1, <2>2
  <1>14. \A i \in DOMAIN fresh : \E j \in DOMAIN ps : SameButHop(ps[j], fresh[i])
    <2> SUFFICES ASSUME NEW i \in DOMAIN fresh PROVE \E j \in DOMAIN ps : SameButHop(ps[j], fresh[i])
      OBVIOUS
    <2>1. PICK j \in DOMAIN all : all[j] = carried[i]
      BY <1>9, <1>10
    <2>2. SameButHop(ps[j], carried[i]) /\ SameButHop(carried[i], fresh[i]) /\ j \in DOMAIN ps
      BY <1>9, <1>11, <2>1
    <2> QED
      BY <2>2 DEF SameButHop
  <1> QED
    BY <1>1, <1>3, <1>12, <1>13, <1>14

(* A rename of the group made for a subscription is all that happens to the *)
(* document (rename_owned_group).                                           *)
LEMMA RenameOwnedGroupKeeps ==
  ASSUME NEW s, WellFormed(s), NEW next
  PROVE  LET t == RenameOwnedGroup(s, next) IN
         /\ Ids(t.groups) = Ids(s.groups) /\ t.profiles = s.profiles /\ t.routes = s.routes
         /\ t.active = s.active /\ t.legacy = s.legacy
  <1>1. CASE next.id \notin Ids(s.subs)
    BY <1>1 DEF RenameOwnedGroup
  <1>2. CASE next.id \in Ids(s.subs)
    <2> DEFINE prev == Get(s.subs, next.id)
               Renamed(g) == IF /\ g.id = next.target /\ g.owner = next.id
                                /\ g.name = prev.name
                             THEN [g EXCEPT !.name = next.name] ELSE g
               gs == [i \in DOMAIN s.groups |-> Renamed(s.groups[i])]
    <2>1. RenameOwnedGroup(s, next) = [s EXCEPT !.groups = gs]
      BY <1>2 DEF RenameOwnedGroup
    <2>2. \A g \in Group : Renamed(g).id = g.id
      BY DEF Group
    <2> HIDE DEF Renamed
    <2>3. DOMAIN gs = DOMAIN s.groups /\ \A i \in DOMAIN s.groups : gs[i].id = s.groups[i].id
      BY <2>2, FieldsTyped
    <2> HIDE DEF gs
    <2>4. Ids(gs) = Ids(s.groups)
      BY <2>3 DEF Ids
    <2> QED
      BY <2>1, <2>4 DEF WellFormed
  <1> QED
    BY <1>1, <1>2

(* Switching a provider's routing off leaves who its routes list            *)
(* (routing_off).                                                           *)
LEMMA RoutingOffKeeps ==
  ASSUME NEW s, WellFormed(s), NEW id
  PROVE  LET t == RoutingOff(s, id) IN
         /\ t.groups = s.groups /\ t.profiles = s.profiles
         /\ t.active = s.active /\ t.legacy = s.legacy
         /\ DOMAIN t.routes = DOMAIN s.routes
         /\ \A i \in DOMAIN s.routes :
              t.routes[i].id = s.routes[i].id /\ t.routes[i].profiles = s.routes[i].profiles
  <1> DEFINE Off(r) == IF r.source = id THEN [r EXCEPT !.enabled = FALSE] ELSE r
             rs == [i \in DOMAIN s.routes |-> Off(s.routes[i])]
  <1>1. RoutingOff(s, id) = [s EXCEPT !.routes = rs]
    BY DEF RoutingOff
  <1>2. \A r \in Route : Off(r).id = r.id /\ Off(r).profiles = r.profiles
    BY DEF Route
  <1> HIDE DEF Off
  <1>3. /\ DOMAIN rs = DOMAIN s.routes
        /\ \A i \in DOMAIN s.routes :
             rs[i].id = s.routes[i].id /\ rs[i].profiles = s.routes[i].profiles
    BY <1>2, FieldsTyped
  <1> HIDE DEF rs
  <1> QED
    BY <1>1, <1>3 DEF WellFormed

(* What an answer makes of the document: the profiles, the selection and    *)
(* the routes follow to the fresh ids, the groups stay (apply).             *)
LEMMA AppliedIs ==
  ASSUME NEW s, WellFormed(s), NEW u \in Asked, NEW fresh \in Seq(Profile), NEW answer \in Answer
  PROVE  LET w == Applied(s, u, fresh, answer)
             ps == RefreshedProfiles(s, u, fresh)
         IN /\ Ids(w.groups) = Ids(s.groups) /\ w.legacy = s.legacy
            /\ w.active = IF s.active = None THEN None ELSE RefreshedId(s.profiles, s.active, u.id, fresh)
            /\ w.profiles = IF s.dedup THEN Deduplicated(ps, w.active, u.target) ELSE ps
            /\ DOMAIN w.routes = DOMAIN s.routes
            /\ \A i \in DOMAIN s.routes :
                 /\ w.routes[i].id = s.routes[i].id
                 /\ w.routes[i].profiles =
                      {RefreshedId(s.profiles, p, u.id, fresh) : p \in s.routes[i].profiles} \ {None}
  <1> DEFINE point == [p \in AllProfiles \cup {Proxy} |-> RefreshedId(s.profiles, p, u.id, fresh)]
             repointed == Repointed(s, point)
             sub == [u EXCEPT !.name = IF answer.title = None THEN @ ELSE answer.title,
                              !.pending = Offered(u, answer)]
             ps == RefreshedProfiles(s, u, fresh)
             a == IF repointed.active = None THEN None
                  ELSE RefreshedId(s.profiles, repointed.active, u.id, fresh)
             updated == [repointed EXCEPT !.profiles = ps, !.active = a]
             owned == RenameOwnedGroup(updated, sub)
             us == Upsert(owned.subs, sub)
             renamed == [owned EXCEPT !.subs = us]
             routed == IF answer.routing = "off" THEN RoutingOff(renamed, u.id) ELSE renamed
             few == Deduplicated(routed.profiles, routed.active, u.target)
  <1>0. Applied(s, u, fresh, answer) = IF s.dedup THEN [routed EXCEPT !.profiles = few] ELSE routed
    BY DEF Applied
  <1>1. /\ WellFormed(repointed) /\ repointed.active = s.active /\ repointed.groups = s.groups
        /\ repointed.legacy = s.legacy
        /\ DOMAIN repointed.routes = DOMAIN s.routes
        /\ \A i \in DOMAIN s.routes :
             /\ repointed.routes[i].id = s.routes[i].id
             /\ repointed.routes[i].profiles =
                  {RefreshedId(s.profiles, p, u.id, fresh) : p \in s.routes[i].profiles} \ {None}
    <2>1. \A p \in AllProfiles : point[p] \in AllProfiles \cup {None}
      BY RefreshedIdTyped
    <2>2. point[Proxy] \in AllProfiles \cup {Proxy, None}
      BY RefreshedIdTyped
    <2>3. \A p \in AllProfiles : point[p] = RefreshedId(s.profiles, p, u.id, fresh)
      OBVIOUS
    <2> HIDE DEF point
    <2>4. WellFormed(repointed) /\ repointed.active = s.active /\ repointed.groups = s.groups
      BY <2>1, <2>2, RepointedTyped
    <2>5. s.routes \in Seq(Route)
      BY FieldsTyped
    <2> DEFINE Outbound(tag) == IF point[tag] = None THEN Proxy ELSE point[tag]
               Repoint(r) == [r EXCEPT !.profiles = {point[p] : p \in @} \ {None},
                                       !.final = Outbound(@)]
    <2>6. repointed.legacy = s.legacy /\ repointed.routes = [i \in DOMAIN s.routes |-> Repoint(s.routes[i])]
      <3>1. s \in [profiles: {s.profiles}, groups: {s.groups}, subs: {s.subs}, blocks: {s.blocks},
                   routes: {s.routes}, active: {s.active}, dedup: {s.dedup}, legacy: {s.legacy}]
        BY DEF WellFormed
      <3> HIDE DEF Repoint
      <3> QED
        BY <3>1 DEF Repointed, Repoint
    <2>7. \A i \in DOMAIN s.routes : s.routes[i] \in Route
      BY <2>5
    <2>8. \A i \in DOMAIN s.routes :
             /\ Repoint(s.routes[i]).id = s.routes[i].id
             /\ Repoint(s.routes[i]).profiles = {point[p] : p \in s.routes[i].profiles} \ {None}
             /\ s.routes[i].profiles \subseteq AllProfiles
      BY <2>7 DEF Route
    <2>9. \A i \in DOMAIN s.routes :
             {point[p] : p \in s.routes[i].profiles} =
               {RefreshedId(s.profiles, p, u.id, fresh) : p \in s.routes[i].profiles}
      BY <2>3, <2>8
    <2> HIDE DEF Repoint, repointed
    <2>10. /\ DOMAIN repointed.routes = DOMAIN s.routes
           /\ \A i \in DOMAIN s.routes : repointed.routes[i] = Repoint(s.routes[i])
      BY <2>6
    <2> QED
      BY <2>4, <2>6, <2>8, <2>9, <2>10
  <1> HIDE DEF point, repointed
  <1>2. sub \in Asked
    <2>1. /\ Offered(u, answer) \in SUBSET Proposals
          /\ Offered(u, answer) \cap u.answered = {}
      BY AskedFields DEF Offered, Proposals
    <2>2. (IF answer.title = None THEN u.name ELSE answer.title) \in Names
      BY AskedFields DEF Answer
    <2>3. sub \in Subscription
      BY <2>1, <2>2 DEF Asked, Subscription
    <2>4. AsksOnce(sub)
      BY <2>1 DEF Asked, Subscription, AsksOnce
    <2> QED
      BY <2>3, <2>4 DEF Asked
  <1> HIDE DEF sub, ps
  <1>3. a = IF s.active = None THEN None ELSE RefreshedId(s.profiles, s.active, u.id, fresh)
    BY <1>1
  <1>4. /\ WellFormed(updated) /\ updated.profiles = ps /\ updated.active = a /\ updated.groups = s.groups
        /\ updated.legacy = s.legacy /\ updated.routes = repointed.routes
    <2>1. ps \in Seq(Profile)
      BY RefreshedProfilesTyped DEF ps
    <2>2. a \in AllProfiles \cup {None}
      <3>1. s.active \in AllProfiles \cup {None}
        BY FieldsTyped
      <3>2. RefreshedId(s.profiles, s.active, u.id, fresh) \in AllProfiles \cup {None, s.active}
        BY RefreshedIdTyped
      <3> QED
        BY <1>3, <3>1, <3>2
    <2> HIDE DEF a
    <2> QED
      BY <1>1, <2>1, <2>2 DEF WellFormed
  <1> HIDE DEF updated, a
  <1>5. /\ WellFormed(owned) /\ owned.profiles = ps /\ owned.active = a
        /\ Ids(owned.groups) = Ids(s.groups)
        /\ owned.legacy = s.legacy /\ owned.routes = repointed.routes
    <2>1. WellFormed(owned)
      BY <1>2, <1>4, AskedFields, RenameOwnedGroupTyped
    <2> QED
      BY <1>4, <2>1, RenameOwnedGroupKeeps
  <1> HIDE DEF owned
  <1>6. us \in Seq(Asked)
    BY <1>2, <1>5, FieldsTyped, UpsertTyped
  <1> HIDE DEF us
  <1>7. /\ WellFormed(renamed) /\ renamed.profiles = ps /\ renamed.active = a
        /\ Ids(renamed.groups) = Ids(s.groups)
        /\ renamed.legacy = s.legacy /\ renamed.routes = repointed.routes
    BY <1>5, <1>6 DEF WellFormed
  <1> HIDE DEF renamed
  <1>8. /\ WellFormed(routed) /\ routed.profiles = ps /\ routed.active = a
        /\ Ids(routed.groups) = Ids(s.groups) /\ routed.legacy = s.legacy
        /\ DOMAIN routed.routes = DOMAIN repointed.routes
        /\ \A i \in DOMAIN repointed.routes :
             /\ routed.routes[i].id = repointed.routes[i].id
             /\ routed.routes[i].profiles = repointed.routes[i].profiles
    <2>1. CASE answer.routing = "off"
      <3>1. routed = RoutingOff(renamed, u.id)
        BY <2>1
      <3> HIDE DEF routed
      <3> QED
        BY <1>7, <3>1, RoutingOffTyped, RoutingOffKeeps
    <2>2. CASE answer.routing # "off"
      BY <1>7, <2>2
    <2> QED
      BY <2>1, <2>2
  <1> HIDE DEF routed
  <1> DEFINE w == Applied(s, u, fresh, answer)
  <1>9. /\ w.profiles = IF s.dedup THEN few ELSE ps
        /\ w.active = a /\ w.groups = routed.groups /\ w.legacy = s.legacy /\ w.routes = routed.routes
    <2> HIDE DEF few
    <2> QED
      BY <1>0, <1>8 DEF WellFormed
  <1>10. few = Deduplicated(ps, a, u.target)
    BY <1>8
  <1> HIDE DEF few, w
  <1>11. w.profiles = IF s.dedup THEN Deduplicated(ps, w.active, u.target) ELSE ps
    BY <1>9, <1>10
  <1>12. w.active = IF s.active = None THEN None ELSE RefreshedId(s.profiles, s.active, u.id, fresh)
    BY <1>3, <1>9
  <1>13. /\ DOMAIN w.routes = DOMAIN s.routes
         /\ \A i \in DOMAIN s.routes :
              /\ w.routes[i].id = s.routes[i].id
              /\ w.routes[i].profiles =
                   {RefreshedId(s.profiles, p, u.id, fresh) : p \in s.routes[i].profiles} \ {None}
    BY <1>1, <1>8, <1>9
  <1>14. Ids(w.groups) = Ids(s.groups) /\ w.legacy = s.legacy
    BY <1>8, <1>9
  <1> QED
    BY <1>11, <1>12, <1>13, <1>14 DEF w, ps

(* A step that ends a fetch is its answer or its failure. *)
LEMMA LandedIs ==
  ASSUME [Next]_vars, FetchTyped, NEW f \in Fetchers, Landed(f)
  PROVE  \/ \E a \in Answers : FetchLand(f, a)
         \/ \E consent \in BOOLEAN : FetchFail(f, consent)
  <1>0. fetch[f] # None /\ fetch'[f] = None /\ f \in DOMAIN fetch
    BY DEF Landed, FetchTyped
  <1>1. fetch' # fetch
    BY <1>0
  <1>2. FetchStep
    <2>1. ~SheetStep
      BY <1>1 DEF SheetStep, OpenSheet, SaveSheet
    <2>2. ~(ProfileStep \/ GroupStep \/ SubStep \/ AnswerStep \/ RouteStep \/ BackupStep)
      BY <1>1, OthersKeepCopies
    <2> QED
      BY <1>1, <2>1, <2>2 DEF Next, vars
  <1>3. ASSUME NEW g \in Fetchers, NEW id, FetchBegin(g, id) PROVE FALSE
    <2>1. fetch[g] = None /\ fetch' = [fetch EXCEPT ![g] = Get(Read.subs, id)]
      BY <1>3 DEF FetchBegin
    <2> QED
      BY <1>0, <2>1
  <1>4. ASSUME NEW g \in Fetchers, NEW a \in Answers, FetchLand(g, a) PROVE g = f
    <2>1. fetch' = [fetch EXCEPT ![g] = None]
      BY <1>4 DEF FetchLand
    <2> QED
      BY <1>0, <2>1
  <1>5. ASSUME NEW g \in Fetchers, NEW consent \in BOOLEAN, FetchFail(g, consent) PROVE g = f
    <2>1. fetch' = [fetch EXCEPT ![g] = None]
      BY <1>5 DEF FetchFail
    <2> QED
      BY <1>0, <2>1
  <1> QED
    BY <1>2, <1>3, <1>4, <1>5 DEF FetchStep

(* What is taken back from subscription u spares a profile it does not own. *)
Spares(u) ==
  \A i \in DOMAIN saved.profiles :
    LET p == saved.profiles[i]
        target == Get(saved.subs, u).target
    IN \/ p.sub = u /\ target \in {None, p.group}
       \/ \E j \in DOMAIN saved'.profiles :
            saved'.profiles[j].id = p.id /\ saved'.profiles[j].group = p.group

(* It does when every profile that is not owned is in what the chain gets,  *)
(* and its group too.                                                       *)
LEMMA SparesWhen ==
  ASSUME SettingsInv, NEW u \in Ids(saved.subs), NEW m, saved' = Chain(m),
         \A i \in DOMAIN saved.profiles : ~OwnedBySub(saved.profiles[i], Get(saved.subs, u)) =>
           /\ \E j \in DOMAIN m.profiles : SameButHop(m.profiles[j], saved.profiles[i])
           /\ saved.profiles[i].group \in Ids(m.groups)
  PROVE  Spares(u)
  <1>1. Get(saved.subs, u).id = u
    <2>1. saved.subs \in Seq(Asked)
      BY SettingsAreWellFormed, FieldsTyped
    <2> QED
      BY <2>1, GetTyped
  <1> SUFFICES ASSUME NEW i \in DOMAIN saved.profiles,
                      ~OwnedBySub(saved.profiles[i], Get(saved.subs, u))
               PROVE  \E j \in DOMAIN saved'.profiles :
                         /\ saved'.profiles[j].id = saved.profiles[i].id
                         /\ saved'.profiles[j].group = saved.profiles[i].group
    BY <1>1 DEF Spares, OwnedBySub
  <1>2. PICK j \in DOMAIN m.profiles : SameButHop(m.profiles[j], saved.profiles[i])
    OBVIOUS
  <1>3. m.profiles[j].group \in Ids(m.groups)
    BY <1>2 DEF SameButHop
  <1>4. j \in DOMAIN saved'.profiles /\ SameButHop(saved'.profiles[j], m.profiles[j])
    BY <1>3, ChainKeepsProfile
  <1> QED
    BY <1>2, <1>4 DEF SameButHop

(* What is read when a subscription is looked up. *)
LEMMA ReadIs ==
  ASSUME SettingsInv
  PROVE  /\ WellFormed(Read) /\ IdsAreUnique(Read)
         /\ Read.profiles = saved.profiles /\ Read.subs = saved.subs /\ Read.dedup = saved.dedup
         /\ Read.active = saved.active
         /\ \A i \in DOMAIN saved.profiles : saved.profiles[i].group \in Ids(Read.groups)
         /\ saved.profiles \in Seq(Profile) /\ saved.subs \in Seq(Asked)
  <1>1. WellFormed(Read) /\ IdsAreUnique(Read)
    BY ReadHasDefault
  <1>2. /\ Read.profiles = saved.profiles /\ Read.subs = saved.subs /\ Read.dedup = saved.dedup
        /\ Read.active = saved.active /\ GroupsResolve(Read)
    BY ReadIsSaved
  <1>3. Read.profiles \in Seq(Profile) /\ Read.subs \in Seq(Asked)
    BY <1>1, FieldsTyped
  <1> QED
    BY <1>1, <1>2, <1>3 DEF GroupsResolve

LEMMA RemoveSubSpares ==
  ASSUME SettingsInv, NEW u \in Ids(saved.subs), NEW deleteGroup, RemoveSub(u, deleteGroup)
  PROVE  Spares(u)
  <1> DEFINE s == Read
             x == Get(s.subs, u)
             A == {i \in DOMAIN s.profiles : ~OwnedBySub(s.profiles[i], x)}
             rest == [s EXCEPT !.profiles = Kept(s.profiles, A), !.subs = Drop(s.subs, {x.id})]
             left == WithoutSub(s, x)
             gone == IF deleteGroup /\ OwnedGroupIsEmpty(left, u, x.target) THEN {x.target} ELSE {}
             m == [left EXCEPT !.groups = Disowned(Drop(left.groups, gone), u)]
  <1>1. saved' = Chain(m)
    BY ReadIs DEF RemoveSub, Edit, Write
  <1>2. /\ WellFormed(s) /\ s.profiles = saved.profiles /\ s.subs = saved.subs
        /\ \A i \in DOMAIN saved.profiles : saved.profiles[i].group \in Ids(s.groups)
        /\ s.profiles \in Seq(Profile) /\ s.groups \in Seq(Group)
    BY ReadIs, FieldsTyped
  <1>3. left = WithoutProviderRouting(rest, x.id)
    BY DEF WithoutSub, Where
  <1> HIDE DEF s
  <1>4. A \in SUBSET DOMAIN s.profiles
    OBVIOUS
  <1>5. \A i \in DOMAIN s.profiles : ~OwnedBySub(s.profiles[i], x) => i \in A
    OBVIOUS
  <1> HIDE DEF A, x, left
  <1>6. left.profiles = Kept(s.profiles, A) /\ left.groups = s.groups
    <2>1. rest.profiles = Kept(s.profiles, A) /\ rest.groups = s.groups
      BY <1>2 DEF WellFormed
    <2>2. left.profiles = rest.profiles /\ left.groups = rest.groups
      BY <1>3, <1>2 DEF WithoutProviderRouting, WellFormed
    <2> QED
      BY <2>1, <2>2
  <1>7. left \in [profiles: {left.profiles}, groups: {left.groups}, subs: {left.subs}, blocks: {left.blocks},
                  routes: {left.routes}, active: {left.active}, dedup: {left.dedup}, legacy: {left.legacy}]
    BY <1>3, <1>2 DEF WithoutProviderRouting, WellFormed
  <1>8. m.profiles = left.profiles /\ m.groups = Disowned(Drop(left.groups, gone), u)
    BY <1>7
  <1> HIDE DEF m
  <1>9. \A k \in DOMAIN left.profiles : left.profiles[k].group \notin gone
    BY DEF OwnedGroupIsEmpty
  <1> HIDE DEF gone
  <1>10. Ids(m.groups) = Ids(Drop(s.groups, gone))
    <2>1. Drop(s.groups, gone) \in Seq(Group)
      BY <1>2, DropTyped
    <2> DEFINE q == Drop(s.groups, gone)
    <2> HIDE DEF q
    <2>2. Disowned(q, u) = [i \in DOMAIN q |-> IF q[i].owner = u THEN [q[i] EXCEPT !.owner = None] ELSE q[i]]
      BY DEF Disowned
    <2>3. \A i \in DOMAIN q : q[i] \in Group
      BY <2>1 DEF q
    <2>4. DOMAIN Disowned(q, u) = DOMAIN q /\ \A i \in DOMAIN q : Disowned(q, u)[i].id = q[i].id
      BY <2>2, <2>3 DEF Group
    <2>5. Ids(Disowned(q, u)) = Ids(q)
      BY <2>4 DEF Ids
    <2> QED
      BY <1>6, <1>8, <2>5 DEF q
  <1>11. ASSUME NEW i \in DOMAIN saved.profiles, ~OwnedBySub(saved.profiles[i], Get(saved.subs, u))
         PROVE  /\ \E j \in DOMAIN m.profiles : SameButHop(m.profiles[j], saved.profiles[i])
                /\ saved.profiles[i].group \in Ids(m.groups)
    <2>1. i \in A
      BY <1>2, <1>5, <1>11 DEF x
    <2>2. PICK k \in DOMAIN Kept(s.profiles, A) : Kept(s.profiles, A)[k] = s.profiles[i]
      BY <1>2, <1>4, <2>1, KeptAll
    <2>3. k \in DOMAIN left.profiles /\ left.profiles[k] = saved.profiles[i]
      BY <1>2, <1>6, <2>2
    <2>4. saved.profiles[i].group \notin gone /\ saved.profiles[i].group \in Ids(s.groups)
      BY <1>2, <1>9, <2>3
    <2>5. PICK g \in DOMAIN s.groups : s.groups[g].id = saved.profiles[i].group
      BY <2>4 DEF Ids
    <2>6. \E h \in DOMAIN Drop(s.groups, gone) : Drop(s.groups, gone)[h] = s.groups[g]
      <3>1. s.groups \in Seq(Group)
        BY <1>2
      <3>2. \A h \in DOMAIN s.groups : s.groups[h].id \notin gone =>
              \E e \in DOMAIN Drop(s.groups, gone) : Drop(s.groups, gone)[e] = s.groups[h]
        BY ONLY <3>1, DropIs
      <3> QED
        BY <2>4, <2>5, <3>2
    <2>7. saved.profiles[i].group \in Ids(Drop(s.groups, gone))
      BY <2>5, <2>6 DEF Ids
    <2> QED
      BY <1>8, <1>10, <2>3, <2>7 DEF SameButHop
  <1> QED
    BY <1>1, <1>11, SparesWhen

LEMMA WithdrawSpares ==
  ASSUME SettingsInv, NEW u \in Ids(saved.subs), WithdrawProviderConfigs(u)
  PROVE  Spares(u)
  <1> DEFINE s == Read
             x == Get(s.subs, u)
             A == {i \in DOMAIN s.profiles : s.profiles[i].custom /\ OwnedBySub(s.profiles[i], x)}
             gone == Ids(Kept(s.profiles, A))
             Gone(p) == p.custom /\ OwnedBySub(p, x)
             left == Where(s.profiles, LAMBDA p : p.sub = u /\ p.id \notin gone)
             subs == Upsert(s.subs, [x EXCEPT !.configs = FALSE])
             active == IF s.active \in gone THEN RefreshedId(s.profiles, s.active, u, left) ELSE s.active
             m == [s EXCEPT !.subs = subs, !.profiles = Drop(s.profiles, gone), !.active = active]
  <1>1. saved' = Chain(m)
    BY DEF WithdrawProviderConfigs, Edit, Write, Where
  <1>2. /\ WellFormed(s) /\ s.profiles = saved.profiles /\ s.subs = saved.subs
        /\ \A i \in DOMAIN saved.profiles : saved.profiles[i].group \in Ids(s.groups)
        /\ s.profiles \in Seq(Profile) /\ Distinct(s.profiles)
    BY ReadIs DEF IdsAreUnique
  <1> HIDE DEF s
  <1>3. A \in SUBSET DOMAIN s.profiles /\ \A i \in A : OwnedBySub(s.profiles[i], x)
    OBVIOUS
  <1> HIDE DEF A, subs, active
  <1>4. gone \subseteq {s.profiles[i].id : i \in A}
    BY <1>2, <1>3, KeptFrom
  <1> HIDE DEF gone
  <1>5. m.profiles = Drop(s.profiles, gone) /\ m.groups = s.groups
    BY <1>2 DEF WellFormed
  <1> HIDE DEF m, x
  <1>6. ASSUME NEW i \in DOMAIN saved.profiles, ~OwnedBySub(saved.profiles[i], Get(saved.subs, u))
        PROVE  /\ \E j \in DOMAIN m.profiles : SameButHop(m.profiles[j], saved.profiles[i])
               /\ saved.profiles[i].group \in Ids(m.groups)
    <2>1. i \in DOMAIN s.profiles /\ i \notin A
      BY <1>2, <1>3, <1>6 DEF x
    <2>2. s.profiles[i].id \notin gone
      BY <1>2, <1>3, <1>4, <2>1 DEF Distinct
    <2>3. \A h \in DOMAIN s.profiles : s.profiles[h].id \notin gone =>
            \E k \in DOMAIN Drop(s.profiles, gone) : Drop(s.profiles, gone)[k] = s.profiles[h]
      BY <1>2, DropKeeps
    <2>4. PICK k \in DOMAIN Drop(s.profiles, gone) : Drop(s.profiles, gone)[k] = s.profiles[i]
      BY <2>1, <2>2, <2>3
    <2>5. k \in DOMAIN m.profiles /\ SameButHop(m.profiles[k], saved.profiles[i])
      BY <1>2, <1>5, <2>4 DEF SameButHop
    <2> QED
      BY <1>2, <1>5, <2>5
  <1> QED
    BY <1>1, <1>6, SparesWhen

(* An answer that lands writes what it makes of the document as it is now.  *)
LEMMA LandIs ==
  ASSUME SettingsInv, NEW f \in Fetchers, NEW a \in Answers, FetchLand(f, a)
  PROVE  LET s == Read
             x == Get(s.subs, fetch[f].id)
             fresh == Mapped(s, fetch[f], a.batch)
         IN \/ saved' = saved /\ writes' = writes
            \/ /\ fetch[f].id \in Ids(s.subs) /\ x \in Asked /\ x.id = fetch[f].id
               /\ a \in Answer
               /\ fresh \in Seq(Profile) /\ Distinct(fresh) /\ Ids(fresh) \cap Ids(s.profiles) = {}
               /\ saved' = Chain(Applied(s, x, fresh, a))
  <1> DEFINE s == Read
             x == Get(s.subs, fetch[f].id)
             fresh == Mapped(s, fetch[f], a.batch)
             live == fetch[f].id \in Ids(s.subs) /\ (f = "tick" => x.enabled)
  <1>1. /\ fetch[f] # None /\ Cardinality(Unused(s, FreshIds)) >= Len(a.batch)
        /\ IF live THEN Write(Applied(s, x, fresh, a)) ELSE UNCHANGED <<saved, writes>>
    BY DEF FetchLand
  <1>2. WellFormed(s) /\ s.subs \in Seq(Asked)
    BY ReadIs, FieldsTyped
  <1>3. fetch[f] \in Subscription
    BY <1>1 DEF SettingsInv, FetchTyped
  <1>4. a \in Answer /\ a.batch \in Seq([name: Names, end: Ends, custom: BOOLEAN])
    <2>1. a \in Answer
      BY InputsAssumption
    <2> QED
      BY <2>1 DEF Answer
  <1> HIDE DEF s
  <1>5. fresh \in Seq(Profile) /\ Distinct(fresh) /\ Ids(fresh) \cap Ids(s.profiles) = {}
    BY <1>1, <1>3, <1>4, MappedTyped, MappedUnique
  <1> HIDE DEF fresh
  <1>6. CASE live
    <2>1. x \in Asked /\ x.id = fetch[f].id
      BY <1>2, <1>6, GetTyped
    <2>2. saved' = Chain(Applied(s, x, fresh, a))
      BY <1>1, <1>6 DEF Write
    <2> QED
      BY <1>4, <1>5, <1>6, <2>1, <2>2 DEF s, fresh
  <1>7. CASE ~live
    BY <1>1, <1>7
  <1> QED
    BY <1>6, <1>7

(* A failed fetch writes the document as it is but for what is asked.       *)
LEMMA FailIs ==
  ASSUME SettingsInv, NEW f \in Fetchers, NEW consent, FetchFail(f, consent)
  PROVE  \/ saved' = saved
         \/ \E m : /\ saved' = Chain(m) /\ m.profiles = Read.profiles /\ m.groups = Read.groups
                   /\ m.active = Read.active
  <1> DEFINE s == Read
             id == fetch[f].id
             x == Get(s.subs, id)
             asks == IF consent /\ ~x.configs THEN {"configs"} \ x.answered ELSE {}
             us == Upsert(s.subs, [x EXCEPT !.pending = @ \cup asks])
  <1>1. IF id \in Ids(s.subs) THEN Write([s EXCEPT !.subs = us]) ELSE UNCHANGED <<saved, writes>>
    BY DEF FetchFail
  <1>2. WellFormed(s)
    BY ReadIs
  <1> HIDE DEF s, us
  <1>3. CASE id \in Ids(s.subs)
    <2> DEFINE m == [s EXCEPT !.subs = us]
    <2>1. saved' = Chain(m)
      BY <1>1, <1>3 DEF Write
    <2>2. m.profiles = s.profiles /\ m.groups = s.groups /\ m.active = s.active
      BY <1>2 DEF WellFormed
    <2> HIDE DEF m
    <2> QED
      BY <2>1, <2>2 DEF s
  <1>4. CASE id \notin Ids(s.subs)
    BY <1>1, <1>4
  <1> QED
    BY <1>3, <1>4

(* An answer that lands while nothing is deduplicated spares what the       *)
(* subscription does not own.                                               *)
LEMMA LandSpares ==
  ASSUME SettingsInv, NEW u \in Ids(saved.subs), NEW f \in Fetchers, fetch[f].id = u,
         ~saved.dedup, NEW a \in Answers, FetchLand(f, a)
  PROVE  Spares(u)
  <1> DEFINE s == Read
             x == Get(s.subs, u)
             fresh == Mapped(s, fetch[f], a.batch)
             w == Applied(s, x, fresh, a)
             ps == RefreshedProfiles(s, x, fresh)
  <1>1. CASE saved' = saved
    BY <1>1 DEF Spares
  <1>2. CASE saved' # saved
    <2>1. /\ x \in Asked /\ a \in Answer /\ fresh \in Seq(Profile) /\ saved' = Chain(w)
      BY <1>2, LandIs
    <2>2. /\ WellFormed(s) /\ s.profiles = saved.profiles /\ s.subs = saved.subs /\ ~s.dedup
          /\ \A i \in DOMAIN saved.profiles : saved.profiles[i].group \in Ids(s.groups)
      BY ReadIs
    <2> HIDE DEF s, x, fresh
    <2>3. w.profiles = ps /\ Ids(w.groups) = Ids(s.groups)
      BY <2>1, <2>2, AppliedIs
    <2>4. \A i \in DOMAIN s.profiles :
            ~OwnedBySub(s.profiles[i], x) => \E j \in DOMAIN ps : SameButHop(ps[j], s.profiles[i])
      BY <2>1, <2>2, RefreshedIs
    <2> HIDE DEF w, ps
    <2>5. \A i \in DOMAIN saved.profiles : ~OwnedBySub(saved.profiles[i], Get(saved.subs, u)) =>
            /\ \E j \in DOMAIN w.profiles : SameButHop(w.profiles[j], saved.profiles[i])
            /\ saved.profiles[i].group \in Ids(w.groups)
      BY <2>2, <2>3, <2>4 DEF x
    <2> QED
      BY <2>1, <2>5, SparesWhen
  <1> QED
    BY <1>1, <1>2

LEMMA FailSpares ==
  ASSUME SettingsInv, NEW u \in Ids(saved.subs), NEW f \in Fetchers, NEW consent, FetchFail(f, consent)
  PROVE  Spares(u)
  <1>1. CASE saved' = saved
    BY <1>1 DEF Spares
  <1>2. ASSUME NEW m, saved' = Chain(m), m.profiles = Read.profiles, m.groups = Read.groups
        PROVE  Spares(u)
    <2>1. /\ Read.profiles = saved.profiles
          /\ \A i \in DOMAIN saved.profiles : saved.profiles[i].group \in Ids(Read.groups)
      BY ReadIs
    <2>2. \A i \in DOMAIN saved.profiles :
            /\ \E j \in DOMAIN m.profiles : SameButHop(m.profiles[j], saved.profiles[i])
            /\ saved.profiles[i].group \in Ids(m.groups)
      BY <1>2, <2>1 DEF SameButHop
    <2> QED
      BY <1>2, <2>2, SparesWhen
  <1> QED
    BY <1>1, <1>2, FailIs

LEMMA StepSpares ==
  ASSUME SettingsInv, [Next]_vars, NEW u \in Ids(saved.subs), TakesBackFrom(u)
  PROVE  Spares(u)
  <1>1. CASE \E gone \in BOOLEAN : RemoveSub(u, gone)
    BY <1>1, RemoveSubSpares
  <1>2. CASE WithdrawProviderConfigs(u)
    BY <1>2, WithdrawSpares
  <1>3. ASSUME NEW f \in Fetchers, Landed(f), fetch[f].id = u, ~saved.dedup
        PROVE  Spares(u)
    <2>1. \/ \E a \in Answers : FetchLand(f, a)
          \/ \E consent \in BOOLEAN : FetchFail(f, consent)
      BY <1>3, LandedIs DEF SettingsInv
    <2> QED
      BY <1>3, <2>1, LandSpares, FailSpares
  <1> QED
    BY <1>1, <1>2, <1>3 DEF TakesBackFrom

(* What says which server a profile is, and whose. *)
SameSelf(p, q) ==
  p.id = q.id /\ p.name = q.name /\ p.end = q.end /\ p.custom = q.custom /\ p.sub = q.sub

(* An active profile comes through a deduplication and the chain: it stays  *)
(* active, and is found by its id (deduplicate_profiles, default_chain).    *)
LEMMA ChosenSurvives ==
  ASSUME NEW w, NEW ps \in Seq(Profile), Distinct(ps), NEW i \in DOMAIN ps, NEW dedup \in BOOLEAN, NEW scope,
         w.active = ps[i].id,
         w.profiles = IF dedup THEN Deduplicated(ps, w.active, scope) ELSE ps
  PROVE  /\ ps[i].id \in Ids(w.profiles) /\ Chain(w).active = ps[i].id
         /\ SameSelf(Get(Chain(w).profiles, ps[i].id), ps[i])
  <1> DEFINE q == w.profiles
             t == Chain(w).profiles
  <1>1. q \in Seq(Profile) /\ Distinct(q) /\ \E k \in DOMAIN q : q[k] = ps[i]
    <2>1. CASE dedup
      <3>1. q = Deduplicated(ps, w.active, scope)
        BY <2>1
      <3> HIDE DEF q
      <3>2. q \in Seq(Profile)
        BY <3>1, DeduplicatedTyped
      <3>3. Distinct(q)
        BY <3>1, DeduplicatedUnique
      <3>4. \E k \in DOMAIN Deduplicated(ps, ps[i].id, scope) : Deduplicated(ps, ps[i].id, scope)[k] = ps[i]
        BY DedupKeeps
      <3> QED
        BY <3>1, <3>2, <3>3, <3>4
    <2>2. CASE ~dedup
      BY <2>2
    <2> QED
      BY <2>1, <2>2
  <1>2. PICK k \in DOMAIN q : q[k] = ps[i]
    BY <1>1
  <1>3. ps[i].id \in Ids(q)
    BY <1>2 DEF Ids
  <1>4. Chain(w).active = ps[i].id /\ t = [j \in DOMAIN q |-> ProfileAfter(w, q[j])]
    BY <1>3, ChainKeeps
  <1> DEFINE T == {ProfileAfter(w, q[j]) : j \in DOMAIN q}
  <1>5. t \in [DOMAIN q -> T]
    BY <1>4
  <1> HIDE DEF q, t, T
  <1>6. t \in Seq(T)
    BY <1>1, <1>5, MapTyped
  <1>7. DOMAIN t = DOMAIN q /\ \A j \in DOMAIN q : SameSelf(t[j], q[j])
    BY <1>4 DEF ProfileAfter, SameSelf
  <1>8. Distinct(t)
    BY <1>1, <1>7, SameIdsDistinct DEF SameSelf
  <1>9. Get(t, t[k].id) = t[k]
    BY <1>2, <1>6, <1>7, <1>8, FoundById
  <1>10. Get(t, ps[i].id) = t[k] /\ SameSelf(t[k], ps[i])
    BY <1>2, <1>7, <1>9 DEF SameSelf
  <1> QED
    BY <1>3, <1>4, <1>10 DEF q, t

(* The active profile, once looked up. *)
LEMMA ChosenIs ==
  ASSUME SettingsInv, saved.active # None
  PROVE  /\ saved.active \in Ids(saved.profiles)
         /\ \E i \in DOMAIN saved.profiles :
              Get(saved.profiles, saved.active) = saved.profiles[i] /\ saved.profiles[i].id = saved.active
  <1>1. /\ Read.profiles = saved.profiles /\ Read.active = saved.active /\ ProfilesResolve(Read)
        /\ saved.profiles \in Seq(Profile)
    BY ReadIs, ReadIsSaved
  <1>2. saved.active \in Ids(saved.profiles)
    BY <1>1 DEF ProfilesResolve
  <1>3. IndexOf(saved.profiles, saved.active) \in DOMAIN saved.profiles
        /\ saved.profiles[IndexOf(saved.profiles, saved.active)].id = saved.active
    BY <1>1, <1>2, FirstWith
  <1> QED
    BY <1>2, <1>3 DEF Get

(* An answer leaves an active profile of another origin active. *)
LEMMA LandKeepsOthersChoice ==
  ASSUME SettingsInv, NEW f \in Fetchers, NEW a \in Answers, FetchLand(f, a), saved.active # None,
         Get(saved.profiles, saved.active).sub # fetch[f].id
  PROVE  saved'.active = saved.active
  <1> DEFINE s == Read
             x == Get(s.subs, fetch[f].id)
             fresh == Mapped(s, fetch[f], a.batch)
             w == Applied(s, x, fresh, a)
             ps == RefreshedProfiles(s, x, fresh)
  <1>1. CASE saved' = saved
    BY <1>1
  <1>2. CASE saved' # saved
    <2>1. /\ x \in Asked /\ x.id = fetch[f].id /\ a \in Answer
          /\ fresh \in Seq(Profile) /\ Distinct(fresh) /\ Ids(fresh) \cap Ids(s.profiles) = {}
          /\ saved' = Chain(w)
      BY <1>2, LandIs
    <2>2. /\ WellFormed(s) /\ IdsAreUnique(s) /\ s.profiles = saved.profiles /\ s.active = saved.active
          /\ s.dedup \in BOOLEAN
      BY ReadIs, FieldsTyped
    <2>3. PICK i \in DOMAIN saved.profiles :
            Get(saved.profiles, saved.active) = saved.profiles[i] /\ saved.profiles[i].id = saved.active
      BY ChosenIs
    <2>4. saved.active \in Ids(saved.profiles)
      BY ChosenIs
    <2> HIDE DEF s, x, fresh
    <2>5. RefreshedId(s.profiles, s.active, x.id, fresh) = saved.active
      BY <2>1, <2>2, <2>4, RefreshedIdIs
    <2>6. /\ w.active = saved.active
          /\ w.profiles = IF s.dedup THEN Deduplicated(ps, w.active, x.target) ELSE ps
      BY <2>1, <2>2, <2>5, AppliedIs
    <2>7. ps \in Seq(Profile) /\ Distinct(ps)
      BY <2>1, <2>2, RefreshedProfilesTyped, RefreshedProfilesUnique
    <2>8. ~OwnedBySub(s.profiles[i], x)
      BY <2>1, <2>2, <2>3 DEF OwnedBySub
    <2>9. \E j \in DOMAIN ps : SameButHop(ps[j], s.profiles[i])
      BY <2>1, <2>2, <2>3, <2>8, RefreshedIs
    <2> HIDE DEF w, ps
    <2>10. PICK j \in DOMAIN ps : ps[j].id = saved.active
      BY <2>2, <2>3, <2>9 DEF SameButHop
    <2>11. Chain(w).active = ps[j].id
      BY <2>2, <2>6, <2>7, <2>10, ChosenSurvives
    <2> QED
      BY <2>1, <2>10, <2>11
  <1> QED
    BY <1>1, <1>2

(* One that the new batch carries again is active under its new id, on the  *)
(* route that listed it or on an earlier one, which then listed a profile   *)
(* that came back as the same (repoint_profile_ids, normalize_routes).      *)
LEMMA LandKeepsChoice ==
  ASSUME SettingsInv, NEW f \in Fetchers, NEW a \in Answers, FetchLand(f, a), writes' # writes,
         saved.active # None, Get(saved.profiles, saved.active).sub = fetch[f].id,
         Carries(a.batch, Get(saved.profiles, saved.active))
  PROVE  LET old == Get(saved.profiles, saved.active)
             new == Get(saved'.profiles, saved'.active)
         IN /\ saved'.active # None
            /\ SameIdentity(new, old)
            /\ \A r \in DOMAIN saved.routes :
                 saved.active \in saved.routes[r].profiles => StaysRouted(old, new, r)
  <1> DEFINE s == Read
             x == Get(s.subs, fetch[f].id)
             fresh == Mapped(s, fetch[f], a.batch)
             w == Applied(s, x, fresh, a)
             ps == RefreshedProfiles(s, x, fresh)
             old == Get(saved.profiles, saved.active)
             new == Get(saved'.profiles, saved'.active)
             Moved(p) == RefreshedId(s.profiles, p, x.id, fresh)
             n == Moved(saved.active)
  <1>1. /\ x \in Asked /\ x.id = fetch[f].id /\ a \in Answer
        /\ fresh \in Seq(Profile) /\ Distinct(fresh) /\ Ids(fresh) \cap Ids(s.profiles) = {}
        /\ saved' = Chain(w)
    BY LandIs
  <1>2. /\ WellFormed(s) /\ IdsAreUnique(s) /\ s.profiles = saved.profiles /\ s.active = saved.active
        /\ s.dedup \in BOOLEAN
    BY ReadIs, FieldsTyped
  <1>3. /\ s.routes = saved.routes /\ s.legacy = None /\ RoutesResolve(s)
        /\ 1 \in DOMAIN s.routes /\ s.routes[1].id = Default
    BY ReadIsSaved, ReadHasDefault
  <1>4. saved.active \in Ids(s.profiles)
    BY <1>2, ChosenIs
  <1>5. PICK c \in DOMAIN a.batch : SameIdentity(a.batch[c], old)
    BY DEF Carries
  <1>6. c \in DOMAIN fresh /\ SameIdentity(fresh[c], old)
    <2>1. /\ c \in DOMAIN fresh /\ fresh[c].name = a.batch[c].name /\ fresh[c].end = a.batch[c].end
          /\ fresh[c].custom = a.batch[c].custom
      BY <1>5, MappedIs
    <2> HIDE DEF fresh, old
    <2> QED
      BY <1>5, <2>1 DEF SameIdentity
  <1> HIDE DEF s, x, fresh
  <1>7. PICK k \in DOMAIN fresh : fresh[k].id = n /\ SameIdentity(fresh[k], old)
    <2>1. old = Get(s.profiles, saved.active) /\ old.sub = x.id
      BY <1>1, <1>2
    <2> QED
      BY <1>1, <1>4, <1>6, <2>1, RefreshedIdIs
  <1>8. ps \in Seq(Profile) /\ Distinct(ps)
    BY <1>1, <1>2, RefreshedProfilesTyped, RefreshedProfilesUnique
  <1>9. PICK i \in DOMAIN ps : SameButHop(ps[i], fresh[k])
    BY <1>1, <1>2, <1>7, RefreshedIs
  <1>10. n \in AllProfiles /\ n # None
    <2>1. fresh[k] \in Profile
      BY <1>1, <1>7
    <2>2. fresh[k].id \in AllProfiles
      BY <2>1 DEF Profile
    <2> HIDE DEF n
    <2> QED
      BY <1>7, <2>2, IdsAssumption
  <1>11. /\ w.active = n /\ w.legacy = None /\ DOMAIN w.routes = DOMAIN s.routes
         /\ w.profiles = IF s.dedup THEN Deduplicated(ps, w.active, x.target) ELSE ps
         /\ \A j \in DOMAIN s.routes :
              /\ w.routes[j].id = s.routes[j].id
              /\ w.routes[j].profiles = {Moved(p) : p \in s.routes[j].profiles} \ {None}
    BY <1>1, <1>2, <1>3, AppliedIs
  <1>12. WellFormed(w)
    BY <1>1, <1>2, AppliedTyped
  <1> HIDE DEF w, ps, n
  <1>13. /\ n \in Ids(w.profiles) /\ Chain(w).active = n
         /\ SameSelf(Get(Chain(w).profiles, n), ps[i])
    <2>1. ps[i].id = n
      BY <1>7, <1>9 DEF SameButHop
    <2>2. /\ ps \in Seq(Profile) /\ Distinct(ps) /\ i \in DOMAIN ps /\ s.dedup \in BOOLEAN
          /\ w.active = ps[i].id
          /\ w.profiles = IF s.dedup THEN Deduplicated(ps, w.active, x.target) ELSE ps
      BY <1>2, <1>8, <1>9, <1>11, <2>1
    <2>3. /\ ps[i].id \in Ids(w.profiles) /\ Chain(w).active = ps[i].id
          /\ SameSelf(Get(Chain(w).profiles, ps[i].id), ps[i])
      BY ONLY <2>2, ChosenSurvives
    <2> QED
      BY <2>1, <2>3
  <1>14. saved'.active = n /\ SameSelf(new, fresh[k]) /\ new.id = n
    BY <1>1, <1>7, <1>9, <1>13 DEF SameButHop, SameSelf
  <1> HIDE DEF new, old
  <1>15. SameIdentity(new, old)
    BY <1>7, <1>14 DEF SameSelf, SameIdentity
  <1>16. ASSUME NEW r \in DOMAIN saved.routes, saved.active \in saved.routes[r].profiles
         PROVE  StaysRouted(old, new, r)
    <2> DEFINE J == {j \in 1 .. r : n \in w.routes[j].profiles}
    <2>1. r \in DOMAIN s.routes /\ DOMAIN s.routes = 1 .. Len(s.routes) /\ Len(s.routes) \in Nat
      BY <1>2, <1>3, <1>16, FieldsTyped
    <2>2. r \in Nat /\ r \in 1 .. r /\ 1 .. r \subseteq DOMAIN s.routes
      BY <2>1
    <2>3. n \in w.routes[r].profiles
      BY <1>3, <1>10, <1>11, <1>16, <2>1 DEF n
    <2>4. PICK j \in J : \A h \in J : j <= h
      <3>1. J \in SUBSET (1 .. r) /\ J # {}
        BY <2>2, <2>3
      <3> HIDE DEF J
      <3> QED
        BY <2>2, <3>1, LeastOf
    <2>5. /\ j \in DOMAIN s.routes /\ n \in w.routes[j].profiles
          /\ \A h \in {g \in DOMAIN w.routes : g < j} : n \notin w.routes[h].profiles
      BY <1>11, <2>1, <2>2, <2>4
    <2>6. n \in saved'.routes[j].profiles
      <3>1. 1 \in DOMAIN w.routes /\ w.routes[1].id = Default
        BY <1>3, <1>11
      <3>2. Chain(w).routes[j].profiles =
              {p \in w.routes[j].profiles \cap Ids(w.profiles) :
                 \A h \in {g \in DOMAIN w.routes : g < j} : p \notin w.routes[h].profiles}
        <4>1. WellFormed(w) /\ w.legacy = None /\ j \in DOMAIN w.routes
          BY <1>11, <1>12, <2>5
        <4>2. \A h \in DOMAIN w.routes : Chain(w).routes[h].profiles =
                {p \in w.routes[h].profiles \cap Ids(w.profiles) :
                   \A g \in {e \in DOMAIN w.routes : e < h} : p \notin w.routes[g].profiles}
          BY ONLY <4>1, <3>1, ChainRoutes
        <4> QED
          BY <4>1, <4>2
      <3> QED
        BY <1>1, <1>13, <2>5, <3>2
    <2>7. ASSUME j # r PROVE \E p \in saved.routes[j].profiles : BackAsOne(Get(saved.profiles, p), old, new)
      <3>1. PICK p \in s.routes[j].profiles : Moved(p) = n
        BY <1>11, <2>5
      <3>2. p \in Ids(s.profiles)
        BY <1>3, <2>5, <3>1 DEF RoutesResolve
      <3>3. n \notin Ids(s.profiles)
        BY <1>1, <1>7 DEF Ids
      <3> DEFINE q == Get(s.profiles, p)
      <3>4. q.sub = x.id /\ \E h \in DOMAIN fresh : fresh[h].id = n /\ (SameIdentity(fresh[h], q) \/ fresh[h].name = q.name)
        BY <1>1, <1>10, <3>1, <3>2, <3>3, RefreshedIdIs
      <3> HIDE DEF q
      <3>5. SameIdentity(fresh[k], q) \/ fresh[k].name = q.name
        BY <1>1, <1>7, <3>4 DEF Distinct
      <3>6. q.sub = old.sub
        BY <1>1, <3>4 DEF old
      <3>7. CASE SameIdentity(fresh[k], q)
        <4>1. SameIdentity(q, old)
          BY <1>7, <3>7 DEF SameIdentity
        <4> QED
          BY <1>2, <1>3, <3>1, <3>6, <4>1 DEF BackAsOne, q
      <3>8. CASE fresh[k].name = q.name
        <4>1. q.name = new.name
          BY <1>14, <3>8 DEF SameSelf
        <4> QED
          BY <1>2, <1>3, <3>1, <3>6, <4>1 DEF BackAsOne, q
      <3> QED
        BY <3>5, <3>7, <3>8
    <2> QED
      BY <1>14, <2>4, <2>6, <2>7 DEF StaysRouted
  <1> QED
    BY <1>10, <1>14, <1>15, <1>16 DEF old, new

(* A fetch that ends and leaves the active profile to another origin leaves *)
(* it active.                                                               *)
LEMMA StepKeepsOthersChoice ==
  ASSUME SettingsInv, [Next]_vars, NEW f \in Fetchers, Landed(f), saved.active # None,
         Get(saved.profiles, saved.active).sub # fetch[f].id
  PROVE  saved'.active = saved.active
  <1>1. ASSUME NEW a \in Answers, FetchLand(f, a) PROVE saved'.active = saved.active
    BY <1>1, LandKeepsOthersChoice
  <1>2. ASSUME NEW consent, FetchFail(f, consent) PROVE saved'.active = saved.active
    <2>1. /\ Read.profiles = saved.profiles /\ Read.active = saved.active
          /\ saved.active \in Ids(saved.profiles)
      BY ReadIs, ChosenIs
    <2>2. ASSUME NEW m, saved' = Chain(m), m.profiles = Read.profiles, m.active = Read.active
          PROVE  saved'.active = saved.active
      BY <2>1, <2>2, ChainKeeps
    <2> QED
      BY <1>2, <2>2, FailIs
  <1> QED
    BY <1>1, <1>2, LandedIs DEF SettingsInv

(* A refresh takes back what the subscription owns and nothing else, and    *)
(* keeps what the user chose (apply, apply_subscription_profiles,           *)
(* repoint_profile_ids, deduplicate_profiles).                              *)
THEOREM RefreshTakesItsOwn == Spec => RefreshKeepsTheirs
  <1> DEFINE Spared ==
               \A u \in Ids(saved.subs) : TakesBackFrom(u) =>
                 \A i \in DOMAIN saved.profiles :
                   LET p == saved.profiles[i]
                       target == Get(saved.subs, u).target
                   IN \/ p.sub = u /\ target \in {None, p.group}
                      \/ \E j \in DOMAIN saved'.profiles :
                           saved'.profiles[j].id = p.id /\ saved'.profiles[j].group = p.group
             Chosen ==
               \A f \in Fetchers :
                 Landed(f) /\ writes' # writes /\ saved.active # None =>
                   LET old == Get(saved.profiles, saved.active)
                       new == Get(saved'.profiles, saved'.active)
                   IN /\ old.sub # fetch[f].id => saved'.active = saved.active
                      /\ \A a \in Answers :
                           /\ old.sub = fetch[f].id /\ Carries(a.batch, old)
                           /\ FetchLand(f, a)
                           => /\ saved'.active # None
                              /\ SameIdentity(new, old)
                              /\ \A r \in DOMAIN saved.routes :
                                   saved.active \in saved.routes[r].profiles
                                     => StaysRouted(old, new, r)
  <1>1. SettingsInv /\ [Next]_vars => Spared
    BY StepSpares DEF Spares
  <1>2. SettingsInv /\ [Next]_vars => Chosen
    <2> SUFFICES ASSUME SettingsInv, [Next]_vars, NEW f \in Fetchers, Landed(f), writes' # writes,
                        saved.active # None
                 PROVE  LET old == Get(saved.profiles, saved.active)
                            new == Get(saved'.profiles, saved'.active)
                        IN /\ old.sub # fetch[f].id => saved'.active = saved.active
                           /\ \A a \in Answers :
                                /\ old.sub = fetch[f].id /\ Carries(a.batch, old)
                                /\ FetchLand(f, a)
                                => /\ saved'.active # None
                                   /\ SameIdentity(new, old)
                                   /\ \A r \in DOMAIN saved.routes :
                                        saved.active \in saved.routes[r].profiles
                                          => StaysRouted(old, new, r)
      OBVIOUS
    <2>1. Get(saved.profiles, saved.active).sub # fetch[f].id => saved'.active = saved.active
      BY StepKeepsOthersChoice
    <2> QED
      BY <2>1, LandKeepsChoice
  <1>3. SettingsInv /\ [Next]_vars => [Spared]_vars /\ [Chosen]_vars
    BY <1>1, <1>2
  <1> QED
    BY <1>3, AlwaysSettingsInv, PTL DEF Spec, RefreshKeepsTheirs, TheirsSurvive, RefreshKeepsChoice

-----------------------------------------------------------------------------
(* What a restore leads to *)

(* Adding what is kept of another list keeps every item at its place and    *)
(* adds each kept one.                                                      *)
LEMMA TakenOver ==
  ASSUME NEW S, NEW q \in Seq(S), NEW r \in Seq(S), NEW A \in SUBSET DOMAIN r
  PROVE  LET all == q \o Kept(r, A) IN
         /\ \A i \in DOMAIN q : i \in DOMAIN all /\ all[i] = q[i]
         /\ \A j \in DOMAIN all : all[j].id \in Ids(q) \/ \E i \in A : all[j] = r[i]
         /\ Ids(all) = Ids(q) \cup {r[i].id : i \in A}
  <1> DEFINE new == Kept(r, A)
             n == Len(q)
             all == q \o new
  <1>1. new \in Seq(S)
    BY KeptTyped
  <1>2. \A k \in DOMAIN new : \E i \in A : new[k] = r[i]
    BY KeptFrom
  <1>3. \A i \in A : \E k \in DOMAIN new : new[k] = r[i]
    BY KeptAll
  <1> HIDE DEF new
  <1>4. /\ n \in Nat /\ Len(new) \in Nat /\ DOMAIN q = 1 .. n /\ DOMAIN new = 1 .. Len(new)
        /\ DOMAIN all = 1 .. (n + Len(new))
        /\ \A i \in 1 .. (n + Len(new)) : all[i] = IF i <= n THEN q[i] ELSE new[i - n]
    BY <1>1
  <1> HIDE DEF n, all
  <1>5. \A i \in DOMAIN q : i \in DOMAIN all /\ all[i] = q[i]
    BY <1>4
  <1>6. ASSUME NEW j \in DOMAIN all PROVE all[j].id \in Ids(q) \/ \E i \in A : all[j] = r[i]
    <2>1. CASE j <= n
      BY <1>4, <2>1 DEF Ids
    <2>2. CASE ~(j <= n)
      <3>1. j - n \in DOMAIN new /\ all[j] = new[j - n]
        BY <1>4, <2>2
      <3> QED
        BY <1>2, <3>1
    <2> QED
      BY <2>1, <2>2
  <1>7. Ids(all) = Ids(q) \cup Ids(new)
    BY <1>1, ConcatFrom DEF all
  <1>8. Ids(new) = {r[i].id : i \in A}
    BY <1>2, <1>3 DEF Ids
  <1> QED
    BY <1>5, <1>6, <1>7, <1>8 DEF all, new

(* Whom an id of the backup stands for here: an item with that id, else one *)
(* that is the same, else nobody, and then it is kept (matched_ids).        *)
LEMMA MatchedIdIs ==
  ASSUME NEW kind, NEW S, NEW current \in Seq(S), NEW incoming, NEW id
  PROVE  LET m == MatchedId(kind, current, incoming, id) IN
         /\ m # id => \E i \in DOMAIN current :
              current[i].id = m /\ SameItem(kind, current[i], Get(incoming, id))
         /\ m = id /\ id \notin Ids(current) /\ id \in Ids(incoming) =>
              \A i \in DOMAIN current : ~SameItem(kind, current[i], Get(incoming, id))
  <1> DEFINE X == {i \in 1 .. Len(current) : SameItem(kind, current[i], Get(incoming, id))}
             k == SelectInSeq(current, LAMBDA x : SameItem(kind, x, Get(incoming, id)))
             m == MatchedId(kind, current, incoming, id)
  <1>1. k = IF X # {} THEN Min(X) ELSE 0
    BY DEF SelectInSeq
  <1>2. X \in SUBSET (1 .. Len(current)) /\ Len(current) \in Nat /\ DOMAIN current = 1 .. Len(current)
    OBVIOUS
  <1>3. m = IF id \in Ids(current) \/ id \notin Ids(incoming) THEN id
            ELSE IF k = 0 THEN id ELSE current[k].id
    BY DEF MatchedId
  <1>4. /\ \A i \in X : i \in DOMAIN current /\ SameItem(kind, current[i], Get(incoming, id))
        /\ \A i \in DOMAIN current : SameItem(kind, current[i], Get(incoming, id)) => i \in X
    BY <1>2
  <1> HIDE DEF X, k, m
  <1>5. k # 0 => k \in X
    BY <1>1, <1>2, LeastIsMin
  <1>6. X # {} => k # 0
    <2>1. X # {} => k \in 1 .. Len(current)
      BY <1>1, <1>2, LeastIsMin
    <2> QED
      BY <2>1
  <1>7. m # id => \E i \in DOMAIN current :
          current[i].id = m /\ SameItem(kind, current[i], Get(incoming, id))
    BY <1>3, <1>4, <1>5
  <1>8. m = id /\ id \notin Ids(current) /\ id \in Ids(incoming) =>
          \A i \in DOMAIN current : ~SameItem(kind, current[i], Get(incoming, id))
    <2> SUFFICES ASSUME m = id, id \notin Ids(current), id \in Ids(incoming), k # 0 PROVE FALSE
      BY <1>4, <1>6
    <2>1. current[k].id = id /\ k \in DOMAIN current
      BY <1>3, <1>4, <1>5
    <2> QED
      BY <2>1 DEF Ids
  <1> QED
    BY <1>7, <1>8 DEF m

ProfileHere(s, doc, id) == MatchedId("profile", s.profiles, doc.profiles, id)
SubHere(s, doc, id) == MatchedId("sub", s.subs, doc.subs, id)

(* What a merge leaves of the profiles: those here in their places, and     *)
(* those of the backup that are nobody here, pointing to whom the backup's  *)
(* hop and subscription stand for here (merge_backup).                      *)
LEMMA MergedIs ==
  ASSUME NEW s, WellFormed(s), NEW doc, WellFormed(doc)
  PROVE  LET m == Merged(s, doc) IN
         /\ \A i \in DOMAIN s.profiles : i \in DOMAIN m.profiles /\ m.profiles[i] = s.profiles[i]
         /\ \A j \in DOMAIN m.profiles :
              \/ m.profiles[j].id \in Ids(s.profiles)
              \/ \E i \in DOMAIN doc.profiles :
                   LET p == m.profiles[j]
                       x == doc.profiles[i]
                   IN /\ p.id = x.id /\ p.name = x.name /\ p.end = x.end /\ p.custom = x.custom
                      /\ p.sub = SubHere(s, doc, x.sub) /\ p.via = ProfileHere(s, doc, x.via)
                      /\ ProfileHere(s, doc, x.id) = x.id
         /\ Ids(s.profiles) \subseteq Ids(m.profiles)
         /\ \A id \in Ids(doc.profiles) : ProfileHere(s, doc, id) = id => id \in Ids(m.profiles)
         /\ Ids(s.groups) \subseteq Ids(m.groups)
         /\ Ids(s.subs) \subseteq Ids(m.subs)
         /\ \A id \in Ids(doc.subs) : SubHere(s, doc, id) = id => id \in Ids(m.subs)
  <1> DEFINE d == FoldLegacyRules(doc)
             GroupOf(id) == MatchedId("group", s.groups, d.groups, id)
             SubOf(id) == MatchedId("sub", s.subs, d.subs, id)
             ProfileOf(id) == MatchedId("profile", s.profiles, d.profiles, id)
             FixP(p) == [p EXCEPT !.group = GroupOf(@), !.sub = SubOf(@), !.via = ProfileOf(@)]
             FixG(g) == [g EXCEPT !.owner = SubOf(@)]
             FixU(u) == [u EXCEPT !.target = GroupOf(@)]
             profiles == [i \in DOMAIN d.profiles |-> FixP(d.profiles[i])]
             groups == [i \in DOMAIN d.groups |-> FixG(d.groups[i])]
             subs == [i \in DOMAIN d.subs |-> FixU(d.subs[i])]
             AP == {i \in DOMAIN profiles : profiles[i].id \notin Ids(s.profiles) /\ ProfileOf(profiles[i].id) = profiles[i].id}
             AG == {i \in DOMAIN groups : groups[i].id \notin Ids(s.groups) /\ GroupOf(groups[i].id) = groups[i].id}
             AU == {i \in DOMAIN subs : subs[i].id \notin Ids(s.subs) /\ SubOf(subs[i].id) = subs[i].id}
             P == s.profiles \o Kept(profiles, AP)
             G == s.groups \o Kept(groups, AG)
             U == s.subs \o Kept(subs, AU)
             m == Merged(s, doc)
  <1>1. m.profiles = P /\ m.groups = G /\ m.subs = U
    BY DEF Merged, Where, Doc
  <1>2. d.profiles = doc.profiles /\ d.groups = doc.groups /\ d.subs = doc.subs
    BY LegacyRule
  <1>3. /\ d.profiles \in Seq(Profile) /\ d.groups \in Seq(Group) /\ d.subs \in Seq(Asked)
    BY <1>2, FieldsTyped
  <1>4. /\ s.profiles \in Seq(Profile) /\ s.groups \in Seq(Group) /\ s.subs \in Seq(Asked)
    BY FieldsTyped
  <1> HIDE DEF d, m
  <1>5. /\ \A id \in SubIds \cup {None} : SubOf(id) \in SubIds \cup {id}
        /\ \A id \in AllProfiles \cup {None} : ProfileOf(id) \in AllProfiles \cup {id}
        /\ \A id \in Groups \cup {None} : GroupOf(id) \in Groups \cup {id}
    BY <1>4, IdsTyped, MatchedIdTyped
  <1>6. \A id : ProfileOf(id) = ProfileHere(s, doc, id) /\ SubOf(id) = SubHere(s, doc, id)
    BY <1>2 DEF ProfileHere, SubHere
  <1> HIDE DEF GroupOf, SubOf, ProfileOf
  <1>7. \A p \in Profile : /\ FixP(p) \in Profile /\ FixP(p).id = p.id /\ FixP(p).name = p.name
                           /\ FixP(p).end = p.end /\ FixP(p).custom = p.custom
                           /\ FixP(p).sub = SubOf(p.sub) /\ FixP(p).via = ProfileOf(p.via)
    BY <1>5, Zenon DEF Profile
  <1>8. \A g \in Group : FixG(g) \in Group
    BY <1>5 DEF Group
  <1>9. \A u \in Asked : FixU(u) \in Asked /\ FixU(u).id = u.id
    <2>1. \A u \in Asked : FixU(u) \in Subscription /\ FixU(u).id = u.id
      BY <1>5 DEF Asked, Subscription
    <2>2. \A u \in Asked : AsksOnce(FixU(u))
      BY DEF Asked, Subscription, AsksOnce
    <2> QED
      BY <2>1, <2>2 DEF Asked
  <1> HIDE DEF FixP, FixG, FixU
  <1>10. profiles \in Seq(Profile) /\ groups \in Seq(Group) /\ subs \in Seq(Asked)
    <2>1. \A i \in DOMAIN d.profiles : profiles[i] \in Profile
      BY <1>3, <1>7
    <2>2. \A i \in DOMAIN d.groups : groups[i] \in Group
      BY <1>3, <1>8
    <2>3. \A i \in DOMAIN d.subs : subs[i] \in Asked
      BY <1>3, <1>9
    <2> QED
      BY <2>1, <2>2, <2>3, <1>3, MapTyped
  <1>11. /\ DOMAIN profiles = DOMAIN doc.profiles
         /\ \A i \in DOMAIN doc.profiles :
              LET p == profiles[i]
                  x == doc.profiles[i]
              IN /\ p.id = x.id /\ p.name = x.name /\ p.end = x.end /\ p.custom = x.custom
                 /\ p.sub = SubHere(s, doc, x.sub) /\ p.via = ProfileHere(s, doc, x.via)
    <2>1. \A i \in DOMAIN doc.profiles : profiles[i] = FixP(doc.profiles[i]) /\ doc.profiles[i] \in Profile
      BY <1>2, <1>3
    <2>2. DOMAIN profiles = DOMAIN doc.profiles
      BY <1>2
    <2> HIDE DEF profiles
    <2> QED
      BY <1>6, <1>7, <2>1, <2>2, Zenon
  <1>12. DOMAIN subs = DOMAIN doc.subs /\ \A i \in DOMAIN doc.subs : subs[i].id = doc.subs[i].id
    BY <1>2, <1>3, <1>9
  <1> HIDE DEF profiles, groups, subs
  <1>13. /\ AP \in SUBSET DOMAIN profiles /\ AG \in SUBSET DOMAIN groups /\ AU \in SUBSET DOMAIN subs
         /\ \A i \in AP : ProfileOf(profiles[i].id) = profiles[i].id
         /\ \A i \in DOMAIN profiles :
              profiles[i].id \notin Ids(s.profiles) /\ ProfileOf(profiles[i].id) = profiles[i].id => i \in AP
         /\ \A i \in DOMAIN subs :
              subs[i].id \notin Ids(s.subs) /\ SubOf(subs[i].id) = subs[i].id => i \in AU
    OBVIOUS
  <1> HIDE DEF AP, AG, AU
  <1>14. /\ \A i \in DOMAIN s.profiles : i \in DOMAIN P /\ P[i] = s.profiles[i]
         /\ \A j \in DOMAIN P : P[j].id \in Ids(s.profiles) \/ \E i \in AP : P[j] = profiles[i]
         /\ Ids(P) = Ids(s.profiles) \cup {profiles[i].id : i \in AP}
    <2>1. s.profiles \in Seq(Profile) /\ profiles \in Seq(Profile) /\ AP \in SUBSET DOMAIN profiles
      BY <1>4, <1>10, <1>13
    <2> QED
      BY ONLY <2>1, TakenOver
  <1>15. Ids(G) = Ids(s.groups) \cup {groups[i].id : i \in AG}
    BY <1>4, <1>10, <1>13, TakenOver
  <1>16. Ids(U) = Ids(s.subs) \cup {subs[i].id : i \in AU}
    BY <1>4, <1>10, <1>13, TakenOver
  <1> HIDE DEF P, G, U
  <1>17. ASSUME NEW j \in DOMAIN P, P[j].id \notin Ids(s.profiles)
         PROVE  \E i \in DOMAIN doc.profiles :
                  LET p == P[j]
                      x == doc.profiles[i]
                  IN /\ p.id = x.id /\ p.name = x.name /\ p.end = x.end /\ p.custom = x.custom
                     /\ p.sub = SubHere(s, doc, x.sub) /\ p.via = ProfileHere(s, doc, x.via)
                     /\ ProfileHere(s, doc, x.id) = x.id
    <2>1. PICK i \in AP : P[j] = profiles[i]
      BY <1>14, <1>17
    <2>2. i \in DOMAIN doc.profiles /\ ProfileHere(s, doc, doc.profiles[i].id) = doc.profiles[i].id
      BY <1>6, <1>11, <1>13, <2>1
    <2> QED
      BY <1>11, <2>1, <2>2, Zenon
  <1>18. ASSUME NEW id \in Ids(doc.profiles), ProfileHere(s, doc, id) = id PROVE id \in Ids(P)
    <2>1. PICK i \in DOMAIN doc.profiles : doc.profiles[i].id = id
      BY DEF Ids
    <2>2. profiles[i].id = id /\ i \in DOMAIN profiles
      BY <1>11, <2>1
    <2> QED
      BY <1>6, <1>13, <1>14, <1>18, <2>2
  <1>19. ASSUME NEW id \in Ids(doc.subs), SubHere(s, doc, id) = id PROVE id \in Ids(U)
    <2>1. PICK i \in DOMAIN doc.subs : doc.subs[i].id = id
      BY DEF Ids
    <2>2. subs[i].id = id /\ i \in DOMAIN subs
      BY <1>12, <2>1
    <2> QED
      BY <1>6, <1>13, <1>16, <1>19, <2>2
  <1>20. \A j \in DOMAIN P :
           \/ P[j].id \in Ids(s.profiles)
           \/ \E i \in DOMAIN doc.profiles :
                LET p == P[j]
                    x == doc.profiles[i]
                IN /\ p.id = x.id /\ p.name = x.name /\ p.end = x.end /\ p.custom = x.custom
                   /\ p.sub = SubHere(s, doc, x.sub) /\ p.via = ProfileHere(s, doc, x.via)
                   /\ ProfileHere(s, doc, x.id) = x.id
    BY <1>17, Zenon
  <1>21. /\ Ids(s.profiles) \subseteq Ids(P) /\ Ids(s.groups) \subseteq Ids(G) /\ Ids(s.subs) \subseteq Ids(U)
    BY <1>14, <1>15, <1>16
  <1> QED
    <2> HIDE DEF P, G, U
    <2>1. \A i \in DOMAIN s.profiles : i \in DOMAIN P /\ P[i] = s.profiles[i]
      BY <1>14
    <2> QED
      BY <1>1, <1>18, <1>19, <1>20, <1>21, <2>1, Zenon DEF m

(* What the backup's ids stand for here is here after the merge.            *)
LEMMA HereAfterMerge ==
  ASSUME NEW s, WellFormed(s), NEW doc, WellFormed(doc)
  PROVE  LET m == Merged(s, doc) IN
         /\ \A id \in Ids(doc.profiles) :
              LET h == ProfileHere(s, doc, id) IN
              /\ h \in Ids(m.profiles)
              /\ h = id \/ \E k \in DOMAIN s.profiles :
                             s.profiles[k].id = h /\ SameIdentity(s.profiles[k], Get(doc.profiles, id))
         /\ \A id \in Ids(doc.subs) :
              LET h == SubHere(s, doc, id) IN
              h \in Ids(m.subs) /\ Url(h) = Url(id)
  <1> DEFINE m == Merged(s, doc)
  <1>1. /\ Ids(s.profiles) \subseteq Ids(m.profiles) /\ Ids(s.subs) \subseteq Ids(m.subs)
        /\ \A id \in Ids(doc.profiles) : ProfileHere(s, doc, id) = id => id \in Ids(m.profiles)
        /\ \A id \in Ids(doc.subs) : SubHere(s, doc, id) = id => id \in Ids(m.subs)
    BY MergedIs
  <1>2. s.profiles \in Seq(Profile) /\ s.subs \in Seq(Asked) /\ doc.subs \in Seq(Asked)
    BY FieldsTyped
  <1> HIDE DEF m
  <1>3. ASSUME NEW id \in Ids(doc.profiles)
        PROVE  LET h == ProfileHere(s, doc, id) IN
               /\ h \in Ids(m.profiles)
               /\ h = id \/ \E k \in DOMAIN s.profiles :
                              s.profiles[k].id = h /\ SameIdentity(s.profiles[k], Get(doc.profiles, id))
    <2> DEFINE h == ProfileHere(s, doc, id)
    <2>1. h # id => \E k \in DOMAIN s.profiles :
            s.profiles[k].id = h /\ SameItem("profile", s.profiles[k], Get(doc.profiles, id))
      BY <1>2, MatchedIdIs DEF ProfileHere
    <2>2. h \in Ids(s.profiles) \/ h = id
      BY <2>1 DEF Ids
    <2> QED
      BY <1>1, <2>1, <2>2 DEF SameItem
  <1>4. ASSUME NEW id \in Ids(doc.subs)
        PROVE  LET h == SubHere(s, doc, id) IN h \in Ids(m.subs) /\ Url(h) = Url(id)
    <2> DEFINE h == SubHere(s, doc, id)
    <2>1. h # id => \E k \in DOMAIN s.subs :
            s.subs[k].id = h /\ SameItem("sub", s.subs[k], Get(doc.subs, id))
      BY <1>2, MatchedIdIs DEF SubHere
    <2>2. h \in Ids(s.subs) \/ h = id
      BY <2>1 DEF Ids
    <2>3. Get(doc.subs, id).id = id
      BY <1>2, GetTyped
    <2>4. h # id => Url(h) = Url(id)
      BY <2>1, <2>3 DEF SameItem
    <2> QED
      BY <1>1, <2>2, <2>4
  <1> QED
    BY <1>3, <1>4 DEF m

(* One merge, of a backup with what is here.                                *)
LEMMA MergeAddsOnce ==
  ASSUME SettingsInv, NEW d \in Backups, ImportBackup(d, "merge")
  PROVE  LET here == Read.profiles
             now == saved'.profiles
             New == {j \in DOMAIN now : now[j].id \notin Ids(here)}
         IN /\ \A i \in DOMAIN here : now[i] = here[i]
            /\ \A j \in New, i \in DOMAIN here : ~SameIdentity(now[j], here[i])
            /\ \A i \in DOMAIN d.profiles :
                 \E j \in DOMAIN now : Counterpart(now[j], d.profiles[i])
            /\ \A j \in New :
                 LET old == Get(d.profiles, now[j].id)
                 IN /\ old.via \in Ids(d.profiles) \ {old.id} =>
                         /\ now[j].via # None
                         /\ Counterpart(Get(now, now[j].via), Get(d.profiles, old.via))
                    /\ old.sub \in Ids(d.subs) =>
                         /\ now[j].sub \in Ids(saved'.subs)
                         /\ Url(now[j].sub) = Url(old.sub)
  <1> DEFINE s == Read
             here == s.profiles
             m == Merged(s, d)
             now == saved'.profiles
             New == {j \in DOMAIN now : now[j].id \notin Ids(here)}
             From(p, x) == /\ p.id = x.id /\ p.name = x.name /\ p.end = x.end /\ p.custom = x.custom
                           /\ p.sub = SubHere(s, d, x.sub) /\ p.via = ProfileHere(s, d, x.via)
                           /\ ProfileHere(s, d, x.id) = x.id
  <1>1. saved' = Chain(m)
    BY DEF ImportBackup, Edit, Write
  <1>2. WellFormed(d) /\ IdsAreUnique(d)
    BY DocumentsAssumption, WellFormedIs
  <1>3. /\ WellFormed(s) /\ IdsAreUnique(s) /\ GroupsResolve(s) /\ ProfilesResolve(s) /\ Shaped(s)
    BY ReadIs, ReadIsSaved
  <1>4. here \in Seq(Profile) /\ d.profiles \in Seq(Profile) /\ Distinct(d.profiles)
    BY <1>2, <1>3, FieldsTyped DEF IdsAreUnique
  <1> HIDE DEF s
  <1>5. WellFormed(s) /\ WellFormed(d)
    BY <1>2, <1>3
  <1>6. /\ \A i \in DOMAIN s.profiles : i \in DOMAIN m.profiles /\ m.profiles[i] = s.profiles[i]
        /\ \A j \in DOMAIN m.profiles :
             \/ m.profiles[j].id \in Ids(s.profiles)
             \/ \E i \in DOMAIN d.profiles :
                  LET p == m.profiles[j]
                      x == d.profiles[i]
                  IN /\ p.id = x.id /\ p.name = x.name /\ p.end = x.end /\ p.custom = x.custom
                     /\ p.sub = SubHere(s, d, x.sub) /\ p.via = ProfileHere(s, d, x.via)
                     /\ ProfileHere(s, d, x.id) = x.id
        /\ Ids(s.profiles) \subseteq Ids(m.profiles)
        /\ \A id \in Ids(d.profiles) : ProfileHere(s, d, id) = id => id \in Ids(m.profiles)
        /\ Ids(s.groups) \subseteq Ids(m.groups)
        /\ Ids(s.subs) \subseteq Ids(m.subs)
        /\ \A id \in Ids(d.subs) : SubHere(s, d, id) = id => id \in Ids(m.subs)
    BY ONLY <1>5, MergedIs, Zenon
  <1>7. /\ \A i \in DOMAIN here : i \in DOMAIN m.profiles /\ m.profiles[i] = here[i]
        /\ Ids(here) \subseteq Ids(m.profiles) /\ Ids(s.groups) \subseteq Ids(m.groups)
    BY <1>6
  <1>8. \A j \in DOMAIN m.profiles :
          m.profiles[j].id \in Ids(here) \/ \E i \in DOMAIN d.profiles : From(m.profiles[j], d.profiles[i])
    BY <1>6, Zenon
  <1>9. /\ \A id \in Ids(d.profiles) :
             /\ ProfileHere(s, d, id) \in Ids(m.profiles)
             /\ \/ ProfileHere(s, d, id) = id
                \/ \E k \in DOMAIN here : /\ here[k].id = ProfileHere(s, d, id)
                                          /\ SameIdentity(here[k], Get(d.profiles, id))
        /\ \A id \in Ids(d.subs) :
             SubHere(s, d, id) \in Ids(m.subs) /\ Url(SubHere(s, d, id)) = Url(id)
    BY <1>2, <1>3, HereAfterMerge
  <1>10. IdsAreUnique(m) /\ WellFormed(m)
    BY <1>2, <1>3, MergedKeeps
  <1> HIDE DEF m
  <1>11. /\ now = [i \in DOMAIN m.profiles |-> ProfileAfter(m, m.profiles[i])]
         /\ Ids(now) = Ids(m.profiles) /\ Ids(saved'.subs) = Ids(m.subs)
    BY <1>1, ChainKeeps
  <1>12. now \in Seq(Profile) /\ Distinct(now)
    BY <1>1, <1>10, ChainTyped, ChainUnique, FieldsTyped DEF IdsAreUnique
  <1>13. /\ DOMAIN now = DOMAIN m.profiles
         /\ \A j \in DOMAIN now : now[j] = ProfileAfter(m, m.profiles[j])
    BY <1>11
  <1>14. ASSUME NEW p
         PROVE  LET q == ProfileAfter(m, p) IN
                /\ q.id = p.id /\ q.name = p.name /\ q.end = p.end /\ q.custom = p.custom
                /\ q.sub = p.sub /\ q.via = IF p.via \in Ids(m.profiles) \ {p.id} THEN p.via ELSE None
    BY DEF ProfileAfter
  <1> HIDE DEF now
  <1>15. ASSUME NEW i \in DOMAIN here PROVE i \in DOMAIN now /\ now[i] = here[i]
    <2>1. /\ here[i].group \in Ids(m.groups)
          /\ here[i].via \in (Ids(m.profiles) \ {here[i].id}) \cup {None}
          /\ here[i] = ProfileFields(here[i])
      BY <1>3, <1>7 DEF GroupsResolve, ProfilesResolve, Shaped
    <2>2. i \in DOMAIN now /\ now[i] = ProfileAfter(m, here[i])
      BY <1>7, <1>13
    <2>3. ProfileAfter(m, here[i]) = ProfileFields(here[i])
      BY <2>1 DEF ProfileAfter, ProfileFields
    <2> QED
      BY <2>1, <2>2, <2>3
  <1>16. ASSUME NEW j \in New
         PROVE  \E i \in DOMAIN d.profiles :
                  From(m.profiles[j], d.profiles[i]) /\ Get(d.profiles, now[j].id) = d.profiles[i]
    <2>1. now[j].id = m.profiles[j].id /\ j \in DOMAIN m.profiles
      BY <1>13, <1>14
    <2>2. PICK i \in DOMAIN d.profiles : From(m.profiles[j], d.profiles[i])
      BY <1>8, <2>1
    <2>3. Get(d.profiles, d.profiles[i].id) = d.profiles[i]
      BY <1>4, FoundById
    <2> QED
      BY <2>1, <2>2, <2>3
  <1>17. ASSUME NEW j \in New, NEW i \in DOMAIN here PROVE ~SameIdentity(now[j], here[i])
    <2>1. PICK h \in DOMAIN d.profiles :
            From(m.profiles[j], d.profiles[h]) /\ Get(d.profiles, now[j].id) = d.profiles[h]
      BY <1>16
    <2> DEFINE x == d.profiles[h]
    <2>2. /\ now[j].id = x.id /\ now[j].name = x.name /\ now[j].end = x.end /\ now[j].custom = x.custom
          /\ ProfileHere(s, d, x.id) = x.id
      BY <1>13, <1>14, <2>1
    <2>3. x.id \notin Ids(here) /\ x.id \in Ids(d.profiles)
      BY <2>2 DEF Ids
    <2>4. ~SameItem("profile", here[i], Get(d.profiles, x.id))
      BY <1>4, <2>2, <2>3, MatchedIdIs DEF ProfileHere
    <2>5. ~SameIdentity(here[i], x)
      BY <2>1, <2>2, <2>4 DEF SameItem
    <2> HIDE DEF x
    <2> QED
      BY <2>2, <2>5 DEF SameIdentity
  <1>18. ASSUME NEW i \in DOMAIN d.profiles PROVE \E j \in DOMAIN now : Counterpart(now[j], d.profiles[i])
    <2> DEFINE x == d.profiles[i]
    <2>1. Get(d.profiles, x.id) = x /\ x.id \in Ids(d.profiles)
      BY <1>4, FoundById DEF Ids
    <2>2. CASE ProfileHere(s, d, x.id) = x.id
      <3>1. x.id \in Ids(now)
        BY <1>9, <1>11, <2>1, <2>2
      <3> QED
        BY <3>1 DEF Ids, Counterpart
    <2>3. CASE ProfileHere(s, d, x.id) # x.id
      <3>1. PICK k \in DOMAIN here : SameIdentity(here[k], x)
        BY <1>9, <2>1, <2>3
      <3> QED
        BY <1>15, <3>1 DEF Counterpart
    <2> QED
      BY <2>2, <2>3
  <1>19. ASSUME NEW j \in New
         PROVE  LET old == Get(d.profiles, now[j].id)
                IN /\ old.via \in Ids(d.profiles) \ {old.id} =>
                        /\ now[j].via # None
                        /\ Counterpart(Get(now, now[j].via), Get(d.profiles, old.via))
                   /\ old.sub \in Ids(d.subs) =>
                        /\ now[j].sub \in Ids(saved'.subs)
                        /\ Url(now[j].sub) = Url(old.sub)
    <2>1. PICK i \in DOMAIN d.profiles :
            From(m.profiles[j], d.profiles[i]) /\ Get(d.profiles, now[j].id) = d.profiles[i]
      BY <1>16
    <2> DEFINE old == d.profiles[i]
               h == ProfileHere(s, d, old.via)
    <2>2. /\ now[j].id = old.id /\ now[j].sub = SubHere(s, d, old.sub)
          /\ now[j].via = IF h \in Ids(m.profiles) \ {old.id} THEN h ELSE None
      BY <1>13, <1>14, <2>1
    <2>3. old.id \notin Ids(here)
      BY <2>2
    <2> HIDE DEF old
    <2>4. ASSUME old.via \in Ids(d.profiles) \ {old.id}
          PROVE  now[j].via # None /\ Counterpart(Get(now, now[j].via), Get(d.profiles, old.via))
      <3>1. h \in Ids(m.profiles)
        BY <1>9, <2>4
      <3>2. h = old.via \/ \E k \in DOMAIN here : here[k].id = h /\ SameIdentity(here[k], Get(d.profiles, old.via))
        BY <1>9, <2>4
      <3> HIDE DEF h
      <3>3. h # old.id
        BY <2>3, <2>4, <3>2 DEF Ids
      <3>4. now[j].via = h
        BY <2>2, <3>1, <3>3
      <3>5. h # None
        BY <1>10, <3>1, IdsTyped, IdsAssumption
      <3>6. CASE h = old.via
        <4>1. h \in Ids(now)
          BY <1>11, <3>1
        <4>2. Get(now, h).id = h
          BY <1>12, <4>1, GetTyped
        <4>3. Get(d.profiles, h).id = h
          BY <1>4, <2>4, <3>6, GetTyped
        <4> QED
          BY <3>4, <3>5, <3>6, <4>2, <4>3 DEF Counterpart
      <3>7. ASSUME NEW k \in DOMAIN here, here[k].id = h, SameIdentity(here[k], Get(d.profiles, old.via))
            PROVE  Counterpart(Get(now, h), Get(d.profiles, old.via))
        <4>1. k \in DOMAIN now /\ now[k] = here[k]
          BY <1>15
        <4>2. Get(now, now[k].id) = now[k]
          BY <1>12, <4>1, FoundById
        <4> QED
          BY <3>7, <4>1, <4>2 DEF Counterpart
      <3> QED
        BY <3>2, <3>4, <3>5, <3>6, <3>7
    <2>5. ASSUME old.sub \in Ids(d.subs)
          PROVE  now[j].sub \in Ids(saved'.subs) /\ Url(now[j].sub) = Url(old.sub)
      BY <1>9, <1>11, <2>2, <2>5
    <2> QED
      BY <2>1, <2>4, <2>5 DEF old
  <1> QED
    BY <1>15, <1>17, <1>18, <1>19 DEF now, s

(* A merge adds what is not here once and leaves what is (merge_backup,     *)
(* matched_ids).                                                            *)
THEOREM RestoreIsClean == Spec => RestoreAddsOnce
  <1>1. SettingsInv => [\A d \in Backups : ImportBackup(d, "merge") =>
          LET here == Read.profiles
              now == saved'.profiles
              New == {j \in DOMAIN now : now[j].id \notin Ids(here)}
          IN /\ \A i \in DOMAIN here : now[i] = here[i]
             /\ \A j \in New, i \in DOMAIN here : ~SameIdentity(now[j], here[i])
             /\ \A i \in DOMAIN d.profiles :
                  \E j \in DOMAIN now : Counterpart(now[j], d.profiles[i])
             /\ \A j \in New :
                  LET old == Get(d.profiles, now[j].id)
                  IN /\ old.via \in Ids(d.profiles) \ {old.id} =>
                          /\ now[j].via # None
                          /\ Counterpart(Get(now, now[j].via), Get(d.profiles, old.via))
                     /\ old.sub \in Ids(d.subs) =>
                          /\ now[j].sub \in Ids(saved'.subs)
                          /\ Url(now[j].sub) = Url(old.sub)]_vars
    BY MergeAddsOnce
  <1> QED
    BY <1>1, AlwaysSettingsInv, PTL DEF RestoreAddsOnce
=============================================================================
