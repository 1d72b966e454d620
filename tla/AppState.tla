------------------------------- MODULE AppState -------------------------------
(***************************************************************************)
(* The saved settings as data: what each client edit, subscription refresh *)
(* and backup restore does to profiles, groups, subscriptions, rule blocks *)
(* and routes, and the rules every read and every write runs over them     *)
(* (crates/kasumi-core/src/mutate.rs, route.rs, chain.rs, normalize.rs,    *)
(* sub_apply.rs, sub_changes.rs; kasumi-backend/src/state_mw.rs).          *)
(*                                                                         *)
(* A write is one step here: StateStore is about how it reaches the disk.  *)
(* What is not one step is a fetch, which keeps the copy of the            *)
(* subscription it began with, and the subscription's edit sheet, which    *)
(* keeps the copy it was opened with.  Lists are sequences, as their order *)
(* decides which of two matches is found; the ids a route lists are sets.  *)
(***************************************************************************)
EXTENDS Naturals, Sequences, FiniteSets, SequencesExt

CONSTANTS
  ProfileIds,   \* ids of hand-made and restored profiles
  FreshIds,     \* bound: ids a fetch or a copy may be given; in no backup
  Groups, Base, \* group ids; the base group
  SubIds,
  BlockIds,     \* ids of the user's rule blocks
  RouteIds,     \* ids of the user's routes
  Default,      \* the default route
  None,         \* an absent id
  Proxy,        \* the outbound that is no profile
  Names,        \* names of profiles, groups and subscriptions
  Ends,         \* protocol, address and settings of a server
  Url(_),       \* where a subscription fetches from
  Starts,       \* documents an earlier session may have left
  Backups,      \* documents a restore may bring
  Answers,      \* what a fetch may bring
  RouteDrafts,  \* routes the editor may save
  Intents,      \* the kinds of edit that take part
  MaxWrites     \* bound: writes of the document

Fetchers == {"tick", "manual"}
Proposals == {"routing", "configs"}   \* what a provider asks consent for
AllIntents ==
  {"profile", "group", "sub", "fetch", "sheet", "answer", "route", "backup"}

VARIABLES
  saved,   \* the document on disk
  fetch,   \* per fetcher: the subscription as read before the fetch, or None
  sheet,   \* the subscription an edit sheet was opened on, or None
  writes   \* how often the document was written

vars == <<saved, fetch, sheet, writes>>

AllProfiles == ProfileIds \cup FreshIds
AllBlocks == BlockIds \cup ({"sub"} \X SubIds) \cup ({"link"} \X Groups)
               \cup ({"legacy"} \X Nat)
AllRoutes == RouteIds \cup {Default} \cup ({"sub"} \X SubIds)
               \cup ({"link"} \X Groups)

Profile == [id: AllProfiles, name: Names, end: Ends, custom: BOOLEAN,
            group: Groups, sub: SubIds \cup {None},
            via: AllProfiles \cup {None}]
Group == [id: Groups, name: Names, owner: SubIds \cup {None}]
Subscription == [id: SubIds, name: Names, enabled: BOOLEAN,
                 target: Groups \cup {None}, configs: BOOLEAN,
                 pending: SUBSET Proposals, answered: SUBSET Proposals]
RuleBlock == [id: AllBlocks, tag: AllProfiles \cup {Proxy},
              source: SubIds \cup {None}]
Route == [id: AllRoutes, enabled: BOOLEAN, profiles: SUBSET AllProfiles,
          groups: SUBSET Groups, blocks: SUBSET AllBlocks,
          final: AllProfiles \cup {Proxy}, source: SubIds \cup {None}]

(* An AppState; `legacy` is the flat rule list of versions before routes. *)
Doc(profiles, groups, subs, blocks, routes, active, dedup, legacy) ==
  [profiles |-> profiles, groups |-> groups, subs |-> subs,
   blocks |-> blocks, routes |-> routes, active |-> active,
   dedup |-> dedup, legacy |-> legacy]

Document ==
  [profiles: Seq(Profile), groups: Seq(Group), subs: Seq(Subscription),
   blocks: Seq(RuleBlock), routes: Seq(Route), active: AllProfiles \cup {None},
   dedup: BOOLEAN, legacy: AllProfiles \cup {Proxy, None}]

(* What a provider may answer: servers, a new name, a word on its routing. *)
Answer ==
  [batch: Seq([name: Names, end: Ends, custom: BOOLEAN]),
   title: Names \cup {None}, routing: {"none", "add", "off"}]

(* A proposal is pending until it is answered. *)
AsksOnce(u) == u.pending \cap u.answered = {}
AsksEachOnce(subs) == \A i \in DOMAIN subs : AsksOnce(subs[i])

(* An id is found by the first item that has it: no list has two of one.   *)
Distinct(items) ==
  \A i, j \in DOMAIN items : items[i].id = items[j].id => i = j
IdsAreUnique(s) ==
  /\ Distinct(s.profiles) /\ Distinct(s.groups) /\ Distinct(s.subs)
  /\ Distinct(s.blocks) /\ Distinct(s.routes)

ASSUME IdsAssumption ==
  /\ Base \in Groups /\ Names # {} /\ IsFiniteSet(FreshIds)
  /\ None \notin AllProfiles

(* Documents are ones the program wrote: none has a proposal both pending  *)
(* and answered, or one id twice.                                          *)
ASSUME DocumentsAssumption ==
  \A d \in Starts \cup Backups :
    d \in Document /\ AsksEachOnce(d.subs) /\ IdsAreUnique(d)
ASSUME BoundAssumption == MaxWrites \in Nat
ASSUME InputsAssumption == Answers \subseteq Answer /\ RouteDrafts \subseteq Route

TypeOK ==
  /\ saved \in Document /\ saved.legacy = None
  /\ fetch \in [Fetchers -> Subscription \cup {None}]
  /\ sheet \in Subscription \cup {None}
  /\ writes \in 0 .. MaxWrites

-----------------------------------------------------------------------------
(* Lists of things with an id. *)
Ids(items) == {items[i].id : i \in DOMAIN items}
IndexOf(items, id) == SelectInSeq(items, LAMBDA x : x.id = id)
Get(items, id) == items[IndexOf(items, id)]

(* The items at the kept places, in their order: the k-th is the one with  *)
(* k - 1 kept before it.  Where is SelectSeq, which the provers do not     *)
(* expand.                                                                 *)
Kept(items, kept) ==
  [k \in 1 .. Cardinality(kept) |->
     items[CHOOSE i \in kept : Cardinality({j \in kept : j < i}) = k - 1]]
Where(items, Test(_)) == Kept(items, {i \in DOMAIN items : Test(items[i])})
Drop(items, gone) == Where(items, LAMBDA x : x.id \notin gone)

(* upsert_by_id: replace in place, else append. *)
Upsert(items, x) ==
  IF x.id \in Ids(items) THEN [items EXCEPT ![IndexOf(items, x.id)] = x]
  ELSE Append(items, x)

(* move_item_by_index: out of range moves nothing. *)
MoveItem(items, from, to) ==
  IF from = to \/ {from, to} \cap DOMAIN items # {from, to} THEN items
  ELSE InsertAt(RemoveAt(items, from), to, items[from])

-----------------------------------------------------------------------------
(* The rules every read and write runs.  They take whatever document they  *)
(* are given, so each names every field of what it returns.                *)

(* Nothing names a missing group, and no group a missing owner. *)
FixupDanglingGroups(s) ==
  LET known == Ids(s.groups)
      Fix(p) == [id |-> p.id, name |-> p.name, end |-> p.end,
                 custom |-> p.custom, sub |-> p.sub, via |-> p.via,
                 group |-> IF p.group \in known THEN p.group ELSE Base]
      FixSub(u) == [id |-> u.id, name |-> u.name, enabled |-> u.enabled,
                    configs |-> u.configs, pending |-> u.pending,
                    answered |-> u.answered,
                    target |-> IF u.target \in known \cup {None}
                               THEN u.target ELSE Base]
      FixOwner(g) == [id |-> g.id, name |-> g.name,
                      owner |-> IF g.owner \in Ids(s.subs)
                                THEN g.owner ELSE None]
  IN Doc([i \in DOMAIN s.profiles |-> Fix(s.profiles[i])],
         [i \in DOMAIN s.groups |-> FixOwner(s.groups[i])],
         [i \in DOMAIN s.subs |-> FixSub(s.subs[i])],
         s.blocks, s.routes, s.active, s.dedup, s.legacy)

FixupActiveId(s) ==
  Doc(s.profiles, s.groups, s.subs, s.blocks, s.routes,
      IF s.active \in Ids(s.profiles) THEN s.active ELSE None,
      s.dedup, s.legacy)

FixupDanglingVia(s) ==
  LET Fix(p) == [id |-> p.id, name |-> p.name, end |-> p.end,
                 custom |-> p.custom, sub |-> p.sub, group |-> p.group,
                 via |-> IF p.via \in Ids(s.profiles) \ {p.id}
                         THEN p.via ELSE None]
  IN Doc([i \in DOMAIN s.profiles |-> Fix(s.profiles[i])], s.groups, s.subs,
         s.blocks, s.routes, s.active, s.dedup, s.legacy)

DefaultRoute ==
  [id |-> Default, enabled |-> TRUE, profiles |-> {}, groups |-> {},
   blocks |-> {}, final |-> Proxy, source |-> None]

(* The default route exists and comes first. *)
EnsureDefaultRoute(routes) ==
  IF Default \in Ids(routes)
  THEN <<Get(routes, Default)>> \o RemoveAt(routes, IndexOf(routes, Default))
  ELSE <<DefaultRoute>> \o routes

(* The flat rule list becomes a block at the end of the default route,     *)
(* under an id no block has.                                               *)
UniqueBlockId(s) ==
  <<"legacy", CHOOSE n \in 1 .. Len(s.blocks) + 1 :
                /\ <<"legacy", n>> \notin Ids(s.blocks)
                /\ \A k \in 1 .. n - 1 : <<"legacy", k>> \in Ids(s.blocks)>>

FoldInto(s, id, routes, legacy) ==
  Doc(s.profiles, s.groups, s.subs,
      Append(s.blocks, [id |-> id, tag |-> s.legacy, source |-> None]),
      [routes EXCEPT ![1].blocks = @ \cup {id}],
      s.active, s.dedup, legacy)

FoldLegacyRules(s) ==
  IF s.legacy = None THEN s
  ELSE FoldInto(s, UniqueBlockId(s), EnsureDefaultRoute(s.routes), None)

(* A route names blocks that exist; a profile or a group is listed by one  *)
(* route, the first that lists it; the default route is on and lists no    *)
(* group.                                                                  *)
FixRoutes(s, routes) ==
  LET Before(i) == {j \in DOMAIN routes : j < i}
      Fix(i) ==
        [id |-> routes[i].id, final |-> routes[i].final,
         source |-> routes[i].source,
         enabled |-> IF routes[i].id = Default THEN TRUE
                     ELSE routes[i].enabled,
         blocks |-> routes[i].blocks \cap Ids(s.blocks),
         profiles |-> {p \in routes[i].profiles \cap Ids(s.profiles) :
                         \A j \in Before(i) : p \notin routes[j].profiles},
         groups |-> {g \in routes[i].groups \cap Ids(s.groups) :
                       /\ routes[i].id # Default
                       /\ \A j \in Before(i) : \/ routes[j].id = Default
                                               \/ g \notin routes[j].groups}]
  IN Doc(s.profiles, s.groups, s.subs, s.blocks,
         [i \in DOMAIN routes |-> Fix(i)], s.active, s.dedup, s.legacy)

WithDefaultRoute(s) == FixRoutes(s, EnsureDefaultRoute(s.routes))
NormalizeRoutes(s) == WithDefaultRoute(FoldLegacyRules(s))

(* default_chain without one of its rules. *)
Chain_NoGroups(s) == NormalizeRoutes(FixupDanglingVia(FixupActiveId(s)))
Chain_NoVia(s) == NormalizeRoutes(FixupActiveId(FixupDanglingGroups(s)))
(* default_chain, run before every write. *)
Chain(s) ==
  NormalizeRoutes(FixupDanglingVia(FixupActiveId(FixupDanglingGroups(s))))

(* ensure_base_group and normalize_app_state, run on every read. *)
EnsureBaseGroup(s) ==
  IF Base \in Ids(s.groups) THEN s
  ELSE Doc(s.profiles,
           <<[id |-> Base, name |-> CHOOSE n \in Names : TRUE,
              owner |-> None]>> \o s.groups,
           s.subs, s.blocks, s.routes, s.active, s.dedup, s.legacy)
Normalize(s) ==
  NormalizeRoutes(FixupDanglingVia(FixupActiveId(
    FixupDanglingGroups(EnsureBaseGroup(s)))))

Read == Normalize(saved)

(* run_mutation, persist_with_chain: what an edit does is applied to what  *)
(* is read, then the chain runs.                                           *)
Write(next) == saved' = Chain(next) /\ writes' = writes + 1
Edit(next) == Write(next) /\ UNCHANGED <<fetch, sheet>>

-----------------------------------------------------------------------------
(* Profiles. *)

(* same_profile_identity: the server and the name; a provider's full       *)
(* config is known by its outbounds alone.                                 *)
SameIdentity(p, q) ==
  /\ p.custom = q.custom /\ p.end = q.end
  /\ p.custom \/ p.name = q.name

(* owned_by_sub: one the user moved to another group is theirs. *)
OwnedBySub(p, u) == p.sub = u.id /\ u.target \in {None, p.group}

(* The first is kept, active or not. *)
Deduplicated_KeepsFirst(profiles, active, scope) ==
  LET Scope == {i \in DOMAIN profiles :
                  scope = None \/ profiles[i].group = scope}
      Loses(i) == \E j \in Scope : /\ j < i
                                   /\ profiles[j].end = profiles[i].end
                                   /\ profiles[j].custom = profiles[i].custom
  IN Drop(profiles, {profiles[i].id : i \in {j \in Scope : Loses(j)}})

(* deduplicate_profiles_scoped: of the profiles of the scope with one      *)
(* server the active one is kept, else the first.                          *)
Deduplicated(profiles, active, scope) ==
  LET Scope == {i \in DOMAIN profiles :
                  scope = None \/ profiles[i].group = scope}
      Same(i) == {j \in Scope : /\ profiles[j].end = profiles[i].end
                                /\ profiles[j].custom = profiles[i].custom}
      Loses(i) == IF \E j \in Same(i) : profiles[j].id = active
                  THEN profiles[i].id # active
                  ELSE \E j \in Same(i) : j < i
  IN Drop(profiles, {profiles[i].id : i \in {j \in Scope : Loses(j)}})

Unused(s, ids) == ids \ Ids(s.profiles)

(* UpsertProfile and AddProfiles of a new profile; it goes to the front. *)
AddProfile(id, name, end, group, via) ==
  \E s \in {Read} :
     /\ id \in Unused(s, ProfileIds)
     /\ Edit([s EXCEPT !.profiles =
                <<[id |-> id, name |-> name, end |-> end, custom |-> FALSE,
                   group |-> group, sub |-> None, via |-> via]>> \o @])

(* UpsertProfile of a stored one: the editor sets its name, group and hop; *)
(* it keeps its server.  A provider's config stays one.                    *)
UpsertProfile(id, name, group, via) ==
  \E s \in {Read} :
     /\ id \in Ids(s.profiles)
     /\ Edit([s EXCEPT !.profiles = Upsert(@, [Get(@, id) EXCEPT
                          !.name = name, !.group = group, !.via = via])])

RemoveProfiles(ids) ==
  \E s \in {Read} :
     Edit([s EXCEPT !.profiles = Drop(@, ids)])

(* The copy follows its source and belongs to no subscription. *)
CloneProfile(id, copy, name) ==
  \E s \in {Read} :
     /\ id \in Ids(s.profiles) /\ copy \in Unused(s, FreshIds)
     /\ Edit([s EXCEPT !.profiles =
                InsertAt(@, IndexOf(@, id) + 1,
                         [Get(@, id) EXCEPT !.id = copy, !.name = name,
                                            !.sub = None])])

MoveProfiles(ids, group) ==
  \E s \in {Read} :
     Edit([s EXCEPT !.profiles = [i \in DOMAIN @ |->
             IF @[i].id \in ids THEN [@[i] EXCEPT !.group = group] ELSE @[i]]])

(* `active` is the selection the client shows. *)
DeduplicateProfiles(active, scope) ==
  \E s \in {Read} :
     Edit([s EXCEPT !.profiles = Deduplicated(@, active, scope)])

SetActive(id) ==
  \E s \in {Read} : Edit([s EXCEPT !.active = id])

-----------------------------------------------------------------------------
(* Groups. *)
AddGroup(id, name, owner) ==
  \E s \in {Read} :
     /\ id \notin Ids(s.groups)
     /\ Edit([s EXCEPT !.groups =
               Append(@, [id |-> id, name |-> name, owner |-> owner])])

RenameGroup(id, name) ==
  \E s \in {Read} :
     /\ id \in Ids(s.groups)
     /\ Edit([s EXCEPT !.groups = Upsert(@, [Get(@, id) EXCEPT !.name = name])])

(* The group's profiles go with it; a subscription that fetched into it    *)
(* moves to the base group.                                                *)
RemoveGroup(id) ==
  \E s \in {Read} :
     /\ id # Base
     /\ Edit([s EXCEPT !.groups = Drop(@, {id}),
                       !.profiles = Where(@, LAMBDA p : p.group # id),
                       !.subs = [i \in DOMAIN @ |->
                          IF @[i].target = id THEN [@[i] EXCEPT !.target = Base]
                          ELSE @[i]]])

(* The base group stays pinned at the front. *)
ReorderGroups(from, to) ==
  \E s \in {Read} :
  LET pinned == IF s.groups[1].id = Base THEN 1 ELSE 0
  IN /\ from > pinned
     /\ Edit([s EXCEPT !.groups =
               MoveItem(@, from, IF to > pinned THEN to ELSE pinned + 1)])

-----------------------------------------------------------------------------
(* Subscriptions. *)

(* rename_owned_group: the group made for a subscription follows its name  *)
(* until it was renamed itself.                                            *)
RenameOwnedGroup(s, next) ==
  IF next.id \notin Ids(s.subs) THEN s
  ELSE LET prev == Get(s.subs, next.id)
       IN [s EXCEPT !.groups = [i \in DOMAIN @ |->
             IF /\ @[i].id = next.target /\ @[i].owner = next.id
                /\ @[i].name = prev.name
             THEN [@[i] EXCEPT !.name = next.name] ELSE @[i]]]

(* The answers given meanwhile are overwritten. *)
MergeSubEdit_TakesPending(next, stored, original) ==
  [next EXCEPT
     !.answered = stored.answered,
     !.name = IF @ = original.name THEN stored.name ELSE @,
     !.enabled = IF @ = original.enabled THEN stored.enabled ELSE @,
     !.target = IF @ = original.target THEN stored.target ELSE @,
     !.configs = IF @ = original.configs THEN stored.configs ELSE @]

(* Every setting of the sheet counts as edited. *)
MergeSubEdit_NoOriginal(next, stored, original) ==
  [next EXCEPT !.pending = stored.pending, !.answered = stored.answered]

(* merge_sub_edit: what a fetch wrote stays as stored, and so does every   *)
(* setting the user left as the sheet showed it.                           *)
MergeSubEdit(next, stored, original) ==
  [next EXCEPT
     !.pending = stored.pending,
     !.answered = stored.answered,
     !.name = IF @ = original.name THEN stored.name ELSE @,
     !.enabled = IF @ = original.enabled THEN stored.enabled ELSE @,
     !.target = IF @ = original.target THEN stored.target ELSE @,
     !.configs = IF @ = original.configs THEN stored.configs ELSE @]

(* A subscription drags its profiles along when it changes its group: the  *)
(* ones still in the old group, or all of them on its first group.         *)
MigrateProfiles(s, next) ==
  IF next.id \notin Ids(s.subs) \/ next.target = None THEN s
  ELSE LET old == Get(s.subs, next.id)
       IN [s EXCEPT !.profiles = [i \in DOMAIN @ |->
             IF OwnedBySub(@[i], old) THEN [@[i] EXCEPT !.group = next.target]
             ELSE @[i]]]

StoreSub(s, next) ==
  [MigrateProfiles(RenameOwnedGroup(s, next), next)
     EXCEPT !.subs = Upsert(@, next)]

AddSub(id, name, target) ==
  \E s \in {Read} :
     /\ id \notin Ids(s.subs)
     /\ Edit(StoreSub(s, [id |-> id, name |-> name, enabled |-> TRUE,
                          target |-> target, configs |-> FALSE,
                          pending |-> {}, answered |-> {}]))

OpenSheet(id) ==
  /\ sheet = None
  /\ id \in Ids(Read.subs)
  /\ sheet' = Get(Read.subs, id)
  /\ UNCHANGED <<saved, fetch, writes>>

(* What the user may do to an open sheet; one setting at a time is a bound.*)
SheetEdits ==
  {[sheet EXCEPT !.name = n] : n \in Names}
    \cup {[sheet EXCEPT !.enabled = on] : on \in BOOLEAN}
    \cup {[sheet EXCEPT !.target = g] : g \in Groups \cup {None}}
    \cup {[sheet EXCEPT !.configs = on] : on \in BOOLEAN}

(* UpsertSub with `original`, the copy the sheet was opened with. *)
SaveSheet(edit) ==
  \E s \in {Read} :
  LET next == IF edit.id \in Ids(s.subs)
              THEN MergeSubEdit(edit, Get(s.subs, edit.id), sheet) ELSE edit
  IN /\ Write(StoreSub(s, next))
     /\ sheet' = None /\ UNCHANGED fetch

Unlisted(routes, gone) ==
  [i \in DOMAIN routes |-> [routes[i] EXCEPT !.blocks = @ \ gone]]

(* remove_provider_routing *)
WithoutProviderRouting(s, id) ==
  LET gone == Ids(Where(s.blocks, LAMBDA b : b.source = id))
      left == Where(s.routes, LAMBDA r : r.source # id)
  IN [s EXCEPT !.blocks = Drop(@, gone),
               !.routes = Unlisted(left, gone)]

(* owned_group_is_empty, asked once the subscription is gone. *)
OwnedGroupIsEmpty(s, id, group) ==
  /\ group # Base
  /\ \E i \in DOMAIN s.groups : s.groups[i].id = group /\ s.groups[i].owner = id
  /\ \A i \in DOMAIN s.profiles : s.profiles[i].group # group
  /\ \A i \in DOMAIN s.subs : s.subs[i].id = id \/ s.subs[i].target # group

WithoutSub(s, u) ==
  WithoutProviderRouting(
    [s EXCEPT !.profiles = Where(@, LAMBDA p : ~OwnedBySub(p, u)),
              !.subs = Drop(@, {u.id})], u.id)

Disowned(groups, id) ==
  [i \in DOMAIN groups |->
     IF groups[i].owner = id THEN [groups[i] EXCEPT !.owner = None]
     ELSE groups[i]]

(* The subscription and the profiles it owns.  One that is not there has   *)
(* no group, so every profile that came from it counts as owned.           *)
RemoveSub(id, deleteGroup) ==
  \E s \in {Read} :
  LET u == IF id \in Ids(s.subs) THEN Get(s.subs, id)
           ELSE [id |-> id, target |-> None]
      left == WithoutSub(s, u)
      gone == IF deleteGroup /\ OwnedGroupIsEmpty(left, id, u.target)
              THEN {u.target} ELSE {}
  IN Edit([left EXCEPT !.groups = Disowned(Drop(@, gone), id)])

-----------------------------------------------------------------------------
(* Rule blocks and routes. *)

(* The other routes keep what they list. *)
UpsertRouteIn_KeepsOthers(s, r) == [s EXCEPT !.routes = Upsert(@, r)]

(* upsert_route: the profiles and groups it lists leave every other route. *)
UpsertRouteIn(s, r) ==
  LET Yields(x) == IF x.id = r.id THEN x
                   ELSE [x EXCEPT !.profiles = @ \ r.profiles,
                                  !.groups = @ \ r.groups]
  IN [s EXCEPT !.routes =
        Upsert([i \in DOMAIN @ |-> Yields(@[i])], r)]

(* UpsertRuleBlock, or an edit of the rules of a block: `tag` is where its *)
(* rules send traffic.                                                     *)
UpsertRuleBlock(id, tag) ==
  \E s \in {Read} :
  LET source == IF id \in Ids(s.blocks) THEN Get(s.blocks, id).source ELSE None
  IN Edit([s EXCEPT !.blocks =
            Upsert(@, [id |-> id, tag |-> tag, source |-> source])])

RemoveRuleBlock(id) ==
  \E s \in {Read} :
     Edit([s EXCEPT !.blocks = Drop(@, {id}),
                       !.routes = Unlisted(@, {id})])

UpsertRoute(r) == Edit(UpsertRouteIn(Read, r))

RemoveRoute(id) ==
  \E s \in {Read} :
     id # Default /\ Edit([s EXCEPT !.routes = Drop(@, {id})])

SetProfileRoute(profile, route) ==
  \E s \in {Read} :
  LET Put(r) == [r EXCEPT !.profiles = IF r.id = route THEN @ \cup {profile}
                                       ELSE @ \ {profile}]
  IN Edit([s EXCEPT !.routes = [i \in DOMAIN @ |-> Put(@[i])]])

(* import_routing: one block and one route for a group, replacing an       *)
(* earlier import under the same id.                                       *)
ImportRouting(s, id, group, source, rules, enabled) ==
  LET blocks == IF rules
                THEN Upsert(s.blocks, [id |-> id, tag |-> Proxy,
                                       source |-> source])
                ELSE Drop(s.blocks, {id})
  IN UpsertRouteIn([s EXCEPT !.blocks = blocks],
                   [id |-> id, enabled |-> enabled, profiles |-> {},
                    groups |-> {group}, blocks |-> IF rules THEN {id} ELSE {},
                    final |-> Proxy, source |-> source])

ImportRoutingLink(group, rules, enabled) ==
  Edit(ImportRouting(Read, <<"link", group>>, group, None, rules, enabled))

(* A shared route arrives as a route of its own that lists nobody. *)
ImportRoutePackage(id, block) ==
  \E s \in {Read} :
     /\ id \notin Ids(s.routes)
     /\ Edit([s EXCEPT !.blocks = IF block \in Ids(@) THEN @
                         ELSE Append(@, [id |-> block, tag |-> Proxy,
                                         source |-> None]),
                       !.routes = Append(@, [DefaultRoute EXCEPT
                         !.id = id, !.blocks = {block}])])

-----------------------------------------------------------------------------
(* Answers to a provider's proposals. *)

(* resolve_changes, apply_action: the answer is kept, and accepting        *)
(* imports the provider's routing or allows its full configs.              *)
ResolveSubChange(id, change, accept, activate) ==
  \E s \in {Read} :
  LET u == Get(s.subs, id)
      said == [u EXCEPT !.pending = @ \ {change},
                        !.answered = @ \cup {change}]
      answered == [s EXCEPT !.subs = Upsert(@, said)]
      group == IF u.target = None THEN Base ELSE u.target
  IN /\ id \in Ids(s.subs) /\ change \in u.pending
     /\ \/ ~accept /\ Edit(answered)
        \/ /\ accept /\ change = "routing"
           /\ Edit(ImportRouting(answered, <<"sub", id>>, group, id,
                                           TRUE, activate))
        \/ /\ accept /\ change = "configs"
           /\ Edit([answered EXCEPT !.subs =
                     Upsert(@, [Get(@, id) EXCEPT !.configs = TRUE])])

(* Where a reference to a profile points once `fresh` replaced what the    *)
(* subscription brought before: the same server and name, else the same    *)
(* name, else nowhere.                                                     *)
RefreshedId(profiles, ref, id, fresh) ==
  IF ref \notin Ids(profiles) \/ Get(profiles, ref).sub # id THEN ref
  ELSE LET old == Get(profiles, ref)
           exact == SelectInSeq(fresh, LAMBDA f : SameIdentity(f, old))
           named == SelectInSeq(fresh, LAMBDA f : /\ f.custom = old.custom
                                                  /\ f.name = old.name)
       IN IF exact # 0 THEN fresh[exact].id
          ELSE IF named # 0 THEN fresh[named].id ELSE None

(* withdraw_provider_configs: the permission and the configs it let in. *)
WithdrawProviderConfigs(id) ==
  \E s \in {Read} :
  LET u == Get(s.subs, id)
      Gone(p) == p.custom /\ OwnedBySub(p, u)
      gone == Ids(Where(s.profiles, Gone))
      left == Where(s.profiles, LAMBDA p : p.sub = id /\ p.id \notin gone)
  IN /\ id \in Ids(s.subs)
     /\ Edit([s EXCEPT !.subs = Upsert(@, [u EXCEPT !.configs = FALSE]),
                       !.profiles = Drop(@, gone),
                       !.active = IF @ \in gone
                                  THEN RefreshedId(s.profiles, @, id, left)
                                  ELSE @])

-----------------------------------------------------------------------------
(* Fetching a subscription: outside every lock, from a copy of it. *)
FetchBegin(f, id) ==
  /\ fetch[f] = None
  /\ id \in Ids(Read.subs)
  /\ f = "tick" => Get(Read.subs, id).enabled
  /\ fetch' = [fetch EXCEPT ![f] = Get(Read.subs, id)]
  /\ UNCHANGED <<saved, sheet, writes>>

(* map_fetched_subscription_profiles: the batch as profiles of the         *)
(* subscription that was read before the fetch.                            *)
Mapped(s, u, batch) ==
  LET ids == CHOOSE ids \in [DOMAIN batch -> Unused(s, FreshIds)] :
               \A i, j \in DOMAIN batch : ids[i] = ids[j] => i = j
  IN [i \in DOMAIN batch |->
        [id |-> ids[i], name |-> batch[i].name, end |-> batch[i].end,
         custom |-> batch[i].custom, sub |-> u.id, via |-> None,
         group |-> IF u.target = None THEN Base ELSE u.target]]

(* apply_subscription_profiles: a refreshed profile keeps the hop its      *)
(* previous copy had, and every hop follows its profile to the new id.     *)
RefreshedProfiles(s, u, fresh) ==
  LET Previous(f) == SelectInSeq(s.profiles,
                       LAMBDA p : p.sub = u.id /\ SameIdentity(p, f))
      carried == [i \in DOMAIN fresh |->
                    IF Previous(fresh[i]) = 0 THEN fresh[i]
                    ELSE [fresh[i] EXCEPT
                            !.via = s.profiles[Previous(fresh[i])].via]]
      all == Where(s.profiles, LAMBDA p : ~OwnedBySub(p, u)) \o carried
  IN [i \in DOMAIN all |->
        IF all[i].via = None THEN all[i]
        ELSE [all[i] EXCEPT !.via = RefreshedId(s.profiles, @, u.id, fresh)]]

(* repoint_profile_ids: so do the references of routes and rules. *)
Repointed(s, point) ==
  LET Outbound(tag) == IF point[tag] = None THEN Proxy ELSE point[tag]
      Repoint(r) == [r EXCEPT !.profiles = {point[p] : p \in @} \ {None},
                             !.final = Outbound(@)]
      Block(b) == [b EXCEPT !.tag = Outbound(@)]
  IN [s EXCEPT !.routes = [i \in DOMAIN @ |-> Repoint(@[i])],
               !.blocks = [i \in DOMAIN @ |-> Block(@[i])]]

(* routing_off: only what the provider's own routing turned on. *)
RoutingOff(s, id) ==
  [s EXCEPT !.routes = [i \in DOMAIN @ |->
     IF @[i].source = id THEN [@[i] EXCEPT !.enabled = FALSE] ELSE @[i]]]

(* offer_changes: an answered proposal is not made again; routing stays on *)
(* offer until it is answered.                                             *)
Offered(u, answer) ==
  IF answer.routing = "add" THEN {"routing"} \ u.answered
  ELSE u.pending \cap {"routing"}

(* apply: the answer lands on the state as it is now, for the subscription *)
(* as it is now; a headless fetch stops at a subscription switched off     *)
(* meanwhile.  The provider may rename it, offer its routing or switch its *)
(* routing off.                                                            *)
Applied(s, u, fresh, answer) ==
  LET repointed == Repointed(s, [p \in AllProfiles \cup {Proxy} |->
                                   RefreshedId(s.profiles, p, u.id, fresh)])
      sub == [u EXCEPT !.name = IF answer.title = None THEN @ ELSE answer.title,
                       !.pending = Offered(u, answer)]
      updated == [repointed EXCEPT
                    !.profiles = RefreshedProfiles(s, u, fresh),
                    !.active = IF @ = None THEN None
                               ELSE RefreshedId(s.profiles, @, u.id, fresh)]
      renamed == [RenameOwnedGroup(updated, sub) EXCEPT !.subs = Upsert(@, sub)]
      routed == IF answer.routing = "off" THEN RoutingOff(renamed, u.id)
                ELSE renamed
  IN IF s.dedup
     THEN [routed EXCEPT !.profiles = Deduplicated(@, routed.active, u.target)]
     ELSE routed

FetchLand(f, answer) ==
  \E s \in {Read} :
  LET u == Get(s.subs, fetch[f].id)
      batch == answer.batch
      fresh == Mapped(s, fetch[f], batch)
      live == fetch[f].id \in Ids(s.subs) /\ (f = "tick" => u.enabled)
  IN /\ fetch[f] # None
     /\ Cardinality(Unused(s, FreshIds)) >= Len(batch)
     /\ (\E i \in DOMAIN batch : batch[i].custom) => fetch[f].configs
     /\ fetch' = [fetch EXCEPT ![f] = None]
     /\ IF live THEN Write(Applied(s, u, fresh, answer))
        ELSE UNCHANGED <<saved, writes>>
     /\ UNCHANGED sheet

(* record_error, offer_provider_configs: a failed fetch changes no profile;*)
(* a body of full configs not allowed yet is asked about.                  *)
FetchFail(f, consent) ==
  \E s \in {Read} :
  LET id == fetch[f].id
      u == Get(s.subs, id)
      asks == IF consent /\ ~u.configs THEN {"configs"} \ u.answered ELSE {}
      asked == [u EXCEPT !.pending = @ \cup asks]
  IN /\ fetch[f] # None
     /\ consent => ~fetch[f].configs
     /\ fetch' = [fetch EXCEPT ![f] = None]
     /\ IF id \in Ids(s.subs)
        THEN Write([s EXCEPT !.subs = Upsert(@, asked)])
        ELSE UNCHANGED <<saved, writes>>
     /\ UNCHANGED sheet

-----------------------------------------------------------------------------
(* Backups. *)

(* What makes two items of two documents the same one. *)
SameItem(kind, x, y) ==
  CASE kind = "group" -> x.name = y.name
    [] kind = "sub" -> Url(x.id) = Url(y.id)
    [] kind = "profile" -> SameIdentity(x, y)

(* The same thing under another id is not found. *)
MatchedId_ById(kind, current, incoming, id) == id

(* matched_ids: the current item an incoming one is, by id or by what it is.*)
MatchedId(kind, current, incoming, id) ==
  IF id \in Ids(current) \/ id \notin Ids(incoming) THEN id
  ELSE LET i == SelectInSeq(current,
                            LAMBDA x : SameItem(kind, x, Get(incoming, id)))
       IN IF i = 0 THEN id ELSE current[i].id

(* merge_backup, merge_routes: what is here already is kept, and what the  *)
(* backup says of it is said of the current one.                           *)
Merged(s, doc) ==
  LET d == FoldLegacyRules(doc)
      GroupOf(id) == MatchedId("group", s.groups, d.groups, id)
      SubOf(id) == MatchedId("sub", s.subs, d.subs, id)
      ProfileOf(id) == MatchedId("profile", s.profiles, d.profiles, id)
      profiles == [i \in DOMAIN d.profiles |-> [d.profiles[i] EXCEPT
                     !.group = GroupOf(@), !.sub = SubOf(@),
                     !.via = ProfileOf(@)]]
      groups == [i \in DOMAIN d.groups |->
                   [d.groups[i] EXCEPT !.owner = SubOf(@)]]
      subs == [i \in DOMAIN d.subs |-> [d.subs[i] EXCEPT !.target = GroupOf(@)]]
      pointed == Repointed(d, [p \in AllProfiles \cup {Proxy} |-> ProfileOf(p)])
      blocks == [i \in DOMAIN pointed.blocks |->
                   [pointed.blocks[i] EXCEPT !.source = SubOf(@)]]
      routes == [i \in DOMAIN pointed.routes |->
                   [pointed.routes[i] EXCEPT !.source = SubOf(@),
                                             !.groups = {GroupOf(g) : g \in @}]]
      New(current, items, Of(_)) ==
        Where(items, LAMBDA x : x.id \notin Ids(current) /\ Of(x.id) = x.id)
      ById(id) == id
      added == UNION {routes[i].blocks : i \in
                        {j \in DOMAIN routes : routes[j].id = Default}}
  IN Doc(s.profiles \o New(s.profiles, profiles, ProfileOf),
         s.groups \o New(s.groups, groups, GroupOf),
         s.subs \o New(s.subs, subs, SubOf),
         s.blocks \o New(s.blocks, blocks, ById),
         [i \in DOMAIN s.routes |->
            IF s.routes[i].id = Default
            THEN [s.routes[i] EXCEPT !.blocks = @ \cup added]
            ELSE s.routes[i]]
           \o New(s.routes, routes, ById),
         s.active, d.dedup, None)

(* Replacing takes everything from the backup and drops no profile. *)
Replaced(s, doc) ==
  [doc EXCEPT !.profiles = s.profiles \o Drop(@, Ids(s.profiles))]

ImportBackup(doc, mode) ==
  Edit(IF mode = "merge" THEN Merged(Read, doc)
                 ELSE Replaced(Read, doc))

(* SetSettings, as far as the settings touch the rest. *)
SetSettings(dedup) ==
  \E s \in {Read} : Edit([s EXCEPT !.dedup = dedup])

ReplaceState(doc) == Edit(doc)

-----------------------------------------------------------------------------
Init ==
  /\ \E d \in Starts : saved = Chain(d)
  /\ fetch = [f \in Fetchers |-> None]
  /\ sheet = None
  /\ writes = 0

(* A selection of several profiles is its members in turn. *)
ProfileStep ==
  \/ \E id \in ProfileIds, n \in Names, e \in Ends, g \in Groups,
        v \in AllProfiles \cup {None} : AddProfile(id, n, e, g, v)
  \/ \E id \in AllProfiles, n \in Names, g \in Groups,
        v \in AllProfiles \cup {None} : UpsertProfile(id, n, g, v)
  \/ \E id \in AllProfiles : RemoveProfiles({id})
  \/ \E id \in AllProfiles, copy \in FreshIds, n \in Names :
       CloneProfile(id, copy, n)
  \/ \E id \in AllProfiles, g \in Groups : MoveProfiles({id}, g)
  \/ \E active \in AllProfiles \cup {None}, scope \in Groups \cup {None} :
       DeduplicateProfiles(active, scope)
  \/ \E id \in AllProfiles \cup {None} : SetActive(id)

GroupStep ==
  \/ \E g \in Groups, n \in Names, u \in SubIds \cup {None} : AddGroup(g, n, u)
  \/ \E g \in Groups, n \in Names : RenameGroup(g, n)
  \/ \E g \in Groups : RemoveGroup(g)
  \/ \E from, to \in DOMAIN Read.groups : ReorderGroups(from, to)

SubStep ==
  \/ \E u \in SubIds, n \in Names, g \in Groups \cup {None} : AddSub(u, n, g)
  \/ \E u \in SubIds, gone \in BOOLEAN : RemoveSub(u, gone)
  \/ \E on \in BOOLEAN : SetSettings(on)

FetchStep ==
  \/ \E f \in Fetchers, u \in SubIds : FetchBegin(f, u)
  \/ \E f \in Fetchers, a \in Answers : FetchLand(f, a)
  \/ \E f \in Fetchers, consent \in BOOLEAN : FetchFail(f, consent)

SheetStep ==
  \/ \E u \in SubIds : OpenSheet(u)
  \/ sheet # None /\ \E edit \in SheetEdits \ {sheet} : SaveSheet(edit)

AnswerStep ==
  \/ \E u \in SubIds, change \in Proposals,
        accept, activate \in BOOLEAN :
       ResolveSubChange(u, change, accept, activate)
  \/ \E u \in SubIds : WithdrawProviderConfigs(u)

RouteStep ==
  \/ \E b \in BlockIds, tag \in AllProfiles \cup {Proxy} : UpsertRuleBlock(b, tag)
  \/ \E b \in BlockIds : RemoveRuleBlock(b)
  \/ \E r \in RouteDrafts : UpsertRoute(r)
  \/ \E r \in RouteIds : RemoveRoute(r)
  \/ \E p \in AllProfiles, r \in RouteIds \cup {Default, None} :
       SetProfileRoute(p, r)
  \/ \E g \in Groups, rules, on \in BOOLEAN : ImportRoutingLink(g, rules, on)
  \/ \E r \in RouteIds, b \in BlockIds : ImportRoutePackage(r, b)

BackupStep ==
  \/ \E d \in Backups, mode \in {"merge", "replace"} : ImportBackup(d, mode)
  \/ \E d \in Backups : ReplaceState(d)

Next ==
  /\ writes < MaxWrites
  /\ \/ "profile" \in Intents /\ ProfileStep
     \/ "group" \in Intents /\ GroupStep
     \/ "sub" \in Intents /\ SubStep
     \/ "fetch" \in Intents /\ FetchStep
     \/ "sheet" \in Intents /\ SheetStep
     \/ "answer" \in Intents /\ AnswerStep
     \/ "route" \in Intents /\ RouteStep
     \/ "backup" \in Intents /\ BackupStep

Spec == Init /\ [][Next]_vars

-----------------------------------------------------------------------------
(* Every reference the saved document holds leads somewhere, and no        *)
(* profile, group or hop is claimed twice: a profile is in a listed group, *)
(* the active id and every hop name a stored profile, and no two routes    *)
(* list the same profile or group.  A document restored without the base   *)
(* group gets it on the next read.                                         *)
GroupsResolve(s) ==
  /\ \A i \in DOMAIN s.profiles : s.profiles[i].group \in Ids(s.groups)
  /\ \A i \in DOMAIN s.subs : s.subs[i].target \in Ids(s.groups) \cup {None}
  /\ \A i \in DOMAIN s.groups : s.groups[i].owner \in Ids(s.subs) \cup {None}

ProfilesResolve(s) ==
  /\ s.active \in Ids(s.profiles) \cup {None}
  /\ \A i \in DOMAIN s.profiles :
       s.profiles[i].via \in (Ids(s.profiles) \ {s.profiles[i].id}) \cup {None}

RoutesResolve(s) ==
  /\ \A i \in DOMAIN s.routes :
       /\ s.routes[i].profiles \subseteq Ids(s.profiles)
       /\ s.routes[i].groups \subseteq Ids(s.groups)
       /\ s.routes[i].blocks \subseteq Ids(s.blocks)
  /\ \A i, j \in DOMAIN s.routes :
       i < j => /\ s.routes[i].profiles \cap s.routes[j].profiles = {}
                /\ s.routes[i].groups \cap s.routes[j].groups = {}

Resolves(s) ==
  /\ Base \in Ids(s.groups) => GroupsResolve(s)
  /\ ProfilesResolve(s)
  /\ RoutesResolve(s)

Intact == Resolves(saved)

(* What a write leaves is what the next read returns: the chain and the    *)
(* normalizer agree, so a client that keeps the document an edit answered  *)
(* with shows what is on disk.                                             *)
ReadsBack == Base \in Ids(saved.groups) => Read = saved

(* The document has the shape every reader expects, with no id twice in a  *)
(* list, whatever is copied, fetched and restored into it, and reads back. *)
DocumentReadsBack == TypeOK /\ IdsAreUnique(saved) /\ ReadsBack

(* route_for: the enabled route that lists the profile, else the one that  *)
(* lists its group, else the default route.                                *)
RouteFor(s, p) ==
  LET Live(r) == r.enabled
      own == SelectInSeq(s.routes, LAMBDA r : Live(r) /\ p.id \in r.profiles)
      group == SelectInSeq(s.routes, LAMBDA r : Live(r) /\ p.group \in r.groups)
  IN IF own # 0 THEN s.routes[own].id
     ELSE IF group # 0 THEN s.routes[group].id ELSE Default

(* A route edit takes effect for everybody it names, whatever routes       *)
(* claimed them before: who is put on a route that is on runs with it, and *)
(* so does a group's every profile that no route lists itself              *)
(* (upsert_route, set_profile_route, import_routing).                      *)
RunsWith(s, r) ==
  \A i \in DOMAIN s.profiles :
    LET p == s.profiles[i]
        pinned == \E j \in DOMAIN s.routes :
                    s.routes[j].enabled /\ p.id \in s.routes[j].profiles
    IN \/ p.id \notin r.profiles
             /\ (pinned \/ r.id = Default \/ p.group \notin r.groups)
       \/ RouteFor(s, p) = r.id

RouteEditsTakeEffect ==
  [][/\ \A r \in RouteDrafts :
          UpsertRoute(r) /\ (r.enabled \/ r.id = Default) => RunsWith(saved', r)
     /\ \A g \in Groups, rules \in BOOLEAN :
          ImportRoutingLink(g, rules, TRUE)
            => RunsWith(saved', [id |-> <<"link", g>>, profiles |-> {},
                                 groups |-> {g}])
     /\ \A p \in AllProfiles, i \in DOMAIN saved.routes :
          saved.routes[i].enabled /\ SetProfileRoute(p, saved.routes[i].id)
            => RunsWith(saved', [id |-> saved.routes[i].id,
                                 profiles |-> {p}, groups |-> {}])]_vars

(* A refresh, a removed subscription or a withdrawn permission takes only  *)
(* the profiles the subscription owns: a hand-made one and one the user    *)
(* moved to another group stay, in the group they are in                   *)
(* (owned_by_sub, owned_group_is_empty).                                   *)
Landed(f) == fetch[f] # None /\ fetch'[f] = None

TakesBackFrom(u) ==
  \/ u \notin Ids(saved'.subs) /\ \E gone \in BOOLEAN : RemoveSub(u, gone)
  \/ Len(saved'.profiles) < Len(saved.profiles) /\ WithdrawProviderConfigs(u)
  \/ \E f \in Fetchers : Landed(f) /\ fetch[f].id = u /\ ~saved.dedup

TheirsSurvive ==
  [][\A u \in Ids(saved.subs) : TakesBackFrom(u) =>
       \A i \in DOMAIN saved.profiles :
         LET p == saved.profiles[i]
             target == Get(saved.subs, u).target
         IN \/ p.sub = u /\ target \in {None, p.group}
            \/ \E j \in DOMAIN saved'.profiles :
                 saved'.profiles[j].id = p.id /\ saved'.profiles[j].group = p.group
    ]_vars

(* A refresh keeps the user's choice: an active profile of another origin  *)
(* stays, and one the new batch carries again is active under its new id,  *)
(* on the route that listed it or on an earlier one, which then listed a   *)
(* profile that came back as the same, whatever deduplication dropped      *)
(* (apply_subscription_profiles, repoint_profile_ids, normalize_routes,    *)
(* deduplicate_profiles).                                                  *)
Carries(batch, old) ==
  \E i \in DOMAIN batch : SameIdentity(batch[i], old)

BackAsOne(p, old, new) ==
  p.sub = old.sub /\ (SameIdentity(p, old) \/ p.name = new.name)

StaysRouted(old, new, r) ==
  \E j \in 1 .. r :
    /\ new.id \in saved'.routes[j].profiles
    /\ j = r \/ \E p \in saved.routes[j].profiles :
                 BackAsOne(Get(saved.profiles, p), old, new)

RefreshKeepsChoice ==
  [][\A f \in Fetchers :
       Landed(f) /\ writes' # writes /\ saved.active # None =>
         LET old == Get(saved.profiles, saved.active)
             new == Get(saved'.profiles, saved'.active)
         IN /\ old.sub # fetch[f].id => saved'.active = saved.active
            /\ \A a \in Answers :
                 /\ old.sub = fetch[f].id /\ Carries(a.batch, old)
                 /\ FetchLand(f, a)
                 => /\ saved'.active # None
                    /\ SameIdentity(new, old)
                    /\ \A r \in DOMAIN saved.routes :
                         saved.active \in saved.routes[r].profiles
                           => StaysRouted(old, new, r)]_vars

(* A refresh takes only what the subscription owns and keeps the choice.   *)
RefreshKeepsTheirs == TheirsSurvive /\ RefreshKeepsChoice

(* Saving an edit sheet changes what the user edited and nothing a fetch   *)
(* or another edit wrote while it was open: the settings left alone keep   *)
(* their stored value, and no profile is moved unless the group was        *)
(* changed (merge_sub_edit, the UpsertSub arm).                            *)
EditIsMinimal ==
  [][\A e \in IF sheet = None \/ sheet' # None THEN {}
              ELSE SheetEdits \ {sheet} :
       SaveSheet(e) /\ e.id \in Ids(saved.subs) =>
         LET old == Get(saved.subs, e.id)
             new == Get(saved'.subs, e.id)
         IN /\ new.pending = old.pending /\ new.answered = old.answered
            /\ \A field \in {"name", "enabled", "target", "configs"} :
                 e[field] = sheet[field] => new[field] = old[field]
            /\ e.target = sheet.target => saved'.profiles = saved.profiles]_vars

(* A provider asks once: no proposal the user has answered is put again,   *)
(* by a fetch that began before the answer or by a sheet opened before it  *)
(* (offer, offer_provider_configs, merge_sub_edit).                        *)
AskedOnce == AsksEachOnce(saved.subs)

(* Merging a backup adds what is not here and touches no profile that is:  *)
(* no server comes in twice under two ids, every profile of the backup is  *)
(* here afterwards, and one that was added goes through the hop and into   *)
(* the subscription the backup says, under the ids they have here          *)
(* (merge_backup, matched_ids).                                            *)
Counterpart(p, q) == p.id = q.id \/ SameIdentity(p, q)

RestoreAddsOnce ==
  [][\A d \in Backups : ImportBackup(d, "merge") =>
       LET here == Read.profiles
           now == saved'.profiles
           New == {j \in DOMAIN now : now[j].id \notin Ids(here)}
       IN /\ \A i \in DOMAIN here : now[i] = here[i]
          /\ \A j \in New, i \in DOMAIN here : ~SameIdentity(now[j], here[i])
          /\ \A i \in DOMAIN d.profiles :
               \E j \in DOMAIN now : Counterpart(now[j], d.profiles[i])
          /\ \A j \in New :
               LET old == Get(d.profiles, now[j].id)
               IN /\ old.via \in Ids(d.profiles) \ {old.id} =>
                       /\ now[j].via # None
                       /\ Counterpart(Get(now, now[j].via), Get(d.profiles, old.via))
                  /\ old.sub \in Ids(d.subs) =>
                       /\ now[j].sub \in Ids(saved'.subs)
                       /\ Url(now[j].sub) = Url(old.sub)]_vars

(* The active profile changes on a refresh only when it is gone. *)
SelectionSurvives ==
  [][\A f \in Fetchers : Landed(f) /\ saved'.active # saved.active
       => saved.active \notin Ids(saved'.profiles)]_vars

(* What a refresh brings is in the group the subscription has by then. *)
FreshFollowsSub ==
  [][\A f \in Fetchers : Landed(f) =>
       \A i \in DOMAIN saved'.profiles :
         LET p == saved'.profiles[i]
         IN \/ p.id \in Ids(saved.profiles)
            \/ OwnedBySub(p, Get(saved'.subs, p.sub))]_vars
=============================================================================
