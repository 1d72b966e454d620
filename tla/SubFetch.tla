------------------------------ MODULE SubFetch ------------------------------
(* One subscription and the two that fetch it: the background tick and the  *)
(* user's "update now". A fetch works from a copy of the subscription and   *)
(* of its entry in sub-meta.json, takes seconds, and is applied under the   *)
(* serializer to whatever the subscription has become meanwhile.            *)
(*                                                                          *)
(* A reply is its body (what the envelope parser makes of it), the meta     *)
(* keys it carries and whether it is tagged as encrypted. A profile is the  *)
(* kind of thing it is: a plain server, a naive one, a full Xray config.    *)
EXTENDS Integers, FiniteSets

CONSTANTS
    Links,            \* what the subscription's URL field may hold
    Keyed,            \* the links whose URL has `?key=`
    Unreadable,       \* encrypted links no built-in key opens
    Fragment,         \* the meta keys in a link's #fragment
    Replies,          \* what a server may answer
    Modes,            \* subset of {"auto", "proxy", "direct"}
    Filters,          \* what the profile filter may be
    Passes,           \* per filter that compiles, the kinds whose name it lets through
    Unavailable,      \* kinds of profile no core of this device runs
    Interval,         \* the user's update interval, in units of RETRY_MS
    ProviderInterval, \* the provider's
    Horizon,          \* ages are not told apart past it
    Budget,           \* FETCH_BUDGET
    Timeout,          \* one attempt's limit
    Retries,          \* RequestProfile.retries
    MaxEdits,
    MaxFaults

ASSUME FetchConstants ==
    /\ Budget \in Nat /\ Timeout \in Nat /\ Horizon \in Nat /\ Retries \in Nat
    /\ Links \subseteq DOMAIN Fragment /\ DOMAIN Passes \subseteq Filters

None == "none"
Blank == "blank" \* an empty URL field
Fetchers == {"tick", "user"}
RetryUnits == 1 \* RETRY_MS is the unit of time

VARIABLES
    sub,      \* the saved subscription with its profiles
    entry,    \* its entry in sub-meta.json
    age,      \* since last_updated
    tried,    \* since the tick's last attempt; in memory only
    fetch,    \* each fetcher's work in hand
    proxyUp,  \* platform.proxy_status().running
    edits,
    faults

fetchVars == <<sub, entry, age, tried, fetch, proxyUp, edits, faults>>

Idle == [phase |-> "idle"]
NoEntry == [source |-> None, encrypted |-> FALSE, meta |-> {}]

SmallerOf(a, b) == IF a < b THEN a ELSE b

-----------------------------------------------------------------------------
(* When an update is due.                                                   *)

EffectiveInterval(s) ==
    IF s.paced /\ ~s.own THEN ProviderInterval ELSE Interval

IsDue(s) ==
    LET every == EffectiveInterval(s)
    IN  age >= every /\ tried >= SmallerOf(every, RetryUnits)

Wanted(s) == s.there /\ s.enabled /\ s.auto /\ s.link # Blank

-----------------------------------------------------------------------------
(* Ingest: what a reply yields.                                             *)

(* Mutant: the entry is used whatever link it is filed under.               *)
StoredForUrl_Any(e, link) == e

StoredForUrl(e, link) == IF e.source = link THEN e ELSE NoEntry

StoredEncrypted(e) == e.encrypted

(* A reply tagged as encrypted is decrypted when the URL has a key or the   *)
(* subscription once decrypted.                                             *)
DecryptSignalled(link, reply, e) ==
    reply.tagged /\ (link \in Keyed \/ StoredEncrypted(e))

(* happ_sub::parse: the form of a body.                                     *)
Parse(link, reply, e) ==
    IF DecryptSignalled(link, reply, e)
    THEN IF reply.body = "sealed" THEN "links" ELSE "undecryptable"
    ELSE IF reply.body = "sealed" THEN "unknown" ELSE reply.body

(* MetaMap::refresh_merge: a background update keeps the keys a reply       *)
(* omits, a full one drops them. Each key remembers the link it came with.  *)
Tagged(keys, link) == {<<k, link>> : k \in keys}
RefreshMerge(old, fresh, merge) ==
    IF merge = "full" THEN fresh
    ELSE fresh \cup {k \in old : \A f \in fresh : f[1] # k[1]}

MergedMeta(link, reply, e, merge) ==
    LET fresh == Tagged(reply.keys, link)
    IN  IF e # NoEntry THEN RefreshMerge(e.meta, fresh, merge)
        ELSE RefreshMerge(Tagged(Fragment[link], link), fresh, "partial")

Refused(why) == [kind |-> "refused", why |-> why]
Yields(items, link, reply, e, merge, encrypted) ==
    [kind |-> "yields", items |-> items, encrypted |-> encrypted,
     meta |-> MergedMeta(link, reply, e, merge)]

(* The share-link extractor finds links in prose the parser rejects, but an *)
(* encrypted body that could not be read is not scanned.                    *)
LegacyFallback(link, reply, e, merge) ==
    IF reply.body = "prose" /\ ~DecryptSignalled(link, reply, e)
    THEN Yields({"plain"}, link, reply, e, merge, StoredEncrypted(e))
    ELSE Refused("unknownContent")

(* Full Xray configs only after the user agreed.                            *)
XrayConfigs(form, link, reply, e, merge, allow) ==
    IF ~allow THEN Refused("unsupportedPayload")
    ELSE IF form = "incompatible" THEN Refused("incompatible")
    ELSE IF form = "rejected" THEN Refused("noProfiles")
    ELSE Yields({"config"}, link, reply, e, merge, StoredEncrypted(e))

(* What the links of a body name.                                           *)
ServersIn == [links |-> {"plain"}, naive |-> {"naive"}, mixed |-> {"plain", "naive"}]

Ingest(link, reply, e, merge, allow) ==
    LET form == Parse(link, reply, e)
        encrypted == StoredEncrypted(e) \/ reply.body = "sealed"
    IN  IF form \in DOMAIN ServersIn THEN Yields(ServersIn[form], link, reply, e, merge, encrypted)
        ELSE IF form \in {"nothing", "empty", "undecryptable"} THEN Refused(form)
        ELSE IF form \in {"xray", "incompatible", "rejected"}
        THEN XrayConfigs(form, link, reply, e, merge, allow)
        ELSE LegacyFallback(link, reply, e, merge)

(* Naive servers on a device without naive.                                 *)
WithholdUnavailable(result) ==
    IF result.kind = "yields" THEN [result EXCEPT !.items = @ \ Unavailable] ELSE result

(* map_fetched_subscription_profiles: those whose name passes the filter.   *)
Mapped(items, filter) == items \cap Passes[filter]

RecordAfter(link, result) ==
    [source |-> link, encrypted |-> result.encrypted, meta |-> result.meta]

-----------------------------------------------------------------------------
(* A fetch begins with a copy of the subscription and of its entry.         *)

FirstHop(mode, up) == IF mode = "proxy" \/ (mode = "auto" /\ up) THEN "proxy" ELSE "direct"

(* What is left of a fetch that failed: whether the body was full configs   *)
(* the user has not allowed. What it logs and shows is left out.            *)
Failed(why) == [phase |-> "failing", consent |-> why = "unsupportedPayload"]

(* The URL field is empty, the filter does not compile, the link cannot be  *)
(* decrypted, or the platform cannot tell whether a proxy runs.             *)
Startable == sub.link # Blank /\ sub.filter \in DOMAIN Passes
NotBegun == Failed("plain")

Begun(merge) ==
    IF sub.link \in Unreadable THEN NotBegun
    ELSE [phase |-> "asking", link |-> sub.link, mode |-> sub.mode, filter |-> sub.filter, allow |-> sub.allow,
          fallback |-> sub.fallback, stored |-> StoredForUrl(entry, sub.link), merge |-> merge,
          up |-> proxyUp, hop |-> FirstHop(sub.mode, proxyUp), retries |-> Retries, spent |-> 0]

(* The background pass. A filter that does not compile is skipped; the      *)
(* attempt counts all the same.                                             *)
Tick ==
    /\ fetch["tick"] = Idle
    /\ Wanted(sub)
    /\ IsDue(sub)
    /\ tried' = 0
    /\ \E w \in IF Startable THEN {Begun("partial"), NotBegun} ELSE {Idle} :
            fetch' = [fetch EXCEPT !["tick"] = w]
    /\ UNCHANGED <<sub, entry, age, proxyUp, edits, faults>>

(* "Update now", on a disabled subscription too.                            *)
UpdateNow ==
    /\ fetch["user"] = Idle
    /\ sub.there
    /\ edits < MaxEdits
    /\ edits' = edits + 1
    /\ \E w \in IF Startable THEN {Begun("full"), NotBegun} ELSE {NotBegun} :
            fetch' = [fetch EXCEPT !["user"] = w]
    /\ UNCHANGED <<sub, entry, age, tried, proxyUp, faults>>

-----------------------------------------------------------------------------
(* One request after another, all before one deadline.                      *)

Left(w) == Budget - w.spent

(* The proxied attempt is not made without a proxy.                         *)
NoProxy(w) == w.hop = "proxy" /\ ~w.up

CanAsk(w) == w.phase = "asking" /\ ~NoProxy(w) /\ Left(w) > 0

(* A server answers with a success: the reply is ingested, what this device *)
(* cannot run is withheld, and then what the filter, compiled as the fetch  *)
(* began, does not let through. `sent` is what the server sent, as history. *)
Ingested(w, reply) ==
    LET got == Ingest(w.link, reply, w.stored, w.merge, w.allow)
        result == WithholdUnavailable(got)
    IN  IF result.kind = "refused" THEN Failed(result.why)
        ELSE [phase |-> "landing", imported |-> w.stored = NoEntry, filter |-> w.filter,
              sent |-> got.items, items |-> Mapped(result.items, w.filter),
              record |-> RecordAfter(w.link, result)]

Answered(f, reply) ==
    /\ CanAsk(fetch[f])
    /\ fetch' = [fetch EXCEPT ![f] = Ingested(@, reply)]
    /\ UNCHANGED <<sub, entry, age, tried, proxyUp, edits, faults>>

(* Where a failed request leads: in automatic mode from the proxy to a      *)
(* direct attempt, then to a retry if it failed in transport, then to the   *)
(* fallback URL the user accepted, whose reply is merged like a background  *)
(* update's, then to the error.                                             *)
Direct(w) == w.hop = "proxy" /\ w.mode = "auto" /\ Left(w) > 0
Retried(w, transport) == transport /\ w.retries > 0 /\ Left(w) > 0

AfterFailure(w, transport) ==
    IF Direct(w) THEN [w EXCEPT !.hop = "direct"]
    ELSE IF Retried(w, transport)
    THEN [w EXCEPT !.retries = @ - 1, !.hop = FirstHop(w.mode, w.up)]
    ELSE IF w.fallback
    THEN [w EXCEPT !.fallback = FALSE, !.merge = "partial", !.retries = Retries,
                   !.hop = FirstHop(w.mode, w.up)]
    ELSE Failed("network")

(* A request that gets no answer waits its whole timeout, or what is left   *)
(* of the budget; a refused one does not wait.                              *)
AttemptTimeout(w) == SmallerOf(Timeout, Left(w))

Charged(w, waited) == [w EXCEPT !.spent = @ + IF waited THEN AttemptTimeout(w) ELSE 0]

RequestFails(f, waited, transport) ==
    /\ CanAsk(fetch[f])
    /\ fetch' = [fetch EXCEPT ![f] = AfterFailure(Charged(fetch[f], waited), transport)]
    /\ UNCHANGED <<sub, entry, age, tried, proxyUp, edits, faults>>

(* Mutant: a missing proxy is waited for.                                   *)
NoRequest_Waits(f) ==
    /\ fetch[f].phase = "asking"
    /\ Left(fetch[f]) <= 0
    /\ fetch' = [fetch EXCEPT ![f] = AfterFailure([@ EXCEPT !.hop = "direct"], FALSE)]
    /\ UNCHANGED <<sub, entry, age, tried, proxyUp, edits, faults>>

(* No proxy in proxy mode, or no time left: no request is made, and an      *)
(* error that came from no request is not retried.                          *)
NoRequest(f) ==
    /\ fetch[f].phase = "asking"
    /\ NoProxy(fetch[f]) \/ Left(fetch[f]) <= 0
    /\ fetch' = [fetch EXCEPT ![f] = AfterFailure([@ EXCEPT !.hop = "direct"], FALSE)]
    /\ UNCHANGED <<sub, entry, age, tried, proxyUp, edits, faults>>

-----------------------------------------------------------------------------
(* Applying, under the serializer.                                          *)

Serialized == \A f \in Fetchers : fetch[f].phase # "recording"

(* Mutant: only the copy from before the fetch is asked.                    *)
FirstImport_Copy(w, current) == w.imported

(* Only a subscription's very first fetch may switch auto-update on.        *)
FirstImport(w, current) == w.imported /\ ~current.updated

SentInterval(meta) == \E k \in meta : k[1] = "interval"

ApplyAuto(s, meta, first) ==
    [s EXCEPT !.paced = SentInterval(meta), !.auto = @ \/ (first /\ SentInterval(meta))]

(* The refreshed subscription: new profiles, no error, and of the questions *)
(* pending only those this reply raises.                                    *)
AppliedSub(w) ==
    LET s == [sub EXCEPT !.profiles = w.items, !.updated = TRUE, !.failed = FALSE,
                         !.asked = IF @ = "pending" THEN "no" ELSE @]
    IN  ApplyAuto(s, w.record.meta, FirstImport(w, sub))

MayApply(f) == sub.there /\ (f = "user" \/ sub.enabled)

Land(f) ==
    /\ fetch[f].phase = "landing"
    /\ Serialized
    /\ IF MayApply(f)
       THEN /\ sub' = AppliedSub(fetch[f])
            /\ age' = 0
            /\ fetch' = [fetch EXCEPT ![f] = [phase |-> "recording", record |-> @.record]]
       ELSE fetch' = [fetch EXCEPT ![f] = Idle] /\ UNCHANGED <<sub, age>>
    /\ UNCHANGED <<entry, tried, proxyUp, edits, faults>>

(* The entry is written after the state; the lock is held to the end.       *)
WriteEntry(f) ==
    /\ fetch[f].phase = "recording"
    /\ entry' = fetch[f].record
    /\ fetch' = [fetch EXCEPT ![f] = Idle]
    /\ UNCHANGED <<sub, age, tried, proxyUp, edits, faults>>

(* A failure is noted and leaves the profiles and the entry alone. A full   *)
(* config without consent asks for it, once.                                *)
Noted(consent) ==
    [sub EXCEPT !.failed = TRUE,
                !.asked = IF consent /\ ~sub.allow /\ @ = "no" THEN "pending" ELSE @]

RecordError(f) ==
    /\ fetch[f].phase = "failing"
    /\ Serialized
    /\ sub' = IF sub.there THEN Noted(fetch[f].consent) ELSE sub
    /\ fetch' = [fetch EXCEPT ![f] = Idle]
    /\ UNCHANGED <<entry, age, tried, proxyUp, edits, faults>>

-----------------------------------------------------------------------------
(* Meanwhile: the user, the clock, the core and the machine.                *)

Edited(s) ==
    /\ sub.there
    /\ edits < MaxEdits
    /\ edits' = edits + 1
    /\ sub' = s
    /\ UNCHANGED <<entry, age, tried, fetch, proxyUp, faults>>

(* merge_sub_edit: the settings the user changed.                           *)
EditLink(link) == sub.link # link /\ Edited([sub EXCEPT !.link = link])
EditFilter(filter) == sub.filter # filter /\ Edited([sub EXCEPT !.filter = filter])
ToggleAuto == Edited([sub EXCEPT !.auto = ~@])
ToggleEnabled == Edited([sub EXCEPT !.enabled = ~@])
Remove == Edited([sub EXCEPT !.there = FALSE, !.profiles = {}])

(* resolve_changes for the question about provider configs.                 *)
Answer(accept) ==
    /\ sub.asked = "pending"
    /\ Edited([sub EXCEPT !.asked = IF accept THEN "granted" ELSE "rejected", !.allow = accept])

(* withdraw_provider_configs: the permission and what it imported.          *)
Withdraw ==
    /\ sub.allow
    /\ Edited([sub EXCEPT !.allow = FALSE, !.profiles = @ \ {"config"}])

Clock ==
    /\ age' = SmallerOf(age + 1, Horizon)
    /\ tried' = SmallerOf(tried + 1, Horizon)
    /\ UNCHANGED <<sub, entry, fetch, proxyUp, edits, faults>>

Fault ==
    /\ faults < MaxFaults
    /\ faults' = faults + 1

CoreFlips ==
    /\ Fault
    /\ proxyUp' = ~proxyUp
    /\ UNCHANGED <<sub, entry, age, tried, fetch, edits>>

(* The process ends anywhere and starts again; attempts are forgotten.      *)
ProcessEnds ==
    /\ Fault
    /\ fetch' = [f \in Fetchers |-> Idle]
    /\ tried' = Horizon
    /\ UNCHANGED <<sub, entry, age, proxyUp, edits>>

(* sub-meta.json missing or corrupt reads as empty.                         *)
LoseEntry ==
    /\ Fault
    /\ entry # NoEntry
    /\ entry' = NoEntry
    /\ UNCHANGED <<sub, age, tried, fetch, proxyUp, edits>>

-----------------------------------------------------------------------------
NewSub(link, mode, filter, auto, own, fallback) ==
    [there |-> TRUE, link |-> link, mode |-> mode, filter |-> filter, enabled |-> TRUE,
     auto |-> auto, own |-> own, paced |-> FALSE, fallback |-> fallback, allow |-> FALSE,
     asked |-> "no", updated |-> FALSE, failed |-> FALSE, profiles |-> {}]

FetchInit ==
    /\ \E link \in Links, mode \in Modes, filter \in Filters, auto, own, fallback \in BOOLEAN :
            sub = NewSub(link, mode, filter, auto, own, fallback)
    /\ entry = NoEntry
    /\ age = Horizon
    /\ tried = Horizon
    /\ fetch = [f \in Fetchers |-> Idle]
    /\ proxyUp \in BOOLEAN
    /\ edits = 0
    /\ faults = 0

FetchWork(f) ==
    \/ \E reply \in Replies : Answered(f, reply)
    \/ \E waited, transport \in BOOLEAN : RequestFails(f, waited, transport)
    \/ NoRequest(f)
    \/ Land(f)
    \/ WriteEntry(f)
    \/ RecordError(f)

UserStep ==
    \/ UpdateNow
    \/ \E link \in Links : EditLink(link)
    \/ \E filter \in Filters : EditFilter(filter)
    \/ ToggleAuto
    \/ ToggleEnabled
    \/ Remove
    \/ \E accept \in BOOLEAN : Answer(accept)
    \/ Withdraw

FetchNext ==
    \/ Tick
    \/ \E f \in Fetchers : FetchWork(f)
    \/ UserStep
    \/ Clock
    \/ CoreFlips
    \/ ProcessEnds
    \/ LoseEntry

(* The updater's loop wakes every TICK, time passes, and every request ends *)
(* in an answer or at its timeout.                                          *)
FetchFairness ==
    /\ WF_fetchVars(Clock)
    /\ WF_fetchVars(Tick)
    /\ \A f \in Fetchers : WF_fetchVars(FetchWork(f))

FetchSpec == FetchInit /\ [][FetchNext]_fetchVars /\ FetchFairness

-----------------------------------------------------------------------------
ProfileKinds == {"plain", "naive", "config"}
MetaKeys == (UNION {Fragment[l] : l \in DOMAIN Fragment}) \cup (UNION {r.keys : r \in Replies})

(* The saved subscription, its entry and the clocks are of their types.     *)
FetchTypeOK ==
    /\ sub.link \in Links /\ sub.mode \in Modes /\ sub.filter \in Filters
    /\ sub.asked \in {"no", "pending", "granted", "rejected"}
    /\ sub.profiles \subseteq ProfileKinds
    /\ \/ entry = NoEntry
       \/ /\ entry.source \in Links \ {Blank}
          /\ entry.encrypted \in BOOLEAN
          /\ entry.meta \subseteq MetaKeys \X Links
    /\ age \in 0..Horizon /\ tried \in 0..Horizon
    /\ \A f \in Fetchers : fetch[f].phase \in {"idle", "asking", "landing", "recording", "failing"}

(* Whatever a provider answers and whatever happens meanwhile, an update    *)
(* leaves a subscription that had profiles with profiles, as the comment on *)
(* fetch_and_map says of an empty list.                                     *)
KeepsList ==
    [][\A f \in Fetchers : (Land(f) \/ RecordError(f)) /\ sub.profiles # {} => sub'.profiles # {}]_fetchVars

(* What does keep the list, for any device and any filter: an error, an     *)
(* error page, a failed decryption and a reply that names no profile touch  *)
(* nothing. A list is emptied only when a server sent profiles and each of  *)
(* them is one this device cannot run or one the filter of that fetch does  *)
(* not let through; the check for an empty list comes before both.          *)
OnlyWithheldEmpties ==
    [][\A f \in Fetchers :
          (Land(f) \/ RecordError(f)) /\ sub.profiles # {} /\ sub'.profiles = {} =>
              /\ fetch[f].phase = "landing" /\ fetch[f].sent # {}
              /\ fetch[f].sent \subseteq Unavailable \cup (ProfileKinds \ Passes[fetch[f].filter])]_fetchVars

(* The stored meta was sent for the link it is filed under. The link can be *)
(* edited while a fetch of the old one is under way, by either fetcher;     *)
(* what lands late must not be merged into the new provider's meta.         *)
MetaIsOfItsUrl == \A k \in entry.meta : k[2] = entry.source

(* Once a subscription has been fetched, no fetch turns its auto-update     *)
(* back on, not even one begun before that first one landed, nor one after  *)
(* sub-meta.json was lost (apply reads the live last_updated).              *)
OptOutIsKept ==
    [][sub.updated /\ ~sub.auto /\ sub'.auto => ToggleAuto]_fetchVars

(* A provider's full config is only ever among the profiles after the user  *)
(* was asked and agreed, whatever order replies, answers and fetches had.   *)
ConfigsNeedConsent == "config" \in sub.profiles => sub.asked = "granted"

(* Taking the consent back removes the imported configs for good.           *)
WithdrawnIsGone == ~sub.allow => "config" \notin sub.profiles

(* A fetch with its proxied attempts, retries and fallback URL takes no     *)
(* longer than FETCH_BUDGET: they share one deadline.                       *)
BudgetIsShared == \A f \in Fetchers : fetch[f].phase = "asking" => fetch[f].spent <= Budget

(* A subscription the user wants updated is tried again and again, whatever *)
(* its server, the proxy or a crash did to the last attempt.                *)
TriedAgain == []<>(tried = 0 \/ ~Wanted(sub))

(* Fetches that overlap each other and the user's edits mix no two          *)
(* providers, import nothing without consent and keep their time.           *)
FetchIsSafe == FetchTypeOK /\ MetaIsOfItsUrl /\ ConfigsNeedConsent /\ BudgetIsShared

(* An update takes a list away only by what the user or the device rules    *)
(* out, and does not overrule an opt-out.                                   *)
UpdateKeepsTheirs == OnlyWithheldEmpties /\ OptOutIsKept
=============================================================================
