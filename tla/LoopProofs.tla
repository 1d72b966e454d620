----------------------------- MODULE LoopProofs -----------------------------
(* Proofs about the two loops of the daemon: SubFetch, for any links,       *)
(* replies, filters and budgets and any number of edits and faults, and     *)
(* Tethering, for any downstreams and any number of changes of the phone,   *)
(* aborts, crashes and failed settings calls.                               *)
EXTENDS SubFetch, Tethering, TLAPS

-----------------------------------------------------------------------------
(* SubFetch.                                                                *)

(* The types of the saved subscription, of its entry and of a fetch.        *)
Asked == {"no", "pending", "granted", "rejected"}
Subs ==
    [there : BOOLEAN, link : Links, mode : Modes, filter : Filters, enabled : BOOLEAN,
     auto : BOOLEAN, own : BOOLEAN, paced : BOOLEAN, fallback : BOOLEAN, allow : BOOLEAN,
     asked : Asked, updated : BOOLEAN, failed : BOOLEAN, profiles : SUBSET ProfileKinds]
Entries ==
    [source : Links \ {Blank}, encrypted : BOOLEAN, meta : SUBSET (MetaKeys \X Links)]
Asking ==
    [phase : {"asking"}, link : Links \ {Blank}, mode : Modes, filter : Filters, allow : BOOLEAN,
     fallback : BOOLEAN, stored : Entries \cup {NoEntry}, merge : {"partial", "full"},
     up : BOOLEAN, hop : {"proxy", "direct"}, retries : Nat, spent : 0..Budget]
Landing ==
    [phase : {"landing"}, imported : BOOLEAN, filter : Filters, sent : SUBSET ProfileKinds,
     items : SUBSET ProfileKinds, record : Entries]
Recording == [phase : {"recording"}, record : Entries]
Failing == [phase : {"failing"}, consent : BOOLEAN]
Works == {Idle} \cup Asking \cup Landing \cup Recording \cup Failing

(* Every meta key came with the link its entry is filed under.              *)
OfItsUrl(e) == \A k \in e.meta : k[2] = e.source

(* What a fetch has in hand is of its own link, and holds or may bring full *)
(* configs only when the user has agreed at some time. What it lands is     *)
(* what the server sent, less what the device cannot run and what its       *)
(* filter holds back.                                                       *)
WorkOK(w, granted) ==
    /\ w.phase = "asking" => /\ w.stored = NoEntry \/ (w.stored.source = w.link /\ OfItsUrl(w.stored))
                             /\ w.allow => granted
    /\ w.phase = "landing" => /\ OfItsUrl(w.record) /\ ("config" \in w.items => granted)
                              /\ w.sent # {} /\ w.items = (w.sent \ Unavailable) \cap Passes[w.filter]
    /\ w.phase = "recording" => OfItsUrl(w.record)

Granted == sub.asked = "granted"

FetchInv ==
    /\ sub \in Subs /\ (sub.allow \/ "config" \in sub.profiles => Granted)
    /\ entry \in Entries \cup {NoEntry} /\ OfItsUrl(entry)
    /\ age \in 0..Horizon /\ tried \in 0..Horizon
    /\ proxyUp \in BOOLEAN
    /\ fetch \in [Fetchers -> Works]
    /\ \A f \in Fetchers : WorkOK(fetch[f], Granted)

-----------------------------------------------------------------------------
(* Ingest *)

(* Stored is an entry of the link, or none.                                 *)
StoredOf(e, link) == e = NoEntry \/ (e \in Entries /\ e.source = link /\ OfItsUrl(e))

(* The meta kept for a reply all came with the link that was asked.         *)
LEMMA MergedMetaType ==
  ASSUME NEW link \in Links, NEW reply \in Replies, NEW e, StoredOf(e, link), NEW merge
  PROVE  /\ MergedMeta(link, reply, e, merge) \subseteq MetaKeys \X Links
         /\ \A k \in MergedMeta(link, reply, e, merge) : k[2] = link
  <1> DEFINE fresh == Tagged(reply.keys, link)
             old == Tagged(Fragment[link], link)
  <1>1. fresh \subseteq MetaKeys \X Links /\ \A k \in fresh : k[2] = link
    BY DEF Tagged, MetaKeys
  <1>2. old \subseteq MetaKeys \X Links /\ \A k \in old : k[2] = link
    BY FetchConstants DEF Tagged, MetaKeys
  <1>3. e # NoEntry => e.meta \subseteq MetaKeys \X Links /\ \A k \in e.meta : k[2] = link
    BY DEF StoredOf, Entries, OfItsUrl
  <1> HIDE DEF fresh, old
  <1>4. MergedMeta(link, reply, e, merge) \subseteq fresh \cup (IF e # NoEntry THEN e.meta ELSE old)
    BY DEF MergedMeta, RefreshMerge, fresh, old
  <1> QED
    BY <1>1, <1>2, <1>3, <1>4

(* A reply yields at least one profile or is refused, and yields a full     *)
(* config only where that is allowed.                                       *)
LEMMA IngestYields ==
  ASSUME NEW link, NEW reply, NEW e, e.encrypted \in BOOLEAN, NEW merge, NEW allow \in BOOLEAN
  PROVE  \/ \E why : Ingest(link, reply, e, merge, allow) = Refused(why)
         \/ \E items \in SUBSET ProfileKinds, encrypted \in BOOLEAN :
              /\ Ingest(link, reply, e, merge, allow) = Yields(items, link, reply, e, merge, encrypted)
              /\ items # {} /\ ("config" \in items => allow)
  <1> DEFINE form == Parse(link, reply, e)
             encrypted == StoredEncrypted(e) \/ reply.body = "sealed"
             result == Ingest(link, reply, e, merge, allow)
  <1>1. encrypted \in BOOLEAN /\ StoredEncrypted(e) \in BOOLEAN
    BY DEF StoredEncrypted
  <1>2. \/ form \in DOMAIN ServersIn /\ result = Yields(ServersIn[form], link, reply, e, merge, encrypted)
        \/ result = Refused(form)
        \/ result = XrayConfigs(form, link, reply, e, merge, allow)
        \/ result = LegacyFallback(link, reply, e, merge)
    BY DEF Ingest
  <1> HIDE DEF form, encrypted, result
  <1>3. \A n \in DOMAIN ServersIn : /\ ServersIn[n] \subseteq ProfileKinds /\ ServersIn[n] # {}
                                    /\ "config" \notin ServersIn[n]
    BY DEF ServersIn, ProfileKinds
  <1>4. {"plain"} \subseteq ProfileKinds /\ {"config"} \subseteq ProfileKinds
    BY DEF ProfileKinds
  <1>5. \/ \E why : LegacyFallback(link, reply, e, merge) = Refused(why)
        \/ LegacyFallback(link, reply, e, merge) = Yields({"plain"}, link, reply, e, merge, StoredEncrypted(e))
    BY DEF LegacyFallback
  <1>6. \/ \E why : XrayConfigs(form, link, reply, e, merge, allow) = Refused(why)
        \/ allow /\ XrayConfigs(form, link, reply, e, merge, allow)
                       = Yields({"config"}, link, reply, e, merge, StoredEncrypted(e))
    BY DEF XrayConfigs
  <1> QED
    BY <1>1, <1>2, <1>3, <1>4, <1>5, <1>6 DEF result

(* A reply leads a fetch to a landing of its own link's record, or to a     *)
(* failure.                                                                 *)
LEMMA IngestedType ==
  ASSUME NEW w \in Asking, NEW granted \in BOOLEAN, WorkOK(w, granted), NEW reply \in Replies
  PROVE  /\ Ingested(w, reply) \in Landing \cup Failing
         /\ WorkOK(Ingested(w, reply), granted)
  <1> DEFINE got == Ingest(w.link, reply, w.stored, w.merge, w.allow)
  <1>1. /\ w.link \in Links \ {Blank} /\ w.allow \in BOOLEAN /\ w.phase = "asking"
        /\ w.filter \in Filters
        /\ StoredOf(w.stored, w.link) /\ w.stored.encrypted \in BOOLEAN /\ (w.allow => granted)
    <2>1. /\ w.link \in Links \ {Blank} /\ w.allow \in BOOLEAN /\ w.phase = "asking"
          /\ w.filter \in Filters /\ w.stored \in Entries \cup {NoEntry}
      BY DEF Asking
    <2>2. StoredOf(w.stored, w.link) /\ (w.allow => granted)
      BY <2>1 DEF WorkOK, StoredOf
    <2>3. NoEntry.encrypted \in BOOLEAN
      BY DEF NoEntry
    <2>4. \A e \in Entries : e.encrypted \in BOOLEAN
      BY DEF Entries
    <2> QED
      BY <2>1, <2>2, <2>3, <2>4
  <1>2. CASE \E why : got = Refused(why)
    <2>1. PICK why : got = Refused(why)
      BY <1>2
    <2>2. Ingested(w, reply) = Failed(why)
      BY <2>1 DEF Ingested, WithholdUnavailable, Refused
    <2>3. Ingested(w, reply) \in Failing /\ Ingested(w, reply).phase = "failing"
      BY <2>2 DEF Failed, Failing
    <2> QED
      BY <2>3 DEF WorkOK, Landing, Failing
  <1>3. CASE \E items \in SUBSET ProfileKinds, encrypted \in BOOLEAN :
               /\ got = Yields(items, w.link, reply, w.stored, w.merge, encrypted)
               /\ items # {} /\ ("config" \in items => w.allow)
    <2>1. PICK items \in SUBSET ProfileKinds, encrypted \in BOOLEAN :
               /\ got = Yields(items, w.link, reply, w.stored, w.merge, encrypted)
               /\ items # {} /\ ("config" \in items => w.allow)
      BY <1>3
    <2> DEFINE meta == MergedMeta(w.link, reply, w.stored, w.merge)
               left == (items \ Unavailable) \cap Passes[w.filter]
               done == [phase |-> "landing", imported |-> w.stored = NoEntry, filter |-> w.filter,
                        sent |-> items, items |-> left,
                        record |-> [source |-> w.link, encrypted |-> encrypted, meta |-> meta]]
    <2>2. meta \subseteq MetaKeys \X Links /\ \A k \in meta : k[2] = w.link
      BY <1>1, MergedMetaType
    <2> HIDE DEF meta
    <2>3. got = [kind |-> "yields", items |-> items, encrypted |-> encrypted, meta |-> meta]
      BY <2>1 DEF Yields, meta
    <2>4. Ingested(w, reply) = done
      <3> HIDE DEF got
      <3>1. WithholdUnavailable(got) = [kind |-> "yields", items |-> items \ Unavailable, encrypted |-> encrypted, meta |-> meta]
        BY <2>3 DEF WithholdUnavailable
      <3>2. Ingested(w, reply) =
              IF WithholdUnavailable(got).kind = "refused" THEN Failed(WithholdUnavailable(got).why)
              ELSE [phase |-> "landing", imported |-> w.stored = NoEntry, filter |-> w.filter,
                    sent |-> got.items, items |-> Mapped(WithholdUnavailable(got).items, w.filter),
                    record |-> RecordAfter(w.link, WithholdUnavailable(got))]
        BY Zenon DEF Ingested, got
      <3> QED
        BY <2>3, <3>1, <3>2 DEF RecordAfter, Mapped
    <2>5. done \in Landing /\ done.phase = "landing" /\ OfItsUrl(done.record)
      BY <1>1, <2>2 DEF Landing, Entries, OfItsUrl
    <2>6. WorkOK(done, granted)
      BY <1>1, <2>1, <2>5 DEF WorkOK
    <2> QED
      BY <2>4, <2>5, <2>6
  <1> QED
    BY <1>1, <1>2, <1>3, IngestYields

(* A failed request leads on to another, or to the error; no attempt is     *)
(* charged past the budget.                                                 *)
LEMMA AfterFailureType ==
  ASSUME NEW w \in Asking, NEW granted \in BOOLEAN, WorkOK(w, granted), NEW transport \in BOOLEAN
  PROVE  AfterFailure(w, transport) \in Asking \cup Failing /\ WorkOK(AfterFailure(w, transport), granted)
  <1>1. Failed("network") \in Failing /\ WorkOK(Failed("network"), granted)
    BY DEF Failed, Failing, WorkOK
  <1>2. FirstHop(w.mode, w.up) \in {"proxy", "direct"}
    BY DEF FirstHop
  <1> DEFINE a == [w EXCEPT !.hop = "direct"]
             b == [w EXCEPT !.retries = @ - 1, !.hop = FirstHop(w.mode, w.up)]
             c == [w EXCEPT !.fallback = FALSE, !.merge = "partial", !.retries = Retries,
                            !.hop = FirstHop(w.mode, w.up)]
  <1>3. a \in Asking /\ WorkOK(a, granted)
    BY DEF Asking, WorkOK
  <1>4. Retried(w, transport) => b \in Asking /\ WorkOK(b, granted)
    <2>1. w.retries \in Nat
      BY DEF Asking
    <2>2. Retried(w, transport) => w.retries - 1 \in Nat
      BY <2>1 DEF Retried
    <2> QED
      BY <1>2, <2>2 DEF Asking, WorkOK
  <1>5. c \in Asking /\ WorkOK(c, granted)
    BY <1>2, FetchConstants DEF Asking, WorkOK
  <1> HIDE DEF a, b, c
  <1>6. AfterFailure(w, transport) \in {a, c, Failed("network")} \/ (Retried(w, transport) /\ AfterFailure(w, transport) = b)
    BY DEF AfterFailure, a, b, c
  <1> QED
    BY <1>1, <1>3, <1>4, <1>5, <1>6

(* What a fetch begins with.                                                *)
LEMMA BegunType ==
  ASSUME FetchInv, Startable, NEW merge \in {"partial", "full"}
  PROVE  Begun(merge) \in Asking \cup Failing /\ WorkOK(Begun(merge), Granted)
  <1>1. NotBegun \in Failing /\ WorkOK(NotBegun, Granted)
    BY DEF NotBegun, Failed, Failing, WorkOK
  <1>2. ASSUME sub.link \notin Unreadable
        PROVE  Begun(merge) \in Asking /\ WorkOK(Begun(merge), Granted)
    <2> DEFINE stored == StoredForUrl(entry, sub.link)
    <2>1. stored \in Entries \cup {NoEntry} /\ (stored = NoEntry \/ (stored.source = sub.link /\ OfItsUrl(stored)))
      BY DEF FetchInv, StoredForUrl
    <2>2. /\ sub.link \in Links \ {Blank} /\ sub.mode \in Modes /\ sub.allow \in BOOLEAN
          /\ sub.filter \in Filters /\ sub.fallback \in BOOLEAN /\ (sub.allow => Granted)
      BY DEF FetchInv, Subs, Startable
    <2>3. 0 \in 0..Budget /\ Retries \in Nat /\ FirstHop(sub.mode, proxyUp) \in {"proxy", "direct"}
      BY FetchConstants DEF FirstHop
    <2>4. proxyUp \in BOOLEAN
      BY DEF FetchInv
    <2> HIDE DEF stored
    <2>5. Begun(merge) =
            [phase |-> "asking", link |-> sub.link, mode |-> sub.mode, filter |-> sub.filter,
             allow |-> sub.allow, fallback |-> sub.fallback, stored |-> stored, merge |-> merge,
             up |-> proxyUp, hop |-> FirstHop(sub.mode, proxyUp), retries |-> Retries, spent |-> 0]
      BY <1>2 DEF Begun, stored
    <2> QED
      BY <2>1, <2>2, <2>3, <2>4, <2>5 DEF Asking, WorkOK
  <1> QED
    BY <1>1, <1>2 DEF Begun

-----------------------------------------------------------------------------
(* The invariant *)

(* A step that gives one fetcher other work, and touches neither the        *)
(* subscription nor its entry.                                              *)
LEMMA WorkStep ==
  ASSUME FetchInv, NEW f \in Fetchers, NEW w \in Works, WorkOK(w, Granted),
         fetch' = [fetch EXCEPT ![f] = w], age' \in 0..Horizon, tried' \in 0..Horizon,
         UNCHANGED <<sub, entry, proxyUp>>
  PROVE  FetchInv'
  <1> QED
    BY DEF FetchInv, Granted, WorkOK, OfItsUrl

(* A step on the saved subscription keeps a consent that was given.         *)
LEMMA SubStep ==
  ASSUME FetchInv, sub' \in Subs, Granted => Granted',
         sub'.allow \/ "config" \in sub'.profiles => Granted',
         age' \in 0..Horizon, UNCHANGED <<entry, tried, proxyUp>>,
         \/ UNCHANGED fetch
         \/ \E f \in Fetchers, w \in Works : WorkOK(w, Granted') /\ fetch' = [fetch EXCEPT ![f] = w]
  PROVE  FetchInv'
  <1> USE DEF FetchInv
  <1>1. Granted \in BOOLEAN /\ Granted' \in BOOLEAN
    BY DEF Granted
  <1>2. \A f \in Fetchers : WorkOK(fetch[f], Granted')
    BY <1>1 DEF WorkOK
  <1>3. fetch' \in [Fetchers -> Works] /\ \A f \in Fetchers : WorkOK(fetch'[f], Granted')
    BY <1>2
  <1>4. OfItsUrl(entry)'
    BY DEF OfItsUrl
  <1> QED
    BY <1>3, <1>4

LEMMA FetchInitInv == FetchInit => FetchInv
  BY FetchConstants DEF FetchInit, FetchInv, NewSub, Subs, Asked, NoEntry, OfItsUrl, Works, Idle, WorkOK, Granted, ProfileKinds

LEMMA Untouched == FetchInv /\ UNCHANGED fetchVars => FetchInv'
  BY DEF FetchInv, fetchVars, Granted, WorkOK, OfItsUrl

(* Each step of a fetch keeps the invariant.                                *)
LEMMA FetchWorkStep ==
  ASSUME FetchInv, NEW f \in Fetchers, FetchWork(f)
  PROVE  FetchInv'
  <1> USE DEF Granted
  <1>1. fetch[f] \in Works /\ WorkOK(fetch[f], Granted)
    BY DEF FetchInv
  <1>2. /\ fetch[f].phase = "asking" => fetch[f] \in Asking
        /\ fetch[f].phase = "landing" => fetch[f] \in Landing
        /\ fetch[f].phase = "recording" => fetch[f] \in Recording
        /\ fetch[f].phase = "failing" => fetch[f] \in Failing
    BY <1>1 DEF Works, Idle, Asking, Landing, Recording, Failing
  <1>3. Idle \in Works /\ \A g : WorkOK(Idle, g)
    BY DEF Works, Idle, WorkOK
  <1>4. age \in 0..Horizon /\ tried \in 0..Horizon /\ 0 \in 0..Horizon
    BY FetchConstants DEF FetchInv
  <1>5. ASSUME NEW reply \in Replies, Answered(f, reply) PROVE FetchInv'
    <2>1. Ingested(fetch[f], reply) \in Works /\ WorkOK(Ingested(fetch[f], reply), Granted)
      BY <1>1, <1>2, <1>5, IngestedType DEF Answered, CanAsk, Works
    <2> QED
      BY <1>4, <1>5, <2>1, WorkStep DEF Answered
  <1>6. ASSUME NEW waited \in BOOLEAN, NEW transport \in BOOLEAN, RequestFails(f, waited, transport)
        PROVE  FetchInv'
    <2> DEFINE w == Charged(fetch[f], waited)
    <2>1. fetch[f] \in Asking /\ Left(fetch[f]) > 0
      BY <1>2, <1>6 DEF RequestFails, CanAsk
    <2>2. fetch[f].spent + (IF waited THEN AttemptTimeout(fetch[f]) ELSE 0) \in 0..Budget
      <3>1. fetch[f].spent \in 0..Budget
        BY <2>1 DEF Asking
      <3> QED
        BY <2>1, <3>1, FetchConstants DEF AttemptTimeout, Left, SmallerOf
    <2>3. w \in Asking /\ WorkOK(w, Granted)
      BY <1>1, <2>1, <2>2 DEF Asking, WorkOK, Charged
    <2> HIDE DEF w
    <2>4. AfterFailure(w, transport) \in Works /\ WorkOK(AfterFailure(w, transport), Granted)
      BY <2>3, AfterFailureType DEF Works
    <2>5. fetch' = [fetch EXCEPT ![f] = AfterFailure(w, transport)]
      BY <1>6 DEF RequestFails, w
    <2> QED
      BY <1>4, <1>6, <2>4, <2>5, WorkStep DEF RequestFails
  <1>7. CASE NoRequest(f)
    <2> DEFINE w == [fetch[f] EXCEPT !.hop = "direct"]
    <2>1. w \in Asking /\ WorkOK(w, Granted)
      BY <1>1, <1>2, <1>7 DEF NoRequest, Asking, WorkOK
    <2> HIDE DEF w
    <2>2. AfterFailure(w, FALSE) \in Works /\ WorkOK(AfterFailure(w, FALSE), Granted)
      BY <2>1, AfterFailureType DEF Works
    <2>3. fetch' = [fetch EXCEPT ![f] = AfterFailure(w, FALSE)]
      BY <1>7 DEF NoRequest, w
    <2> QED
      BY <1>4, <1>7, <2>2, <2>3, WorkStep DEF NoRequest
  <1>8. CASE Land(f)
    <2>1. fetch[f] \in Landing
      BY <1>2, <1>8 DEF Land
    <2>2. CASE MayApply(f)
      <3> DEFINE w == [phase |-> "recording", record |-> fetch[f].record]
      <3>1. w \in Works /\ WorkOK(w, Granted')
        BY <1>1, <2>1 DEF Works, Recording, Landing, WorkOK
      <3>2. /\ sub' \in Subs /\ sub'.profiles = fetch[f].items /\ sub'.allow = sub.allow
            /\ sub.asked = "granted" => sub'.asked = "granted"
        <4> DEFINE s == [sub EXCEPT !.profiles = fetch[f].items, !.updated = TRUE, !.failed = FALSE,
                                    !.asked = IF @ = "pending" THEN "no" ELSE @]
        <4>1. sub \in Subs /\ fetch[f].items \subseteq ProfileKinds
          BY <2>1 DEF FetchInv, Landing
        <4>2. /\ s \in Subs /\ s.profiles = fetch[f].items /\ s.allow = sub.allow
              /\ sub.asked = "granted" => s.asked = "granted"
          BY <4>1 DEF Subs, Asked
        <4> HIDE DEF s
        <4>3. /\ SentInterval(fetch[f].record.meta) \in BOOLEAN
              /\ (s.auto \/ (FirstImport(fetch[f], sub) /\ SentInterval(fetch[f].record.meta))) \in BOOLEAN
          BY <4>2 DEF SentInterval, FirstImport, Subs
        <4>4. sub' = [s EXCEPT !.paced = SentInterval(fetch[f].record.meta),
                               !.auto = @ \/ (FirstImport(fetch[f], sub) /\ SentInterval(fetch[f].record.meta))]
          BY <1>8, <2>2 DEF Land, AppliedSub, ApplyAuto, s
        <4> QED
          BY <4>2, <4>3, <4>4 DEF Subs
      <3>3. sub'.allow \/ "config" \in sub'.profiles => Granted'
        BY <1>1, <1>8, <3>2 DEF Land, WorkOK, FetchInv
      <3>4. fetch' = [fetch EXCEPT ![f] = w] /\ age' = 0 /\ UNCHANGED <<entry, tried, proxyUp>>
        BY <1>8, <2>2 DEF Land
      <3> HIDE DEF w
      <3> QED
        BY <1>4, <3>1, <3>2, <3>3, <3>4, SubStep
    <2>3. CASE ~MayApply(f)
      BY <1>3, <1>4, <1>8, <2>3, WorkStep DEF Land
    <2> QED
      BY <2>2, <2>3
  <1>9. CASE WriteEntry(f)
    <2>1. fetch[f].record \in Entries /\ OfItsUrl(fetch[f].record)
      BY <1>1, <1>2, <1>9 DEF WriteEntry, Recording, WorkOK
    <2>2. entry' = fetch[f].record /\ fetch' = [fetch EXCEPT ![f] = Idle]
          /\ UNCHANGED <<sub, age, tried, proxyUp>>
      BY <1>9 DEF WriteEntry
    <2>3. entry' \in Entries /\ OfItsUrl(entry)'
      BY <2>1, <2>2 DEF OfItsUrl
    <2>4. fetch' \in [Fetchers -> Works] /\ \A g \in Fetchers : WorkOK(fetch'[g], Granted')
      BY <1>3, <2>2 DEF FetchInv
    <2> QED
      BY <2>2, <2>3, <2>4 DEF FetchInv
  <1>10. CASE RecordError(f)
    <2>1. sub' \in Subs /\ sub'.allow = sub.allow /\ sub'.profiles = sub.profiles
          /\ (sub.asked = "granted" => sub'.asked = "granted")
      BY <1>10 DEF RecordError, Noted, FetchInv, Subs, Asked
    <2>2. sub'.allow \/ "config" \in sub'.profiles => Granted'
      BY <2>1 DEF FetchInv
    <2>3. fetch' = [fetch EXCEPT ![f] = Idle] /\ age' = age /\ UNCHANGED <<entry, tried, proxyUp>>
      BY <1>10 DEF RecordError
    <2> QED
      BY <1>3, <1>4, <2>1, <2>2, <2>3, SubStep
  <1> QED
    BY <1>5, <1>6, <1>7, <1>8, <1>9, <1>10 DEF FetchWork

(* Each edit of the user keeps the invariant: consent comes by an answer.   *)
LEMMA UserStepInv ==
  ASSUME FetchInv, UserStep
  PROVE  FetchInv'
  <1>1. CASE UpdateNow
    <2>1. PICK w \in IF Startable THEN {Begun("full"), NotBegun} ELSE {NotBegun} :
            fetch' = [fetch EXCEPT !["user"] = w]
      BY <1>1 DEF UpdateNow
    <2>2. NotBegun \in Works /\ WorkOK(NotBegun, Granted)
      BY DEF NotBegun, Failed, Works, Failing, WorkOK
    <2>3. w \in Works /\ WorkOK(w, Granted)
      BY <2>1, <2>2, BegunType DEF Works
    <2>4. /\ "user" \in Fetchers /\ age' \in 0..Horizon /\ tried' \in 0..Horizon
          /\ UNCHANGED <<sub, entry, proxyUp>>
      BY <1>1 DEF UpdateNow, Fetchers, FetchInv
    <2> QED
      BY <2>1, <2>3, <2>4, WorkStep
  <1>2. ASSUME NEW s \in Subs, Edited(s), Granted => s.asked = "granted",
               s.allow \/ "config" \in s.profiles => s.asked = "granted"
        PROVE  FetchInv'
    <2>1. /\ sub' = s /\ age' \in 0..Horizon /\ UNCHANGED <<entry, tried, proxyUp, fetch>>
      BY <1>2 DEF Edited, FetchInv
    <2>2. Granted' <=> s.asked = "granted"
      BY <2>1 DEF Granted
    <2> QED
      BY <1>2, <2>1, <2>2, SubStep
  <1>3. sub \in Subs /\ (sub.allow \/ "config" \in sub.profiles => sub.asked = "granted")
    BY DEF FetchInv, Granted
  <1>4. ASSUME NEW link \in Links, EditLink(link) PROVE FetchInv'
    BY <1>2, <1>3, <1>4 DEF EditLink, Subs, Granted
  <1>10. ASSUME NEW filter \in Filters, EditFilter(filter) PROVE FetchInv'
    BY <1>2, <1>3, <1>10 DEF EditFilter, Subs, Granted
  <1>5. CASE ToggleAuto
    BY <1>2, <1>3, <1>5 DEF ToggleAuto, Subs, Granted
  <1>6. CASE ToggleEnabled
    BY <1>2, <1>3, <1>6 DEF ToggleEnabled, Subs, Granted
  <1>7. CASE Remove
    BY <1>2, <1>3, <1>7 DEF Remove, Subs, Granted
  <1>8. ASSUME NEW accept \in BOOLEAN, Answer(accept) PROVE FetchInv'
    BY <1>2, <1>3, <1>8 DEF Answer, Subs, Asked, Granted
  <1>9. CASE Withdraw
    BY <1>2, <1>3, <1>9 DEF Withdraw, Subs, Granted
  <1> QED
    BY <1>1, <1>4, <1>5, <1>6, <1>7, <1>8, <1>9, <1>10 DEF UserStep

LEMMA FetchStep == FetchInv /\ [FetchNext]_fetchVars => FetchInv'
  <1> SUFFICES ASSUME FetchInv, [FetchNext]_fetchVars PROVE FetchInv'
    OBVIOUS
  <1>1. Idle \in Works /\ \A g : WorkOK(Idle, g)
    BY DEF Works, Idle, WorkOK
  <1>2. age \in 0..Horizon /\ tried \in 0..Horizon /\ 0 \in 0..Horizon /\ Horizon \in 0..Horizon
    BY FetchConstants DEF FetchInv
  <1>3. CASE Tick
    <2>1. PICK w \in IF Startable THEN {Begun("partial"), NotBegun} ELSE {Idle} :
            fetch' = [fetch EXCEPT !["tick"] = w]
      BY <1>3 DEF Tick
    <2>2. NotBegun \in Works /\ WorkOK(NotBegun, Granted)
      BY DEF NotBegun, Failed, Works, Failing, WorkOK
    <2>3. w \in Works /\ WorkOK(w, Granted)
      BY <1>1, <2>1, <2>2, BegunType DEF Works
    <2>4. /\ "tick" \in Fetchers /\ age' \in 0..Horizon /\ tried' \in 0..Horizon
          /\ UNCHANGED <<sub, entry, proxyUp>>
      BY <1>2, <1>3 DEF Tick, Fetchers
    <2> QED
      BY <2>1, <2>3, <2>4, WorkStep
  <1>4. ASSUME NEW f \in Fetchers, FetchWork(f) PROVE FetchInv'
    BY <1>4, FetchWorkStep
  <1>5. CASE UserStep
    BY <1>5, UserStepInv
  <1>6. CASE Clock
    <2>1. age' \in 0..Horizon /\ tried' \in 0..Horizon
      BY <1>2, <1>6, FetchConstants DEF Clock, SmallerOf
    <2> QED
      BY <1>6, <2>1 DEF Clock, FetchInv, Granted, WorkOK, OfItsUrl
  <1>7. CASE CoreFlips
    BY <1>7 DEF CoreFlips, FetchInv, Granted, WorkOK, OfItsUrl
  <1>8. CASE ProcessEnds
    BY <1>1, <1>2, <1>8 DEF ProcessEnds, FetchInv, Granted, OfItsUrl
  <1>9. CASE LoseEntry
    BY <1>9 DEF LoseEntry, FetchInv, Granted, WorkOK, OfItsUrl, NoEntry
  <1>10. CASE UNCHANGED fetchVars
    BY <1>10, Untouched
  <1> QED
    BY <1>3, <1>4, <1>5, <1>6, <1>7, <1>8, <1>9, <1>10 DEF FetchNext

(* Whatever providers answer and whatever order fetches, edits, answers and *)
(* faults come in: stored meta is of its own link, a full config is only    *)
(* there after consent, and no fetch takes more than its budget (ingest,    *)
(* apply, fetch_like_happ).                                                 *)
THEOREM FetchesAreSafe == FetchSpec => []FetchIsSafe
  <1>1. FetchInv => FetchIsSafe
    <2> SUFFICES ASSUME FetchInv PROVE FetchIsSafe
      OBVIOUS
    <2>1. /\ sub.link \in Links /\ sub.mode \in Modes /\ sub.filter \in Filters
          /\ sub.asked \in Asked /\ sub.profiles \subseteq ProfileKinds
      BY DEF FetchInv, Subs
    <2>2. entry # NoEntry => /\ entry.source \in Links \ {Blank} /\ entry.encrypted \in BOOLEAN
                             /\ entry.meta \subseteq MetaKeys \X Links
      BY DEF FetchInv, Entries
    <2>3. \A f \in Fetchers : fetch[f].phase \in {"idle", "asking", "landing", "recording", "failing"}
      BY DEF FetchInv, Works, Idle, Asking, Landing, Recording, Failing
    <2>4. FetchTypeOK
      BY <2>1, <2>2, <2>3 DEF FetchInv, FetchTypeOK, Asked
    <2>5. BudgetIsShared
      <3> SUFFICES ASSUME NEW f \in Fetchers, fetch[f].phase = "asking" PROVE fetch[f].spent <= Budget
        BY DEF BudgetIsShared
      <3>1. fetch[f] \in Works
        BY DEF FetchInv
      <3>2. fetch[f] \in Asking
        BY <3>1 DEF Works, Idle, Asking, Landing, Recording, Failing
      <3>3. fetch[f].spent \in 0..Budget
        BY <3>2 DEF Asking
      <3> QED
        BY <3>3, FetchConstants
    <2> QED
      BY <2>4, <2>5 DEF FetchInv, FetchIsSafe, MetaIsOfItsUrl, OfItsUrl, ConfigsNeedConsent, Granted
  <1> QED
    BY <1>1, FetchInitInv, FetchStep, PTL DEF FetchSpec

-----------------------------------------------------------------------------
(* What an update never does *)

(* On any device and with any filter no update, late, repeated or crossed   *)
(* by edits, empties a list unless every profile the server sent is one the *)
(* device cannot run or the filter holds back, and none turns the user's    *)
(* switch back on (fetch_and_map, apply). That those two are not kept from  *)
(* emptying it is run list_wiped.                                           *)
THEOREM UpdatesKeepTheirs == FetchSpec => UpdateKeepsTheirs
  <1>1. FetchInv /\ [FetchNext]_fetchVars =>
          [\A f \in Fetchers :
             (Land(f) \/ RecordError(f)) /\ sub.profiles # {} /\ sub'.profiles = {} =>
                /\ fetch[f].phase = "landing" /\ fetch[f].sent # {}
                /\ fetch[f].sent \subseteq Unavailable \cup (ProfileKinds \ Passes[fetch[f].filter])]_fetchVars
    <2> SUFFICES ASSUME FetchInv, NEW f \in Fetchers, Land(f) \/ RecordError(f),
                        sub.profiles # {}, sub'.profiles = {}
                 PROVE  /\ fetch[f].phase = "landing" /\ fetch[f].sent # {}
                        /\ fetch[f].sent \subseteq Unavailable \cup (ProfileKinds \ Passes[fetch[f].filter])
      OBVIOUS
    <2>1. sub \in Subs /\ fetch[f] \in Works /\ WorkOK(fetch[f], Granted)
      BY DEF FetchInv
    <2>2. CASE Land(f)
      <3>1. fetch[f].phase = "landing" /\ fetch[f] \in Landing
        BY <2>1, <2>2 DEF Land, Works, Idle, Asking, Landing, Recording, Failing
      <3>2. sub'.profiles = fetch[f].items
        BY <2>1, <2>2 DEF Land, AppliedSub, ApplyAuto, Subs
      <3>3. fetch[f].sent # {} /\ (fetch[f].sent \ Unavailable) \cap Passes[fetch[f].filter] = {}
        BY <2>1, <3>1, <3>2 DEF WorkOK
      <3>4. fetch[f].sent \subseteq ProfileKinds
        BY <3>1 DEF Landing
      <3> QED
        BY <3>1, <3>3, <3>4
    <2>3. CASE RecordError(f)
      BY <2>1, <2>3 DEF RecordError, Noted, Subs
    <2> QED
      BY <2>2, <2>3
  <1>2. FetchInv /\ [FetchNext]_fetchVars =>
          [sub.updated /\ ~sub.auto /\ sub'.auto => ToggleAuto]_fetchVars
    <2> SUFFICES ASSUME FetchInv, FetchNext, sub.updated, ~sub.auto, sub'.auto
                 PROVE  ToggleAuto
      BY DEF fetchVars
    <2>1. sub \in Subs
      BY DEF FetchInv
    <2>2. ASSUME NEW f \in Fetchers, Land(f) PROVE FALSE
      <3>1. MayApply(f)
        BY <2>2 DEF Land
      <3>2. ~FirstImport(fetch[f], sub)
        BY DEF FirstImport
      <3>3. sub'.auto = sub.auto
        BY <2>1, <2>2, <3>1, <3>2 DEF Land, AppliedSub, ApplyAuto, Subs
      <3> QED
        BY <3>3
    <2>3. ASSUME NEW f \in Fetchers, RecordError(f) PROVE FALSE
      BY <2>1, <2>3 DEF RecordError, Noted, Subs
    <2>4. ASSUME NEW f \in Fetchers, FetchWork(f) PROVE FALSE
      <3>1. sub' = sub \/ Land(f) \/ RecordError(f)
        BY <2>4 DEF FetchWork, Answered, RequestFails, NoRequest, WriteEntry
      <3> QED
        BY <2>2, <2>3, <3>1
    <2>5. Tick \/ Clock \/ CoreFlips \/ ProcessEnds \/ LoseEntry => FALSE
      BY DEF Tick, Clock, CoreFlips, ProcessEnds, LoseEntry
    <2>6. UserStep => ToggleAuto
      <3>1. ASSUME NEW filter \in Filters, EditFilter(filter) PROVE FALSE
        BY <2>1, <3>1 DEF EditFilter, Edited, Subs
      <3>2. ASSUME NEW link \in Links, EditLink(link) PROVE FALSE
        BY <2>1, <3>2 DEF EditLink, Edited, Subs
      <3>4. ~UpdateNow
        BY DEF UpdateNow
      <3>5. ~ToggleEnabled
        BY <2>1 DEF ToggleEnabled, Edited, Subs
      <3>6. ~Remove
        BY <2>1 DEF Remove, Edited, Subs
      <3>7. ASSUME NEW accept \in BOOLEAN, Answer(accept) PROVE FALSE
        BY <2>1, <3>7 DEF Answer, Edited, Subs
      <3>8. ~Withdraw
        BY <2>1 DEF Withdraw, Edited, Subs
      <3> QED
        BY <3>1, <3>2, <3>4, <3>5, <3>6, <3>7, <3>8 DEF UserStep
    <2> QED
      BY <2>4, <2>5, <2>6 DEF FetchNext
  <1> QED
    BY <1>1, <1>2, FetchInitInv, FetchStep, PTL DEF FetchSpec, UpdateKeepsTheirs, OnlyWithheldEmpties, OptOutIsKept

-----------------------------------------------------------------------------
(* Tethering.                                                               *)

TypeInv ==
    /\ TetherTypeOK
    /\ phone \in [user : UserValues, pinnable : BOOLEAN]
    /\ want \subseteq Downstreams /\ applied \subseteq Downstreams

(* Until a put whose caller gave up lands, a value on file is the user's,   *)
(* the file is empty before the save, the setting is the user's before the  *)
(* put and after the restore.                                               *)
Landed == late = "landed"
RecordInv ==
    /\ step \in {"dump", "save"} => saved = "none"
    /\ step = "put" => saved # "none"
    /\ Landed \/ (/\ saved = "none" \/ saved = phone.user
                  /\ setting = phone.user \/ saved = phone.user
                  /\ step \in {"put", "drop"} \/ life = "drop" => setting = phone.user)

(* After the removal only what it failed on is left, filters are only on    *)
(* what the last poll held or could not hand back, and the rules of what is *)
(* applied that went in stay until it is cleared; only routes go, with      *)
(* their device.                                                            *)
Standing(ifaces) == {r \in TetherPlan(ifaces) : r.kind \notin Routes}
RulesInv ==
    /\ life \in {"restore", "drop", "stopped"} => rules \subseteq stuck /\ pins \subseteq StuckPins
    /\ life = "up" => pins \subseteq heldOff \cup StuckPins /\ step # "none"
    /\ step = "sleep" => heldOff = applied
    /\ step \notin {"none", "install"} => Standing(applied) \subseteq rules \cup missed

TetherInv == TypeInv /\ RecordInv /\ RulesInv

-----------------------------------------------------------------------------
LEMMA PlanType ==
  ASSUME NEW ifaces \in SUBSET Downstreams
  PROVE  /\ TetherPlan(ifaces) \subseteq [kind : Kinds, on : Downstreams \cup {"all"}]
         /\ Standing({}) = {}
  BY DEF TetherPlan, Standing, Kinds, PerDownstream, Hooks

LEMMA TetherInitInv == TetherInit => TetherInv
  <1> SUFFICES ASSUME TetherInit PROVE TetherInv
    OBVIOUS
  <1>1. phone.user \in UserValues /\ UserValues \subseteq {"null", "0", "1"}
    BY TetherConstants DEF TetherInit
  <1>2. TypeInv
    BY <1>1 DEF TetherInit, TypeInv, TetherTypeOK, Teardown, WatchSteps
  <1> QED
    BY <1>2 DEF TetherInit, TetherInv, RecordInv, RulesInv

(* The phone's steps: what Android does to devices and programs.            *)
LEMMA PhoneStep ==
  ASSUME TetherInv, NEW i \in Downstreams, Tether(i) \/ Address(i) \/ Untether(i) \/ Reattach(i)
  PROVE  TetherInv'
  <1> USE DEF TetherInv, TypeInv, TetherTypeOK, RecordInv, RulesInv, Landed, daemonVars, phoneVars, ledger, StuckPins
  <1>1. CASE Tether(i)
    BY <1>1 DEF Tether, Standing, TetherPlan
  <1>2. CASE Address(i)
    BY <1>2 DEF Address, Standing, TetherPlan
  <1>3. CASE Untether(i)
    BY <1>3 DEF Untether, Standing, TetherPlan
  <1>4. CASE Reattach(i)
    BY <1>4 DEF Reattach, Standing, TetherPlan
  <1> QED
    BY <1>1, <1>2, <1>3, <1>4

(* The watcher's steps.                                                     *)
LEMMA WatchInv ==
  ASSUME TetherInv, WatchStep
  PROVE  TetherInv'
  <1> USE DEF TetherInv, TypeInv, TetherTypeOK, WatchSteps, androidVars, phoneVars, ledger, StuckPins
  <1>1. phone.user \in {"null", "0", "1"}
    BY TetherConstants
  <1>2. CASE ReadOption
    <2>1. TypeInv'
      BY <1>2 DEF ReadOption, Detect
    <2>2. RecordInv'
      BY <1>2 DEF ReadOption, RecordInv, Landed
    <2>3. RulesInv'
      BY <1>2 DEF ReadOption, RulesInv, Standing, TetherPlan
    <2> QED
      BY <2>1, <2>2, <2>3
  <1>3. CASE ReadDump
    BY <1>3 DEF ReadDump, RecordInv, Landed, RulesInv, Standing, TetherPlan
  <1>4. CASE SaveSetting
    <2>1. TypeInv'
      BY <1>4 DEF SaveSetting
    <2>2. RecordInv'
      BY <1>4, <1>1 DEF SaveSetting, RecordInv, Landed
    <2>3. RulesInv'
      BY <1>4 DEF SaveSetting, RulesInv, Standing, TetherPlan
    <2> QED
      BY <2>1, <2>2, <2>3
  <1>5. CASE PutSetting
    <2>1. TypeInv'
      BY <1>5 DEF PutSetting
    <2>2. RecordInv'
      BY <1>5, <1>1 DEF PutSetting, RecordInv, Landed
    <2>3. RulesInv'
      BY <1>5 DEF PutSetting, RulesInv, Standing, TetherPlan
    <2> QED
      BY <2>1, <2>2, <2>3
  <1>6. CASE RestoreSetting
    <2>1. TypeInv'
      BY <1>6 DEF RestoreSetting, RestoreValue
    <2>2. RecordInv'
      BY <1>6, <1>1 DEF RestoreSetting, RestoreValue, RecordInv, Landed
    <2>3. RulesInv'
      BY <1>6 DEF RestoreSetting, RulesInv, Standing, TetherPlan
    <2> QED
      BY <2>1, <2>2, <2>3
  <1>7. CASE DropSaved
    <2>1. TypeInv'
      BY <1>7 DEF DropSaved
    <2>2. RecordInv'
      BY <1>7, <1>1 DEF DropSaved, RecordInv, Landed
    <2>3. RulesInv'
      BY <1>7 DEF DropSaved, RulesInv, Standing, TetherPlan
    <2> QED
      BY <2>1, <2>2, <2>3
  <1>8. CASE CheckPlan
    <2>1. TypeInv' /\ RecordInv'
      BY <1>8 DEF CheckPlan, ClearUnless, FailSets, RecordInv, Landed
    <2>2. StuckPins' = StuckPins
      <3>1. CASE UNCHANGED stuck
        BY <3>1
      <3>2. CASE \E left \in FailSets(rules) : stuck' = left \cup {c \in stuck : c.kind = "pin"}
        <4>1. "pin" \notin Kinds
          BY DEF Kinds, PerDownstream
        <4>2. \A c \in rules : c.kind # "pin"
          BY <4>1
        <4>3. \A i \in Downstreams : Pin(i).kind = "pin"
          BY DEF Pin
        <4> QED
          BY <3>2, <4>2, <4>3 DEF FailSets
      <3> QED
        BY <1>8, <3>1, <3>2 DEF CheckPlan, ClearUnless
    <2>3. RulesInv'
      BY <1>8, <2>2 DEF CheckPlan, ClearUnless, RulesInv, Standing, TetherPlan
    <2> QED
      BY <2>1, <2>3
  <1>9. CASE Install
    <2>1. PICK failed \in FailSets(TetherPlan(want)), kept \in SUBSET rules :
             /\ rules' = kept \cup {r \in TetherPlan(want) \ failed : r.kind \in Routes => r.on \in shared}
             /\ missed' = failed
      BY <1>9 DEF Install
    <2>2. missed' \subseteq TetherPlan(want) /\ rules' \subseteq rules \cup TetherPlan(want)
      BY <2>1 DEF FailSets
    <2>3. Standing(want) \subseteq rules' \cup missed'
      BY <2>1 DEF Standing
    <2>4. rules' \cup missed' \subseteq [kind : Kinds, on : Downstreams \cup {"all"}]
      BY <2>2, PlanType
    <2>5. TypeInv' /\ RecordInv'
      BY <1>9, <2>4 DEF Install, RecordInv, Landed
    <2>6. Standing(applied)' = Standing(want)
      BY <1>9 DEF Install, Standing, TetherPlan
    <2>7. RulesInv'
      BY <1>9, <2>3, <2>6 DEF Install, RulesInv, StuckPins
    <2> QED
      BY <2>5, <2>7
  <1>10. CASE HoldBpfOff
    <2>1. PICK left \in FailSets({Pin(i) : i \in pins \cap (heldOff \ applied)}) :
             /\ pins' = (HoldPins(applied) \ (heldOff \ applied)) \cup {c.on : c \in left}
             /\ stuck' = stuck \cup left
      BY <1>10 DEF HoldBpfOff
    <2>2. \A c \in left : c.on \in pins /\ c = Pin(c.on) /\ c \in [kind : Kinds \cup {"pin"}, on : Downstreams \cup {"all"}]
      BY DEF FailSets, Pin
    <2>3. TypeInv' /\ RecordInv'
      BY <1>10, <2>1, <2>2 DEF HoldBpfOff, HoldPins, HoldBpf, RecordInv, Landed
    <2>4. StuckPins \subseteq StuckPins' /\ {c.on : c \in left} \subseteq StuckPins'
      BY <2>1, <2>2 DEF StuckPins
    <2>5. life = "up"
      BY <1>10 DEF HoldBpfOff
    <2>6. pins \subseteq heldOff \cup StuckPins
      BY <2>5 DEF RulesInv
    <2>7. pins' \subseteq heldOff' \cup StuckPins'
      BY <1>10, <2>1, <2>4, <2>6 DEF HoldBpfOff, HoldPins
    <2>8. RulesInv'
      BY <1>10, <2>7, <2>5 DEF HoldBpfOff, RulesInv, Standing, TetherPlan
    <2> QED
      BY <2>3, <2>8
  <1>11. CASE Poll
    BY <1>11 DEF Poll, RecordInv, Landed, RulesInv, Standing, TetherPlan
  <1> QED
    BY <1>2, <1>3, <1>4, <1>5, <1>6, <1>7, <1>8, <1>9, <1>10, <1>11 DEF WatchStep

(* The data path's steps: start, abort, teardown, death and boot.           *)
LEMMA LifeInv ==
  ASSUME TetherInv, StopStep \/ StopWatcher \/ StartWatcher \/ DaemonDies \/ BootInit \/ LatePut \/ SetOption
  PROVE  TetherInv'
  <1> USE DEF TetherInv, TypeInv, TetherTypeOK, WatchSteps, Teardown, androidVars, phoneVars, ledger, StuckPins, daemonVars
  <1>1. phone.user \in {"null", "0", "1"}
    BY TetherConstants
  <1>2. CASE ClearTethering
    <2>1. PICK left \in FailSets(rules), kept \in FailSets({Pin(i) : i \in pins}) :
             /\ rules' = left /\ pins' = {c.on : c \in kept} /\ stuck' = left \cup kept
      BY <1>2 DEF ClearTethering
    <2>2. \A c \in kept : c.on \in pins /\ c = Pin(c.on) /\ c \in [kind : Kinds \cup {"pin"}, on : Downstreams \cup {"all"}]
      BY DEF FailSets, Pin
    <2>3. left \subseteq rules
      BY DEF FailSets
    <2>4. TypeInv' /\ RecordInv'
      BY <1>2, <2>1, <2>2, <2>3 DEF ClearTethering, RecordInv, Landed
    <2>5. pins' \subseteq StuckPins'
      BY <2>1, <2>2 DEF StuckPins
    <2>6. RulesInv'
      BY <1>2, <2>1, <2>5 DEF ClearTethering, RulesInv
    <2> QED
      BY <2>4, <2>6
  <1>3. CASE RestoreOnStop
    <2>1. TypeInv' /\ RulesInv'
      BY <1>3 DEF RestoreOnStop, RestoreValue, RulesInv
    <2>2. RecordInv'
      BY <1>3, <1>1 DEF RestoreOnStop, RestoreValue, RecordInv, Landed
    <2> QED
      BY <2>1, <2>2
  <1>4. CASE DropOnStop
    BY <1>1, <1>4 DEF DropOnStop, RecordInv, Landed, RulesInv
  <1>5. CASE StopWatcher
    BY <1>5 DEF StopWatcher, RecordInv, Landed, RulesInv
  <1>6. CASE StartWatcher
    <2>1. TypeInv' /\ RecordInv'
      BY <1>6 DEF StartWatcher, RecordInv, Landed
    <2>2. Standing(applied)' = {}
      BY <1>6 DEF StartWatcher, Standing, TetherPlan
    <2>3. RulesInv'
      BY <1>6, <2>2 DEF StartWatcher, RulesInv
    <2> QED
      BY <2>1, <2>3
  <1>7. CASE DaemonDies
    BY <1>7 DEF DaemonDies, RecordInv, Landed, RulesInv
  <1>8. CASE BootInit
    <2>1. TypeInv' /\ RulesInv'
      BY <1>8 DEF BootInit, RestoreValue, RulesInv
    <2>2. RecordInv'
      BY <1>8, <1>1 DEF BootInit, RestoreValue, RecordInv, Landed
    <2> QED
      BY <2>1, <2>2
  <1>9. CASE LatePut
    BY <1>9 DEF LatePut, RecordInv, Landed, RulesInv, Standing, TetherPlan
  <1>10. CASE SetOption
    BY <1>10 DEF SetOption, RecordInv, Landed, RulesInv, Standing, TetherPlan
  <1> QED
    BY <1>2, <1>3, <1>4, <1>5, <1>6, <1>7, <1>8, <1>9, <1>10 DEF StopStep

LEMMA TetherStep == TetherInv /\ [TetherNext]_tetherVars => TetherInv'
  <1> SUFFICES ASSUME TetherInv, [TetherNext]_tetherVars PROVE TetherInv'
    OBVIOUS
  <1>1. CASE UNCHANGED tetherVars
    BY <1>1 DEF TetherInv, TypeInv, TetherTypeOK, RecordInv, Landed, RulesInv, StuckPins, Standing, TetherPlan,
                tetherVars, daemonVars, androidVars, phoneVars, ledger
  <1>2. CASE \E i \in Downstreams : Tether(i) \/ Address(i) \/ Untether(i) \/ Reattach(i)
    BY <1>2, PhoneStep
  <1> QED
    BY <1>1, <1>2, WatchInv, LifeInv DEF TetherNext

(* What a poll takes for intact: with the standing rules in place or lost   *)
(* by the install, the rest is what it reads back.                          *)
LEMMA IntactRules ==
  ASSUME TetherInv, step = "sleep", PlanInPlace(applied), NEW i \in applied
  PROVE  /\ Returns(i)
         /\ ~FastPath(i) =>
               /\ Fate(i, "v4") # "uplink"
               /\ \A p \in Packets : Fate(i, p) \notin {"tun", "refused"} => Needs(i, p) \cap missed # {}
  <1> DEFINE InOrMissed(k, on) == Has(k, on) \/ [kind |-> k, on |-> on] \in missed
  <1>1. Standing(applied) \subseteq rules \cup missed
    BY DEF TetherInv, RulesInv
  <1>2. \A k \in PerDownstream \ Routes : InOrMissed(k, i)
    BY <1>1 DEF Standing, TetherPlan, Has, Routes, PerDownstream
  <1>3. \A k \in Hooks : InOrMissed(k, "all")
    BY <1>1 DEF Standing, TetherPlan, Has, Routes, Hooks
  <1>4. InOrMissed("accept", i) /\ InOrMissed("reject6", i) /\ InOrMissed("dns4", i) /\ InOrMissed("dns6", i)
    BY <1>2 DEF PerDownstream, Routes
  <1>5. InOrMissed("hook6", "all") /\ InOrMissed("hookNat", "all") /\ InOrMissed("hookIn", "all")
    BY <1>3 DEF Hooks
  <1>6. Has("hook4", "all") /\ Has("steer", i) /\ Has("reply", i) /\ Has("route4", i)
    BY DEF PlanInPlace
  <1>7. ASSUME ~FastPath(i)
        PROVE  \A p \in Packets : Fate(i, p) \notin {"tun", "refused"} => Needs(i, p) \cap missed # {}
    <2>1. Fate(i, "v4") \notin {"tun", "refused"} => Needs(i, "v4") \cap missed # {}
      BY <1>4, <1>6, <1>7 DEF Fate, Needs
    <2>2. Fate(i, "v6") \notin {"tun", "refused"} => Needs(i, "v6") \cap missed # {}
      BY <1>4, <1>5, <1>7 DEF Fate, Needs
    <2>3. Fate(i, "dns4") \notin {"tun", "refused"} => Needs(i, "dns4") \cap missed # {}
      BY <1>4, <1>5 DEF Fate, Needs
    <2>4. Fate(i, "dns6") \notin {"tun", "refused"} => Needs(i, "dns6") \cap missed # {}
      BY <1>4, <1>5 DEF Fate, Needs
    <2> QED
      BY <2>1, <2>2, <2>3, <2>4 DEF Packets
  <1>8. ~FastPath(i) => Fate(i, "v4") # "uplink"
    BY <1>6 DEF Fate
  <1> QED
    BY <1>6, <1>7, <1>8 DEF Returns

(* Wherever the watcher is aborted and whenever the daemon dies, the user's *)
(* offload setting is not lost before a late put lands; a finished teardown *)
(* leaves only what a command of its own failed to remove; and what a poll  *)
(* takes for intact sends replies back and no forwarded IPv4 to the uplink, *)
(* and IPv6 or DNS astray only where the install lost the rule for it       *)
(* (watch, install, clear_tethering, suppress_hw_offload).                  *)
THEOREM TetheringStaysWhole == TetherSpec => []TetheringIsWhole
  <1>1. TetherInv => TetheringIsWhole
    <2> SUFFICES ASSUME TetherInv PROVE TetheringIsWhole
      OBVIOUS
    <2>1. SettingIsKept /\ TeardownIsWhole
      BY DEF TetherInv, RecordInv, RulesInv, Landed, SettingIsKept, TeardownIsWhole
    <2>2. IntactIsWhole
      BY IntactRules DEF IntactIsWhole
    <2>3. OffloadIsHandedBack
      BY DEF TetherInv, TypeInv, TetherTypeOK, RulesInv, OffloadIsHandedBack
    <2> QED
      BY <2>1, <2>2, <2>3 DEF TetheringIsWhole, TetherInv, TypeInv
  <1> QED
    BY <1>1, TetherInitInv, TetherStep, PTL DEF TetherSpec
=============================================================================
