-------------------------- MODULE PrivHelperProofs --------------------------
(* Proofs about PrivHelper: for any testers, test cores and calls, the     *)
(* connection implements the abstract call and nothing the helper makes    *)
(* goes astray, whenever the GUI leaves or the helper dies. And about      *)
(* HelperSession: for any GUIs, sessions and builds, who is served is      *)
(* served by a helper of its protocol and has the data path to itself.     *)
EXTENDS PrivHelper, HelperSession, TLAPS

(* A reply that answers a request, in the terms of HelperCall.             *)
RepliesTo(r) == [to : {r.op}, ok : BOOLEAN,
                 handle : IF r.op = "spawn" THEN Handles \cup {0} ELSE {0}]

TypeInv ==
    /\ gui \in {"up", "gone"} /\ helper \in {"up", "stopping", "gone"}
    /\ helper = "stopping" => gui = "gone"
    /\ lock \in Callers \cup {None}
    /\ pc \in [Callers -> {"idle", "waiting", "sent"}]
    /\ ask \in [Callers -> Requests \cup {NoReq}]
    /\ \A c \in Callers : pc[c] # "idle" => ask[c] \in RequestsOf(c)
    /\ held \in [Testers -> Handles \cup {0}]
    /\ inbox \in [Conns -> Seq(Requests)]
    /\ busy \in [Conns -> Requests \cup {NoReq}]
    /\ outbox \in [Conns -> Seq(Replies)]
    /\ path \in {"down", "partial", "up"}
    /\ registry \subseteq Handles
    /\ next \in 1..(MaxCores + 1)
    /\ rootFiles \subseteq {"runtime", "log"} /\ calls \in 0..MaxCalls

(* Nothing is on a connection for anybody.                                 *)
Silent(k) == inbox[k] = <<>> /\ outbox[k] = <<>> /\ (gui = "up" => busy[k] = NoReq)

(* The one thing on a connection is the call of c: its request before or   *)
(* at the helper, or the reply to it.                                      *)
Carries(k, c) ==
    /\ ConnOf(c) = k /\ pc[c] = "sent"
    /\ \/ inbox[k] = <<ask[c]>> /\ busy[k] = NoReq /\ outbox[k] = <<>>
       \/ inbox[k] = <<>> /\ busy[k] = ask[c] /\ outbox[k] = <<>>
       \/ inbox[k] = <<>> /\ busy[k] = NoReq /\ \E r \in RepliesTo(ask[c]) : outbox[k] = <<r>>

(* A connection carries one call or none, its sender holds the mutex, with *)
(* the GUI gone nobody has a call, with the helper gone no request is left.*)
WireInv ==
    /\ \A k \in Conns : Silent(k) \/ (gui = "up" /\ \E c \in Callers : Carries(k, c))
    /\ \A c \in Callers \ {"pinger"} : pc[c] = "sent" <=> lock = c
    /\ lock # "pinger"
    /\ gui = "gone" => \A c \in Callers : pc[c] = "idle"
    /\ helper = "gone" => \A k \in Conns : inbox[k] = <<>> /\ busy[k] = NoReq
    /\ \A k \in Conns : busy[k] # NoReq => (busy[k].op = "ping" <=> k = "oneshot")

(* A handle given out is of the past and is one tester's: held, or in the  *)
(* reply that brings it.                                                   *)
HandlesInv ==
    /\ running \subseteq registry /\ \A h \in registry : h < next
    /\ \A t \in Testers : held[t] < next
    /\ \A t, u \in Testers : held[t] # 0 /\ held[t] = held[u] => t = u
    /\ \A k \in Conns : outbox[k] # <<>> =>
          /\ Head(outbox[k]).handle < next
          /\ Head(outbox[k]).to = "spawn" /\ Head(outbox[k]).handle # 0 =>
                \A t \in Testers : held[t] # Head(outbox[k]).handle

(* Root's files are those of the request being carried out.                *)
FilesInv == helper # "gone" => rootFiles \subseteq LeavesFiles(busy["held"].op)

HelperInv == TypeInv /\ WireInv /\ HandlesInv /\ FilesInv

-----------------------------------------------------------------------------
(* The requests of a caller, and what they are told apart by.              *)
LEMMA RequestFacts ==
  ASSUME NEW c \in Callers, NEW r \in RequestsOf(c)
  PROVE  /\ r \in Requests /\ r # NoReq
         /\ r.op = "ping" <=> ConnOf(c) = "oneshot"
         /\ r.op = "ping" <=> c = "pinger"
         /\ r = [op |-> r.op, handle |-> r.handle]
         /\ RepliesTo(r) \subseteq Replies
  <1>1. r \in Requests
    BY DEF Requests
  <1>2. CASE c \in Testers
    <2>1. c # "pinger"
      BY <1>2, HelperConstants
    <2> QED
      BY <1>1, <1>2, <2>1, HelperConstants DEF RequestsOf, NoReq, ConnOf, RepliesTo, Replies, Handles
  <1>3. CASE c \notin Testers
    <2>1. c \in {"life", "probe", "pinger"}
      BY <1>3 DEF Callers
    <2>2. r \in [op : OpsOf[c], handle : {0}]
      BY <1>3 DEF RequestsOf
    <2> QED
      BY <1>1, <2>1, <2>2 DEF OpsOf, NoReq, ConnOf, RepliesTo, Replies, Handles
  <1> QED
    BY <1>2, <1>3

LEMMA ConnFacts ==
  /\ \A c \in Callers : ConnOf(c) \in Conns /\ (ConnOf(c) = "held" <=> c # "pinger")
  /\ "pinger" \in Callers /\ None \notin Callers /\ None # "pinger"
  BY HelperConstants DEF ConnOf, Conns, Callers

(* Who has sent is alone on the connection.                                *)
LEMMA OneSender ==
  ASSUME WireInv, NEW c \in Callers, NEW d \in Callers, pc[c] = "sent", pc[d] = "sent",
         ConnOf(c) = ConnOf(d)
  PROVE  c = d
  BY ConnFacts DEF WireInv

LEMMA SingletonFacts ==
  ASSUME NEW x
  PROVE  /\ <<x>> # <<>> /\ Head(<<x>>) = x /\ Tail(<<x>>) = <<>>
         /\ Append(<<>>, x) = <<x>>
  OBVIOUS

-----------------------------------------------------------------------------
LEMMA InitInv == Init => HelperInv
  <1> SUFFICES ASSUME Init PROVE HelperInv
    OBVIOUS
  <1>1. TypeInv
    BY HelperConstants DEF Init, TypeInv, Handles
  <1>2. WireInv
    BY ConnFacts DEF Init, WireInv, Silent, NoReq
  <1>3. HandlesInv /\ FilesInv
    BY HelperConstants DEF Init, HandlesInv, FilesInv, Handles
  <1> QED
    BY <1>1, <1>2, <1>3 DEF HelperInv

-----------------------------------------------------------------------------
(* The steps of the GUI                                                    *)

LEMMA CallStep ==
  ASSUME HelperInv, NEW c \in Callers, Call(c)
  PROVE  HelperInv'
  <1> USE DEF HelperInv, Call, client, wire, server
  <1> PICK r \in RequestsOf(c) : MayAsk(c, r) /\ ask' = [ask EXCEPT ![c] = r]
    OBVIOUS
  <1>1. TypeInv'
    BY RequestFacts, HelperConstants DEF TypeInv, MayAsk
  <1>2. \A k \in Conns, d \in Callers : Carries(k, d) => Carries(k, d)'
    BY DEF Carries, TypeInv
  <1>3. WireInv'
    BY <1>2, ConnFacts DEF WireInv, Silent, TypeInv
  <1>4. HandlesInv' /\ FilesInv'
    BY DEF HandlesInv, FilesInv
  <1> QED
    BY <1>1, <1>3, <1>4

(* Once the mutex is free, nobody's call is on the shared connection.      *)
LEMMA FreeIsSilent ==
  ASSUME HelperInv, NEW c \in Callers, gui = "up", pc[c] = "waiting",
         ConnOf(c) = "held" => lock = None
  PROVE  Silent(ConnOf(c)) /\ \A d \in Callers : ConnOf(d) = ConnOf(c) => pc[d] # "sent"
  BY ConnFacts DEF HelperInv, WireInv, Carries

LEMMA WriteStep ==
  ASSUME HelperInv, NEW c \in Callers, Write(c)
  PROVE  HelperInv'
  <1> DEFINE k == ConnOf(c)
  <1> USE DEF HelperInv, Write, server
  <1>1. /\ k \in Conns /\ ask[c] \in Requests /\ ask[c] # NoReq
        /\ inbox[k] = <<>> /\ busy[k] = NoReq /\ outbox[k] = <<>>
        /\ \A d \in Callers : ConnOf(d) = k => pc[d] # "sent"
    BY ConnFacts, FreeIsSilent, RequestFacts DEF TypeInv, Silent
  <1>2. inbox' = [inbox EXCEPT ![k] = <<ask[c]>>]
    BY <1>1, SingletonFacts DEF TypeInv
  <1>3. TypeInv'
    BY <1>1, <1>2 DEF TypeInv
  <1>4. Carries(k, c)'
    BY <1>1, <1>2 DEF Carries, TypeInv
  <1>5. \A j \in Conns \ {k}, d \in Callers : Carries(j, d) => Carries(j, d)'
    BY <1>1, <1>2 DEF Carries, TypeInv
  <1>6. \A j \in Conns \ {k} : Silent(j) => Silent(j)'
    BY <1>1, <1>2 DEF Silent, TypeInv
  <1>7. WireInv'
    <2>1. \A j \in Conns : Silent(j)' \/ (gui' = "up" /\ \E d \in Callers : Carries(j, d)')
      BY <1>1, <1>4, <1>5, <1>6 DEF WireInv
    <2>2. \A d \in Callers \ {"pinger"} : pc'[d] = "sent" <=> lock' = d
      BY <1>1, ConnFacts DEF WireInv, TypeInv
    <2>3. lock' # "pinger"
      BY ConnFacts DEF WireInv
    <2> QED
      BY <2>1, <2>2, <2>3 DEF WireInv
  <1>8. HandlesInv' /\ FilesInv'
    BY DEF HandlesInv, FilesInv
  <1> QED
    BY <1>3, <1>7, <1>8

(* What a caller that has sent finds on its connection.                    *)
LEMMA ReplyIsOwn ==
  ASSUME HelperInv, NEW c \in Callers, pc[c] = "sent", outbox[ConnOf(c)] # <<>>
  PROVE  /\ Carries(ConnOf(c), c) /\ inbox[ConnOf(c)] = <<>> /\ busy[ConnOf(c)] = NoReq
         /\ \E r \in RepliesTo(ask[c]) : outbox[ConnOf(c)] = <<r>>
  BY ConnFacts, OneSender DEF HelperInv, WireInv, Silent, Carries

(* Handles only come by the shared connection.                             *)
LEMMA SpawnIsHeld ==
  ASSUME HelperInv, NEW k \in Conns, outbox[k] # <<>>, Head(outbox[k]).to = "spawn"
  PROVE  k = "held"
  <1>1. PICK c \in Callers : Carries(k, c)
    BY DEF HelperInv, WireInv, Silent
  <1>2. PICK r \in RepliesTo(ask[c]) : outbox[k] = <<r>>
    BY <1>1 DEF Carries
  <1>3. Head(outbox[k]) = r
    BY <1>2, SingletonFacts
  <1>4. ask[c].op = "spawn" /\ ask[c] \in RequestsOf(c)
    BY <1>1, <1>3 DEF Carries, RepliesTo, HelperInv, TypeInv
  <1> QED
    BY <1>1, <1>4, RequestFacts, ConnFacts DEF Carries

LEMMA ReceiveStep ==
  ASSUME HelperInv, NEW c \in Callers, Receive(c)
  PROVE  HelperInv'
  <1> DEFINE k == ConnOf(c)
  <1> USE DEF HelperInv, Receive, server
  <1>1. PICK r \in RepliesTo(ask[c]) : outbox[k] = <<r>>
    BY ReplyIsOwn
  <1>2. /\ k \in Conns /\ inbox[k] = <<>> /\ busy[k] = NoReq
        /\ outbox' = [outbox EXCEPT ![k] = <<>>]
        /\ held' = [t \in Testers |-> IF t = c THEN HandleAfter(t, r) ELSE held[t]]
    <2>1. k \in Conns /\ inbox[k] = <<>> /\ busy[k] = NoReq
      BY ReplyIsOwn, ConnFacts
    <2>2. Head(outbox[k]) = r /\ Tail(outbox[k]) = <<>>
      BY <1>1, SingletonFacts
    <2> QED
      BY <2>1, <2>2
  <1>3. r.handle \in Handles \cup {0} /\ HandleAfter(c, r) \in {0, r.handle}
    BY DEF RepliesTo, HandleAfter
  <1>4. TypeInv'
    BY <1>2, <1>3 DEF TypeInv, Released, HandleAfter
  <1>5. \A d \in Callers \ {c} : ConnOf(d) = k => pc[d] # "sent"
    BY OneSender
  <1>6. Silent(k)'
    BY <1>2 DEF Silent, TypeInv
  <1>7. \A j \in Conns \ {k} : /\ Silent(j) => Silent(j)'
                               /\ \A d \in Callers : Carries(j, d) => Carries(j, d)'
    BY <1>2 DEF Silent, Carries, TypeInv
  <1>8. WireInv'
    <2>1. \A j \in Conns : Silent(j)' \/ (gui' = "up" /\ \E d \in Callers : Carries(j, d)')
      BY <1>6, <1>7 DEF WireInv
    <2>2. \A d \in Callers \ {"pinger"} : pc'[d] = "sent" <=> lock' = d
      BY <1>5, ConnFacts DEF WireInv, TypeInv, Released
    <2> QED
      BY <2>1, <2>2, ConnFacts DEF WireInv, TypeInv, Released
  <1>9. HandlesInv'
    <2>1. outbox[k] # <<>> /\ Head(outbox[k]) = r
      BY <1>1, SingletonFacts
    <2>2. r.handle < next /\ (HandleAfter(c, r) # 0 => \A t \in Testers : held[t] # HandleAfter(c, r))
      BY <1>2, <2>1 DEF HandlesInv, HandleAfter
    <2>3. \A t \in Testers : held'[t] < next
      BY <1>2, <2>2, HelperConstants DEF HandlesInv, HandleAfter, TypeInv
    <2>4. \A t, u \in Testers : held'[t] # 0 /\ held'[t] = held'[u] => t = u
      BY <1>2, <2>2 DEF HandlesInv, HandleAfter
    <2>5. \A j \in Conns : outbox'[j] # <<>> => /\ outbox'[j] = outbox[j] /\ j # k
      BY <1>2 DEF TypeInv
    <2>6. \A j \in Conns \ {k} : outbox[j] # <<>> /\ Head(outbox[j]).to = "spawn" => held' = held
      BY <1>2, SpawnIsHeld, ConnFacts, HelperConstants DEF Conns, TypeInv
    <2> QED
      BY <1>2, <2>2, <2>3, <2>4, <2>5, <2>6 DEF HandlesInv, HandleAfter
  <1>10. FilesInv'
    BY DEF FilesInv
  <1> QED
    BY <1>4, <1>8, <1>9, <1>10

LEMMA FailStep ==
  ASSUME HelperInv, NEW c \in Callers, Fail(c)
  PROVE  HelperInv'
  <1> USE DEF HelperInv, Fail, server, wire
  <1>1. TypeInv'
    BY DEF TypeInv, Released
  <1>2. \A k \in Conns : Silent(k) => Silent(k)'
    BY DEF Silent
  <1>3. \A k \in Conns : ~Carries(k, c)
    <2> SUFFICES ASSUME NEW k \in Conns, Carries(k, c) PROVE FALSE
      OBVIOUS
    <2>1. ConnOf(c) = k /\ outbox[k] = <<>> /\ inbox[k] = <<>> /\ busy[k] = NoReq
      BY DEF Carries, WireInv
    <2>2. ask[c] # NoReq
      BY RequestFacts DEF Carries, TypeInv
    <2> QED
      BY <2>1, <2>2, SingletonFacts DEF Carries
  <1>4. \A k \in Conns, d \in Callers : Carries(k, d) => Carries(k, d)'
    BY <1>3 DEF Carries, TypeInv
  <1>5. \A d \in Callers \ {"pinger"} : pc'[d] = "sent" <=> lock' = d
    BY ConnFacts DEF WireInv, TypeInv, Released
  <1>6. WireInv'
    BY <1>2, <1>4, <1>5, ConnFacts DEF WireInv, TypeInv, Released
  <1>7. HandlesInv' /\ FilesInv'
    BY HelperConstants DEF HandlesInv, FilesInv, TypeInv
  <1> QED
    BY <1>1, <1>6, <1>7

LEMMA GuiGoneStep ==
  ASSUME HelperInv, GuiGone
  PROVE  HelperInv'
  <1> USE DEF HelperInv, GuiGone, server
  <1>1. TypeInv'
    BY DEF TypeInv
  <1>2. WireInv'
    BY ConnFacts DEF WireInv, Silent, TypeInv
  <1>3. HandlesInv' /\ FilesInv'
    BY HelperConstants DEF HandlesInv, FilesInv, TypeInv
  <1> QED
    BY <1>1, <1>2, <1>3

-----------------------------------------------------------------------------
(* The steps of the helper                                                 *)

(* A request the helper has read, and whose it is.                         *)
LEMMA BusyIsAsked ==
  ASSUME HelperInv, NEW k \in Conns, busy[k] # NoReq
  PROVE  /\ busy[k] \in Requests /\ helper # "gone"
         /\ gui = "up" => /\ inbox[k] = <<>> /\ outbox[k] = <<>>
                          /\ \E c \in Callers : Carries(k, c) /\ busy[k] = ask[c]
         /\ gui = "gone" => outbox[k] = <<>> /\ inbox[k] = <<>>
  <1>1. busy[k] \in Requests /\ helper # "gone"
    BY DEF HelperInv, TypeInv, WireInv
  <1>2. CASE gui = "up"
    BY <1>1, <1>2 DEF HelperInv, WireInv, Silent, Carries
  <1>3. CASE gui = "gone"
    BY <1>1, <1>3 DEF HelperInv, WireInv, Silent
  <1> QED
    BY <1>1, <1>2, <1>3 DEF HelperInv, TypeInv

LEMMA ReadStep ==
  ASSUME HelperInv, NEW k \in Conns, Read(k)
  PROVE  HelperInv'
  <1> USE DEF HelperInv, Read, client
  <1>1. PICK c \in Callers : gui = "up" /\ Carries(k, c)
    BY DEF WireInv, Silent
  <1>2. inbox[k] = <<ask[c]>> /\ busy[k] = NoReq /\ outbox[k] = <<>>
    BY <1>1 DEF Carries
  <1>3. ask[c] \in RequestsOf(c) /\ ask[c] \in Requests /\ ask[c] # NoReq
    BY <1>1, RequestFacts DEF Carries, TypeInv
  <1>4. busy' = [busy EXCEPT ![k] = ask[c]] /\ inbox' = [inbox EXCEPT ![k] = <<>>]
    BY <1>2, SingletonFacts
  <1>5. TypeInv'
    BY <1>3, <1>4 DEF TypeInv
  <1>6. Carries(k, c)'
    BY <1>1, <1>2, <1>4 DEF Carries, TypeInv
  <1>7. \A j \in Conns \ {k} : /\ Silent(j) => Silent(j)'
                               /\ \A d \in Callers : Carries(j, d) => Carries(j, d)'
    BY <1>4 DEF Silent, Carries, TypeInv
  <1>8. WireInv'
    <2>1. \A j \in Conns : Silent(j)' \/ (gui' = "up" /\ \E d \in Callers : Carries(j, d)')
      BY <1>1, <1>6, <1>7 DEF WireInv
    <2>2. \A j \in Conns : busy'[j] # NoReq => (busy'[j].op = "ping" <=> j = "oneshot")
      BY <1>1, <1>3, <1>4, RequestFacts DEF WireInv, Carries, TypeInv
    <2> QED
      BY <2>1, <2>2 DEF WireInv
  <1>9. HandlesInv'
    BY DEF HandlesInv
  <1>10. FilesInv'
    BY <1>2, <1>4 DEF FilesInv, LeavesFiles, NoReq, TypeInv
  <1> QED
    BY <1>5, <1>8, <1>9, <1>10

LEMMA WriteFilesStep ==
  ASSUME HelperInv, NEW k \in Conns, WriteFiles(k)
  PROVE  HelperInv'
  <1> USE DEF HelperInv, WriteFiles, client, wire
  <1>1. k = "held"
    BY DEF WireInv, LeavesFiles, NoReq, Conns
  <1>2. TypeInv'
    BY DEF TypeInv, LeavesFiles
  <1>3. WireInv'
    BY DEF WireInv, Silent, Carries
  <1>4. HandlesInv' /\ FilesInv'
    BY <1>1 DEF HandlesInv, FilesInv
  <1> QED
    BY <1>2, <1>3, <1>4

(* A request is answered: its reply takes its place on the connection, or  *)
(* nobody is there to read it.                                             *)
LEMMA AnswerKeepsWire ==
  ASSUME HelperInv, NEW k \in Conns, busy[k] # NoReq, NEW r \in RepliesTo(busy[k]), Answer(k, r),
         UNCHANGED <<gui, helper, client, inbox>>
  PROVE  /\ WireInv' /\ busy' \in [Conns -> Requests \cup {NoReq}] /\ outbox' \in [Conns -> Seq(Replies)]
         /\ outbox' = IF gui = "up" THEN [outbox EXCEPT ![k] = <<r>>] ELSE outbox
  <1> USE DEF HelperInv, Answer, client
  <1>1. busy' = [busy EXCEPT ![k] = NoReq] /\ inbox[k] = <<>> /\ outbox[k] = <<>>
    BY BusyIsAsked DEF TypeInv
  <1>2. outbox' = IF gui = "up" THEN [outbox EXCEPT ![k] = <<r>>] ELSE outbox
    BY <1>1, SingletonFacts DEF TypeInv
  <1>3. r \in Replies
    BY BusyIsAsked DEF RepliesTo, Replies
  <1>4. \A j \in Conns \ {k} : /\ Silent(j) => Silent(j)'
                               /\ \A d \in Callers : Carries(j, d) => Carries(j, d)'
    BY <1>1, <1>2 DEF Silent, Carries, TypeInv
  <1>5. Silent(k)' \/ (gui' = "up" /\ \E d \in Callers : Carries(k, d)')
    <2>1. CASE gui = "up"
      <3>1. PICK c \in Callers : Carries(k, c) /\ busy[k] = ask[c]
        BY <2>1, BusyIsAsked
      <3>2. Carries(k, c)'
        BY <2>1, <3>1, <1>1, <1>2 DEF Carries, TypeInv
      <3> QED
        BY <2>1, <3>2
    <2>2. CASE gui = "gone"
      BY <2>2, <1>1, <1>2 DEF Silent, TypeInv
    <2> QED
      BY <2>1, <2>2 DEF TypeInv
  <1>6. WireInv'
    <2>1. \A j \in Conns : Silent(j)' \/ (gui' = "up" /\ \E d \in Callers : Carries(j, d)')
      BY <1>4, <1>5 DEF WireInv
    <2>2. \A j \in Conns : busy'[j] # NoReq => (busy'[j].op = "ping" <=> j = "oneshot")
      BY <1>1 DEF WireInv, TypeInv
    <2>3. helper' # "gone"
      BY BusyIsAsked
    <2> QED
      BY <2>1, <2>2, <2>3 DEF WireInv
  <1> QED
    BY <1>1, <1>2, <1>3, <1>6 DEF TypeInv

(* What the dispatch of a request leaves owned by root is nothing.         *)
LEMMA AnswerKeepsFiles ==
  ASSUME HelperInv, NEW k \in Conns, busy[k] # NoReq, NEW r, Answer(k, r), UNCHANGED helper,
         rootFiles' = HandFilesToOwner(busy[k].op) \/ (LeavesFiles(busy[k].op) = {} /\ rootFiles' = rootFiles)
  PROVE  FilesInv'
  <1>1. CASE k = "held"
    BY <1>1, BusyIsAsked DEF HelperInv, FilesInv, HandFilesToOwner, Answer, TypeInv, LeavesFiles
  <1>2. CASE k # "held"
    BY <1>2, BusyIsAsked DEF HelperInv, FilesInv, HandFilesToOwner, Answer, TypeInv, Conns
  <1> QED
    BY <1>1, <1>2

LEMMA PlainDispatch ==
  ASSUME HelperInv, NEW k \in Conns, DispatchPath(k) \/ DispatchQuery(k)
  PROVE  HelperInv'
  <1> USE DEF HelperInv
  <1>1. busy[k] # NoReq /\ busy[k].op # "spawn"
    BY DEF DispatchPath, DispatchQuery, NoReq
  <1>2. PICK ok \in BOOLEAN : Answer(k, Reply(busy[k].op, ok, 0))
    BY DEF DispatchPath, DispatchQuery
  <1> DEFINE r == Reply(busy[k].op, ok, 0)
  <1>3. r \in RepliesTo(busy[k]) /\ r.handle = 0
    BY <1>1 DEF RepliesTo, Reply
  <1>4. UNCHANGED <<gui, helper, client, inbox, registry, running, next>>
    BY DEF DispatchPath, DispatchQuery, server
  <1>5. /\ WireInv' /\ busy' \in [Conns -> Requests \cup {NoReq}] /\ outbox' \in [Conns -> Seq(Replies)]
        /\ outbox' = IF gui = "up" THEN [outbox EXCEPT ![k] = <<r>>] ELSE outbox
    BY <1>1, <1>2, <1>3, <1>4, AnswerKeepsWire
  <1>6. FilesInv'
    BY <1>1, <1>2, <1>4, AnswerKeepsFiles DEF DispatchPath, DispatchQuery, server, LeavesFiles
  <1>7. TypeInv'
    <2>1. path' \in {"down", "partial", "up"} /\ rootFiles' \subseteq {"runtime", "log"}
      <3>1. CASE DispatchPath(k)
        <4>1. PICK okay \in BOOLEAN : path' = [boot |-> path, start |-> IF okay THEN "up" ELSE "partial", stop |-> "down"][busy[k].op]
          BY <3>1 DEF DispatchPath
        <4>2. busy[k].op \in {"boot", "start", "stop"}
          BY <3>1 DEF DispatchPath
        <4>3. path' \in {path, "up", "partial", "down"}
          BY <4>1, <4>2
        <4> QED
          BY <3>1, <4>3 DEF DispatchPath, TypeInv, HandFilesToOwner
      <3>2. CASE DispatchQuery(k)
        BY <3>2 DEF DispatchQuery, server, TypeInv
      <3> QED
        BY <3>1, <3>2
    <2> QED
      BY <2>1, <1>4, <1>5 DEF TypeInv, client
  <1>8. HandlesInv'
    BY <1>3, <1>4, <1>5, SingletonFacts, HelperConstants DEF HandlesInv, TypeInv, client
  <1> QED
    BY <1>5, <1>6, <1>7, <1>8

LEMMA SpawnDispatch ==
  ASSUME HelperInv, NEW k \in Conns, DispatchSpawn(k)
  PROVE  HelperInv'
  <1> USE DEF HelperInv
  <1>1. busy[k] # NoReq /\ busy[k].op = "spawn"
    BY DEF DispatchSpawn, NoReq
  <1>2. PICK r \in RepliesTo(busy[k]) :
           /\ Answer(k, r)
           /\ \/ /\ r.handle = next /\ next <= MaxCores /\ next' = next + 1
                 /\ registry' = registry \cup {next} /\ running' = running \cup {next}
              \/ r.handle = 0 /\ UNCHANGED <<registry, running, next>>
    <2>1. CASE /\ next <= MaxCores /\ Answer(k, Reply("spawn", TRUE, next)) /\ next' = next + 1
               /\ registry' = registry \cup {next} /\ running' = running \cup {next}
      <3>1. next \in Handles
        BY <2>1, HelperConstants DEF TypeInv, Handles
      <3>2. Reply("spawn", TRUE, next) \in RepliesTo(busy[k]) /\ Reply("spawn", TRUE, next).handle = next
        BY <1>1, <3>1 DEF Reply, RepliesTo
      <3> QED
        BY <2>1, <3>2
    <2>2. CASE Answer(k, Reply("spawn", FALSE, 0)) /\ UNCHANGED <<registry, running, next>>
      <3>1. Reply("spawn", FALSE, 0) \in RepliesTo(busy[k]) /\ Reply("spawn", FALSE, 0).handle = 0
        BY <1>1 DEF Reply, RepliesTo
      <3> QED
        BY <2>2, <3>1
    <2> QED
      BY <2>1, <2>2 DEF DispatchSpawn
  <1>3. UNCHANGED <<gui, helper, client, inbox>>
    BY DEF DispatchSpawn
  <1>4. /\ WireInv' /\ busy' \in [Conns -> Requests \cup {NoReq}] /\ outbox' \in [Conns -> Seq(Replies)]
        /\ outbox' = IF gui = "up" THEN [outbox EXCEPT ![k] = <<r>>] ELSE outbox
    BY <1>1, <1>2, <1>3, AnswerKeepsWire
  <1>5. FilesInv'
    BY <1>1, <1>2, <1>3, AnswerKeepsFiles DEF DispatchSpawn
  <1>6. TypeInv'
    <2>1. registry' \subseteq Handles /\ next' \in 1..(MaxCores + 1)
      <3>1. /\ registry \subseteq 1..MaxCores /\ next \in 1..(MaxCores + 1)
            /\ next <= MaxCores => next \in 1..MaxCores /\ next + 1 \in 1..(MaxCores + 1)
        BY HelperConstants DEF TypeInv, Handles
      <3>2. CASE next <= MaxCores /\ next' = next + 1 /\ registry' = registry \cup {next}
        BY <3>1, <3>2 DEF Handles
      <3>3. CASE UNCHANGED <<registry, next>>
        BY <3>1, <3>3 DEF Handles
      <3> QED
        BY <1>2, <3>2, <3>3
    <2>2. rootFiles' \subseteq {"runtime", "log"} /\ path' = path
      BY DEF DispatchSpawn, HandFilesToOwner, TypeInv
    <2> QED
      BY <1>3, <1>4, <2>1, <2>2 DEF TypeInv, client
  <1>7. HandlesInv'
    <2>1. next \in Nat \ {0} /\ next' \in Nat /\ next <= next' /\ r.handle < next'
      <3>1. next \in Nat \ {0}
        BY HelperConstants DEF TypeInv
      <3>2. CASE r.handle = next /\ next' = next + 1
        BY <3>1, <3>2
      <3>3. CASE r.handle = 0 /\ next' = next
        BY <3>1, <3>3
      <3> QED
        BY <1>2, <3>1, <3>2, <3>3
    <2>2. running' \subseteq registry' /\ \A h \in registry' : h < next'
      <3>1. \A h \in registry : h \in Nat /\ h < next
        BY HelperConstants DEF HandlesInv, TypeInv, Handles
      <3>2. CASE next' = next + 1 /\ registry' = registry \cup {next} /\ running' = running \cup {next}
        BY <2>1, <3>1, <3>2 DEF HandlesInv
      <3>3. CASE UNCHANGED <<registry, running, next>>
        BY <3>1, <3>3 DEF HandlesInv
      <3> QED
        BY <1>2, <3>2, <3>3
    <2>3. \A t \in Testers : held[t] \in Nat /\ held[t] < next /\ held'[t] = held[t]
      BY <1>3, HelperConstants DEF HandlesInv, TypeInv, client, Handles
    <2>4. r.handle # 0 => \A t \in Testers : held'[t] # r.handle
      BY <1>2, <2>1, <2>3
    <2>5. \A j \in Conns : outbox'[j] # <<>> => \/ outbox'[j] = outbox[j]
                                            \/ Head(outbox'[j]) = r
      BY <1>4, SingletonFacts DEF TypeInv
    <2>6. \A j \in Conns : outbox[j] # <<>> => Head(outbox[j]).handle < next'
      <3> SUFFICES ASSUME NEW j \in Conns, outbox[j] # <<>> PROVE Head(outbox[j]).handle < next'
        OBVIOUS
      <3>1. Head(outbox[j]) \in Replies
        BY DEF TypeInv
      <3>2. Head(outbox[j]).handle \in Nat
        BY <3>1, HelperConstants DEF Replies, Handles
      <3> QED
        BY <2>1, <3>2 DEF HandlesInv
    <2>7. \A t \in Testers : held'[t] < next'
      BY <2>1, <2>3
    <2> QED
      BY <1>3, <2>1, <2>2, <2>3, <2>4, <2>5, <2>6, <2>7 DEF HandlesInv, client
  <1> QED
    BY <1>4, <1>5, <1>6, <1>7

LEMMA KillDispatch ==
  ASSUME HelperInv, NEW k \in Conns, DispatchKill(k)
  PROVE  HelperInv'
  <1> USE DEF HelperInv
  <1> DEFINE r == Reply("kill", TRUE, 0)
  <1>1. /\ busy[k] # NoReq /\ busy[k].op = "kill" /\ Answer(k, r)
        /\ UNCHANGED <<gui, helper, client, inbox, next>>
    <2>1. busy[k].op = "kill" /\ Answer(k, r) /\ UNCHANGED <<gui, helper, client, inbox, next>>
      BY DEF DispatchKill
    <2>2. busy[k] # NoReq
      BY <2>1 DEF NoReq
    <2> QED
      BY <2>1, <2>2
  <1>2. r \in RepliesTo(busy[k]) /\ r.handle = 0
    BY <1>1 DEF RepliesTo, Reply
  <1>3. /\ WireInv' /\ busy' \in [Conns -> Requests \cup {NoReq}] /\ outbox' \in [Conns -> Seq(Replies)]
        /\ outbox' = IF gui = "up" THEN [outbox EXCEPT ![k] = <<r>>] ELSE outbox
    BY <1>1, <1>2, AnswerKeepsWire
  <1>4. FilesInv'
    BY <1>1, AnswerKeepsFiles DEF DispatchKill, LeavesFiles
  <1>5. TypeInv'
    BY <1>1, <1>3 DEF TypeInv, client, DispatchKill
  <1>6. running' \subseteq registry' /\ registry' \subseteq registry
    BY DEF DispatchKill, HandlesInv
  <1>7. HandlesInv'
    <2>1. \A j \in Conns : outbox'[j] # <<>> => \/ outbox'[j] = outbox[j]
                                            \/ Head(outbox'[j]) = r
      BY <1>3, SingletonFacts DEF TypeInv
    <2>2. held' = held /\ next' = next /\ 0 < next
      BY <1>1, HelperConstants DEF client, TypeInv
    <2> QED
      BY <1>2, <1>6, <2>1, <2>2 DEF HandlesInv
  <1> QED
    BY <1>3, <1>4, <1>5, <1>7

LEMMA SweepStep ==
  ASSUME HelperInv, NEW h \in Handles, SweepCore(h)
  PROVE  HelperInv'
  <1> USE DEF HelperInv, SweepCore, client, wire
  <1>1. TypeInv'
    BY DEF TypeInv
  <1>2. WireInv'
    BY DEF WireInv, Silent, Carries
  <1>3. HandlesInv' /\ FilesInv'
    BY DEF HandlesInv, FilesInv
  <1> QED
    BY <1>1, <1>2, <1>3

LEMMA WatchGuiStep ==
  ASSUME HelperInv, WatchGui
  PROVE  HelperInv'
  <1> USE DEF HelperInv, WatchGui, client, wire
  <1>1. TypeInv'
    BY DEF TypeInv
  <1>2. WireInv'
    BY DEF WireInv, Silent, Carries
  <1>3. HandlesInv' /\ FilesInv'
    BY DEF HandlesInv, FilesInv
  <1> QED
    BY <1>1, <1>2, <1>3

(* The helper's end drops what it has not answered; a reply already on its *)
(* way is still read.                                                      *)
LEMMA ExitStep ==
  ASSUME HelperInv, Exit
  PROVE  HelperInv'
  <1> USE DEF HelperInv, Exit, client
  <1>1. TypeInv'
    BY DEF TypeInv
  <1>2. \A k \in Conns : Silent(k)' \/ (gui' = "up" /\ \E c \in Callers : Carries(k, c)')
    <2> SUFFICES ASSUME NEW k \in Conns PROVE Silent(k)' \/ (gui' = "up" /\ \E c \in Callers : Carries(k, c)')
      OBVIOUS
    <2>1. inbox'[k] = <<>> /\ busy'[k] = NoReq /\ outbox'[k] = outbox[k]
      OBVIOUS
    <2>2. CASE outbox[k] = <<>>
      BY <2>1, <2>2 DEF Silent
    <2>3. CASE outbox[k] # <<>>
      <3>1. PICK c \in Callers : gui = "up" /\ Carries(k, c)
        BY <2>3 DEF WireInv, Silent
      <3>2. Carries(k, c)'
        BY <2>1, <2>3, <3>1 DEF Carries
      <3> QED
        BY <3>1, <3>2
    <2> QED
      BY <2>2, <2>3
  <1>3. WireInv'
    BY <1>2 DEF WireInv
  <1>4. HandlesInv' /\ FilesInv'
    BY DEF HandlesInv, FilesInv
  <1> QED
    BY <1>1, <1>3, <1>4

-----------------------------------------------------------------------------
LEMMA NextInv == HelperInv /\ [Next]_vars => HelperInv'
  <1> SUFFICES ASSUME HelperInv, [Next]_vars PROVE HelperInv'
    OBVIOUS
  <1>1. CASE UNCHANGED vars
    BY <1>1 DEF vars, HelperInv, TypeInv, WireInv, HandlesInv, FilesInv, Silent, Carries
  <1>2. ASSUME NEW c \in Callers, Call(c) \/ Write(c) \/ Receive(c) \/ Fail(c) PROVE HelperInv'
    BY <1>2, CallStep, WriteStep, ReceiveStep, FailStep
  <1>3. ASSUME NEW k \in Conns, Dispatch(k) PROVE HelperInv'
    BY <1>3, ReadStep, WriteFilesStep, PlainDispatch, SpawnDispatch, KillDispatch DEF Dispatch
  <1>4. ASSUME NEW h \in Handles, SweepCore(h) PROVE HelperInv'
    BY <1>4, SweepStep
  <1>5. CASE GuiGone \/ WatchGui \/ WatchGuiExit \/ HelperDies
    BY <1>5, GuiGoneStep, WatchGuiStep, ExitStep DEF WatchGuiExit, HelperDies
  <1> QED
    BY <1>1, <1>2, <1>3, <1>4, <1>5 DEF Next

LEMMA HelperInvariant == Spec => []HelperInv
  BY InitInv, NextInv, PTL DEF Spec

(* Whatever GUI and helper do and whenever they end, a test core has one   *)
(* owner and what root wrote is handed back before the reply.              *)
THEOREM NothingGoesAstray == Spec => []NothingStrays
  <1>1. HelperInv => NothingStrays
    <2> SUFFICES ASSUME HelperInv PROVE NothingStrays
      OBVIOUS
    <2>1. TypeOK
      BY DEF HelperInv, TypeInv, HandlesInv, TypeOK
    <2>2. HandleHasOneOwner
      BY DEF HelperInv, HandlesInv, HandleHasOneOwner
    <2>3. FilesComeBack
      BY DEF HelperInv, FilesInv, FilesComeBack, LeavesFiles, NoReq
    <2> QED
      BY <2>1, <2>2, <2>3 DEF NothingStrays
  <1> QED
    BY <1>1, HelperInvariant, PTL

-----------------------------------------------------------------------------
(* The connection implements HelperCall. CallView and LeftView are what the *)
(* instance Abs puts for HelperCall's call and left.                       *)
CallView == [c \in Callers |-> AbsCall(c)]
LeftView == IF gui = "up" THEN {} ELSE {busy[k] : k \in Conns} \ {NoReq}

(* A step that changes one call changes the view of that call.             *)
LEMMA OneCallChanges ==
  ASSUME NEW c \in Callers, \A d \in Callers \ {c} : AbsCall(d)' = AbsCall(d)
  PROVE  CallView' = [CallView EXCEPT ![c] = AbsCall(c)']
  BY DEF CallView

LEMMA NoCallChanges ==
  ASSUME \A d \in Callers : AbsCall(d)' = AbsCall(d)
  PROVE  CallView' = CallView
  BY DEF CallView

(* A caller is asking from its call until the reply is on the connection.  *)
LEMMA AbsCallFacts ==
  ASSUME NEW c \in Callers
  PROVE  /\ pc[c] = "idle" => AbsCall(c) = [st |-> "idle"]
         /\ pc[c] # "idle" => AbsCall(c).req = ask[c] /\ AbsCall(c).st # "idle"
         /\ pc[c] \in {"waiting", "sent"} /\ (pc[c] = "sent" => outbox[ConnOf(c)] = <<>>)
               => AbsCall(c) = [st |-> "asked", req |-> ask[c]]
         /\ pc[c] = "sent" /\ outbox[ConnOf(c)] # <<>>
               => AbsCall(c) = [st |-> "served", req |-> ask[c], rep |-> Head(outbox[ConnOf(c)])]
  BY DEF AbsCall

LEMMA CallMaps ==
  ASSUME HelperInv, NEW c \in Callers, Call(c)
  PROVE  Abs!Next
  <1> USE DEF Call, wire, server
  <1>1. PICK r \in RequestsOf(c) : ask' = [ask EXCEPT ![c] = r]
    OBVIOUS
  <1>2. r \in Requests
    BY RequestFacts
  <1>3. AbsCall(c)' = [st |-> "asked", req |-> r] /\ AbsCall(c) = [st |-> "idle"]
    BY <1>1 DEF AbsCall, HelperInv, TypeInv
  <1>4. \A d \in Callers \ {c} : AbsCall(d)' = AbsCall(d)
    BY <1>1 DEF AbsCall, HelperInv, TypeInv
  <1>5. CallView' = [CallView EXCEPT ![c] = [st |-> "asked", req |-> r]] /\ CallView[c].st = "idle"
    BY <1>3, <1>4, OneCallChanges DEF CallView
  <1>6. UNCHANGED <<LeftView, running, next>>
    BY DEF LeftView
  <1>7. Abs!Ask(c, r)
    BY <1>5, <1>6 DEF Abs!Ask, CallView, LeftView
  <1> QED
    BY <1>2, <1>7 DEF Abs!Next

LEMMA WriteMaps ==
  ASSUME HelperInv, NEW c \in Callers, Write(c)
  PROVE  UNCHANGED Abs!vars
  <1> USE DEF Write, server
  <1>1. outbox[ConnOf(c)] = <<>> /\ UNCHANGED <<outbox, ask>>
    BY FreeIsSilent DEF Silent
  <1>2. \A d \in Callers : AbsCall(d)' = AbsCall(d)
    <2>1. AbsCall(c)' = AbsCall(c)
      BY <1>1 DEF AbsCall, HelperInv, TypeInv
    <2>2. \A d \in Callers \ {c} : AbsCall(d)' = AbsCall(d)
      BY <1>1 DEF AbsCall, HelperInv, TypeInv
    <2> QED
      BY <2>1, <2>2
  <1>3. CallView' = CallView /\ UNCHANGED <<LeftView, running, next>>
    BY <1>2, NoCallChanges DEF LeftView
  <1> QED
    BY <1>3 DEF Abs!vars, CallView, LeftView

(* The reply taken is the one the call was served with.                    *)
LEMMA ReceiveMaps ==
  ASSUME HelperInv, NEW c \in Callers, Receive(c)
  PROVE  Abs!Next
  <1> USE DEF Receive, server
  <1>1. AbsCall(c)' = [st |-> "idle"] /\ AbsCall(c).st = "served"
    BY DEF AbsCall, HelperInv, TypeInv
  <1>2. ASSUME NEW d \in Callers \ {c}
        PROVE  AbsCall(d)' = AbsCall(d)
    <2>1. pc'[d] = pc[d] /\ ask'[d] = ask[d]
      BY <1>2 DEF HelperInv, TypeInv
    <2>2. CASE pc[d] = "sent"
      <3>1. ConnOf(d) # ConnOf(c)
        BY <1>2, <2>2, OneSender DEF HelperInv
      <3>2. outbox'[ConnOf(d)] = outbox[ConnOf(d)]
        BY <1>2, <3>1, ConnFacts DEF HelperInv, TypeInv
      <3> QED
        BY <2>1, <3>2 DEF AbsCall
    <2>3. CASE pc[d] # "sent"
      BY <2>1, <2>3 DEF AbsCall
    <2> QED
      BY <2>2, <2>3
  <1>3. CallView' = [CallView EXCEPT ![c] = [st |-> "idle"]] /\ CallView[c].st = "served"
    BY <1>1, <1>2, OneCallChanges DEF CallView
  <1>4. UNCHANGED <<LeftView, running, next>>
    BY DEF LeftView
  <1>5. Abs!Return(c)
    BY <1>3, <1>4 DEF Abs!Return, Abs!Idle, CallView, LeftView
  <1> QED
    BY <1>5 DEF Abs!Next

LEMMA FailMaps ==
  ASSUME HelperInv, NEW c \in Callers, Fail(c)
  PROVE  Abs!Next
  <1> USE DEF Fail, wire, server
  <1>1. AbsCall(c)' = [st |-> "idle"] /\ AbsCall(c).st # "idle"
    BY AbsCallFacts DEF AbsCall, HelperInv, TypeInv
  <1>2. \A d \in Callers \ {c} : AbsCall(d)' = AbsCall(d)
    BY DEF AbsCall, HelperInv, TypeInv
  <1>3. CallView' = [CallView EXCEPT ![c] = [st |-> "idle"]] /\ CallView[c].st # "idle"
    BY <1>1, <1>2, OneCallChanges DEF CallView
  <1>4. UNCHANGED <<LeftView, running, next>>
    BY DEF LeftView
  <1>5. Abs!Lose(c)
    BY <1>3, <1>4 DEF Abs!Lose, Abs!Idle, CallView, LeftView
  <1> QED
    BY <1>5 DEF Abs!Next

(* With the GUI its calls end; what the helper has read stays under way.   *)
LEMMA GuiGoneMaps ==
  ASSUME HelperInv, GuiGone
  PROVE  Abs!Next
  <1> USE DEF GuiGone, server
  <1>1. CallView' = [c \in Callers |-> [st |-> "idle"]]
    BY DEF CallView, AbsCall
  <1>2. LeftView' = {busy[k] : k \in Conns} \ {NoReq}
    BY DEF LeftView
  <1>3. LeftView' \subseteq {CallView[c].req : c \in {d \in Callers : CallView[d].st = "asked"}}
    <2> SUFFICES ASSUME NEW k \in Conns, busy[k] # NoReq
                 PROVE  \E c \in Callers : CallView[c].st = "asked" /\ CallView[c].req = busy[k]
      BY <1>2
    <2>1. PICK c \in Callers : Carries(k, c) /\ busy[k] = ask[c] /\ outbox[k] = <<>>
      BY BusyIsAsked
    <2>2. AbsCall(c) = [st |-> "asked", req |-> busy[k]]
      BY <2>1 DEF AbsCall, Carries
    <2> QED
      BY <2>2 DEF CallView
  <1>4. UNCHANGED <<running, next>>
    OBVIOUS
  <1>5. Abs!CallersGone
    BY <1>1, <1>3, <1>4 DEF Abs!CallersGone, Abs!Idle, CallView, LeftView
  <1> QED
    BY <1>5 DEF Abs!Next

(* Reading a request, writing its files and the end of the data path are   *)
(* not seen by any caller.                                                 *)
LEMMA UnseenMaps ==
  ASSUME HelperInv, \/ \E k \in Conns : Read(k) \/ WriteFiles(k)
                    \/ WatchGui
  PROVE  UNCHANGED Abs!vars
  <1>1. UNCHANGED <<gui, pc, ask, outbox, running, next>>
    BY DEF Read, WriteFiles, WatchGui, client, wire
  <1>2. CallView' = CallView
    BY <1>1 DEF CallView, AbsCall
  <1>3. LeftView' = LeftView
    <2>1. CASE gui = "up"
      BY <1>1, <2>1 DEF LeftView
    <2>2. CASE gui # "up"
      <3>1. ASSUME NEW k \in Conns, Read(k) PROVE FALSE
        BY <2>2, <3>1 DEF HelperInv, WireInv, Silent, Read
      <3>2. busy' = busy
        BY <3>1 DEF WriteFiles, WatchGui, wire
      <3> QED
        BY <1>1, <3>2 DEF LeftView
    <2> QED
      BY <2>1, <2>2
  <1> QED
    BY <1>1, <1>2, <1>3 DEF Abs!vars, CallView, LeftView

LEMMA SweepMaps ==
  ASSUME HelperInv, NEW h \in Handles, SweepCore(h)
  PROVE  Abs!Next \/ UNCHANGED Abs!vars
  <1> USE DEF SweepCore, client, wire
  <1>1. CallView' = CallView /\ LeftView' = LeftView /\ next' = next
    BY DEF CallView, AbsCall, LeftView
  <1>2. CASE h \in running
    <2>1. Abs!Sweep
      BY <1>1, <1>2 DEF Abs!Sweep, CallView, LeftView
    <2> QED
      BY <2>1 DEF Abs!Next
  <1>3. CASE h \notin running
    BY <1>1, <1>3 DEF Abs!vars, CallView, LeftView
  <1> QED
    BY <1>2, <1>3

LEMMA ExitMaps ==
  ASSUME HelperInv, Exit
  PROVE  Abs!Next
  <1> USE DEF Exit, client
  <1>1. CallView' = CallView /\ next' = next /\ running' = {}
    BY DEF CallView, AbsCall
  <1>2. LeftView' = {}
    BY DEF LeftView
  <1>3. CASE running # {}
    <2>1. Abs!Sweep
      BY <1>1, <1>2, <1>3 DEF Abs!Sweep, CallView, LeftView
    <2> QED
      BY <2>1 DEF Abs!Next
  <1>4. CASE running = {}
    <2>1. Abs!HelperGone
      BY <1>1, <1>2, <1>4 DEF Abs!HelperGone, CallView, LeftView
    <2> QED
      BY <2>1 DEF Abs!Next
  <1> QED
    BY <1>3, <1>4

(* What a dispatch does to the cores and the handles is what HelperCall    *)
(* says of the request and its reply.                                      *)
DoneBy(req, reply) == /\ reply.to = req.op
                      /\ Abs!Begun(req, reply) \cap 1..(next - 1) = {}
                      /\ 1..(next' - 1) = (1..(next - 1)) \cup Abs!Begun(req, reply)
                      /\ running' = (running \cup Abs!Begun(req, reply)) \ Abs!Ended(req)

LEMMA DispatchIsDone ==
  ASSUME HelperInv, NEW k \in Conns,
         DispatchPath(k) \/ DispatchQuery(k) \/ DispatchSpawn(k) \/ DispatchKill(k)
  PROVE  /\ busy[k] # NoReq /\ UNCHANGED <<gui, helper, client, inbox>>
         /\ \E r \in RepliesTo(busy[k]) : Answer(k, r) /\ DoneBy(busy[k], r)
  <1>1. UNCHANGED <<gui, helper, client, inbox>>
    BY DEF DispatchPath, DispatchQuery, DispatchSpawn, DispatchKill
  <1>2. CASE DispatchPath(k) \/ DispatchQuery(k)
    <2>1. busy[k].op \in {"boot", "start", "stop", "state", "healthy", "ping"}
      BY <1>2 DEF DispatchPath, DispatchQuery
    <2>2. UNCHANGED <<running, next>>
      BY <1>2 DEF DispatchPath, DispatchQuery, server
    <2>3. PICK ok \in BOOLEAN : Answer(k, Reply(busy[k].op, ok, 0))
      BY <1>2 DEF DispatchPath, DispatchQuery
    <2>4. Reply(busy[k].op, ok, 0) \in RepliesTo(busy[k])
      BY <2>1 DEF Reply, RepliesTo
    <2>5. Abs!Begun(busy[k], Reply(busy[k].op, ok, 0)) = {} /\ Abs!Ended(busy[k]) = {}
      BY <2>1 DEF Abs!Begun, Abs!Ended
    <2>6. DoneBy(busy[k], Reply(busy[k].op, ok, 0))
      BY <2>2, <2>5 DEF DoneBy, Reply
    <2>7. busy[k] # NoReq
      BY <2>1 DEF NoReq
    <2> QED
      BY <1>1, <2>3, <2>4, <2>6, <2>7
  <1>3. CASE DispatchSpawn(k)
    <2>1. busy[k].op = "spawn" /\ busy[k] # NoReq
      BY <1>3 DEF DispatchSpawn, NoReq
    <2>2. next \in Nat \ {0} /\ Abs!Ended(busy[k]) = {}
      BY <2>1, HelperConstants DEF HelperInv, TypeInv, Abs!Ended
    <2>3. CASE /\ next <= MaxCores /\ Answer(k, Reply("spawn", TRUE, next)) /\ next' = next + 1
               /\ running' = running \cup {next}
      <3>1. next \in Handles
        BY <2>2, <2>3, HelperConstants DEF Handles
      <3>2. Reply("spawn", TRUE, next) \in RepliesTo(busy[k])
        BY <2>1, <3>1 DEF Reply, RepliesTo
      <3>3. Abs!Begun(busy[k], Reply("spawn", TRUE, next)) = {next}
        BY <2>1 DEF Abs!Begun, Reply
      <3>4. {next} \cap 1..(next - 1) = {} /\ 1..(next' - 1) = (1..(next - 1)) \cup {next}
        BY <2>2, <2>3
      <3>5. DoneBy(busy[k], Reply("spawn", TRUE, next))
        BY <2>1, <2>2, <2>3, <3>3, <3>4 DEF DoneBy, Reply
      <3> QED
        BY <1>1, <2>1, <2>3, <3>2, <3>5
    <2>4. CASE Answer(k, Reply("spawn", FALSE, 0)) /\ UNCHANGED <<running, next>>
      <3>1. Reply("spawn", FALSE, 0) \in RepliesTo(busy[k])
        BY <2>1 DEF Reply, RepliesTo
      <3>2. Abs!Begun(busy[k], Reply("spawn", FALSE, 0)) = {}
        BY DEF Abs!Begun, Reply
      <3>3. DoneBy(busy[k], Reply("spawn", FALSE, 0))
        BY <2>1, <2>2, <2>4, <3>2 DEF DoneBy, Reply
      <3> QED
        BY <1>1, <2>1, <2>4, <3>1, <3>3
    <2> QED
      BY <1>3, <2>3, <2>4 DEF DispatchSpawn
  <1>4. CASE DispatchKill(k)
    <2>1. busy[k].op = "kill" /\ Answer(k, Reply("kill", TRUE, 0)) /\ next' = next
      BY <1>4 DEF DispatchKill
    <2>2. running' = running \ {busy[k].handle}
      BY <1>4 DEF DispatchKill, HelperInv, HandlesInv
    <2>3. Reply("kill", TRUE, 0) \in RepliesTo(busy[k])
      BY <2>1 DEF Reply, RepliesTo
    <2>4. Abs!Begun(busy[k], Reply("kill", TRUE, 0)) = {} /\ Abs!Ended(busy[k]) = {busy[k].handle}
      BY <2>1 DEF Abs!Begun, Abs!Ended
    <2>5. DoneBy(busy[k], Reply("kill", TRUE, 0))
      BY <2>1, <2>2, <2>4 DEF DoneBy, Reply
    <2>6. busy[k] # NoReq
      BY <2>1 DEF NoReq
    <2> QED
      BY <1>1, <2>1, <2>3, <2>5, <2>6
  <1> QED
    BY <1>2, <1>3, <1>4

LEMMA DispatchMaps ==
  ASSUME HelperInv, NEW k \in Conns,
         DispatchPath(k) \/ DispatchQuery(k) \/ DispatchSpawn(k) \/ DispatchKill(k)
  PROVE  Abs!Next
  <1>1. busy[k] # NoReq /\ UNCHANGED <<gui, helper, pc, ask>>
    BY DispatchIsDone DEF client
  <1>2. PICK r \in RepliesTo(busy[k]) : Answer(k, r) /\ DoneBy(busy[k], r)
    BY DispatchIsDone
  <1>3. /\ outbox' = IF gui = "up" THEN [outbox EXCEPT ![k] = <<r>>] ELSE outbox
        /\ busy' = [busy EXCEPT ![k] = NoReq]
    BY <1>1, <1>2, DispatchIsDone, AnswerKeepsWire DEF Answer
  <1>4. r \in Abs!Answers(busy[k]) /\ Abs!CarryOut(busy[k], r)
    BY <1>2 DEF Abs!Answers, Abs!CarryOut, DoneBy, RepliesTo
  <1>5. CASE gui = "up"
    <2>1. PICK c \in Callers : Carries(k, c) /\ busy[k] = ask[c] /\ outbox[k] = <<>>
      BY <1>1, <1>5, BusyIsAsked
    <2>2. pc[c] = "sent" /\ ConnOf(c) = k
      BY <2>1 DEF Carries
    <2>3. AbsCall(c) = [st |-> "asked", req |-> busy[k]]
      BY <2>1, <2>2 DEF AbsCall
    <2>4. outbox'[k] # <<>> /\ Head(outbox'[k]) = r
      BY <1>3, <1>5, SingletonFacts DEF HelperInv, TypeInv
    <2>5. AbsCall(c)' = [st |-> "served", req |-> busy[k], rep |-> r]
      BY <1>1, <2>1, <2>2, <2>4 DEF AbsCall
    <2>6. ASSUME NEW d \in Callers \ {c}
          PROVE  AbsCall(d)' = AbsCall(d)
      <3>1. CASE pc[d] = "sent"
        <4>1. ConnOf(d) # k
          BY <2>2, <2>6, <3>1, OneSender DEF HelperInv
        <4>2. outbox'[ConnOf(d)] = outbox[ConnOf(d)]
          BY <1>3, <1>5, <4>1, <2>6, ConnFacts DEF HelperInv, TypeInv
        <4> QED
          BY <1>1, <4>2 DEF AbsCall
      <3>2. CASE pc[d] # "sent"
        BY <1>1, <3>2 DEF AbsCall
      <3> QED
        BY <3>1, <3>2
    <2>7. /\ CallView' = [CallView EXCEPT ![c] = [st |-> "served", req |-> CallView[c].req, rep |-> r]]
          /\ CallView[c].st = "asked" /\ CallView[c].req = busy[k]
      BY <2>3, <2>5, <2>6, OneCallChanges DEF CallView
    <2>8. UNCHANGED LeftView
      BY <1>1, <1>5 DEF LeftView
    <2>9. Abs!Serve(c)
      BY <1>4, <2>7, <2>8 DEF Abs!Serve, CallView, LeftView
    <2> QED
      BY <2>9 DEF Abs!Next
  <1>6. CASE gui # "up"
    <2>1. CallView' = CallView
      BY <1>1, <1>3, <1>6 DEF CallView, AbsCall
    <2>2. \A j \in Conns \ {k} : busy[j] # busy[k]
      BY <1>1 DEF HelperInv, WireInv, Conns
    <2>3. LeftView' = LeftView \ {busy[k]} /\ busy[k] \in LeftView
      BY <1>1, <1>3, <1>6, <2>2 DEF LeftView, HelperInv, TypeInv
    <2>4. Abs!ServeLeft
      BY <1>4, <2>1, <2>3 DEF Abs!ServeLeft, CallView, LeftView
    <2> QED
      BY <2>4 DEF Abs!Next
  <1> QED
    BY <1>5, <1>6

LEMMA InitMaps == Init => Abs!Init
  <1> SUFFICES ASSUME Init PROVE Abs!Init
    OBVIOUS
  <1>1. CallView = [c \in Callers |-> [st |-> "idle"]] /\ LeftView = {}
    BY DEF Init, CallView, AbsCall, LeftView
  <1>2. running = {} /\ 1..(next - 1) = {}
    BY DEF Init
  <1> QED
    BY <1>1, <1>2 DEF Abs!Init, Abs!Idle, CallView, LeftView

LEMMA StepMaps == HelperInv /\ [Next]_vars => [Abs!Next]_Abs!vars
  <1> SUFFICES ASSUME HelperInv, [Next]_vars PROVE Abs!Next \/ UNCHANGED Abs!vars
    OBVIOUS
  <1>1. CASE UNCHANGED vars
    <2>1. CallView' = CallView /\ LeftView' = LeftView /\ UNCHANGED <<running, next>>
      BY <1>1 DEF vars, CallView, AbsCall, LeftView
    <2> QED
      BY <2>1 DEF Abs!vars, CallView, LeftView
  <1>2. ASSUME NEW c \in Callers, Call(c) \/ Write(c) \/ Receive(c) \/ Fail(c)
        PROVE  Abs!Next \/ UNCHANGED Abs!vars
    BY <1>2, CallMaps, WriteMaps, ReceiveMaps, FailMaps
  <1>3. ASSUME NEW k \in Conns, Dispatch(k)
        PROVE  Abs!Next \/ UNCHANGED Abs!vars
    BY <1>3, UnseenMaps, DispatchMaps DEF Dispatch
  <1>4. ASSUME NEW h \in Handles, SweepCore(h)
        PROVE  Abs!Next \/ UNCHANGED Abs!vars
    BY <1>4, SweepMaps
  <1>5. CASE GuiGone \/ WatchGui \/ WatchGuiExit \/ HelperDies
    BY <1>5, GuiGoneMaps, UnseenMaps, ExitMaps DEF WatchGuiExit, HelperDies
  <1> QED
    BY <1>1, <1>2, <1>3, <1>4, <1>5 DEF Next

(* Seen by its callers the shared connection is the abstract call: though  *)
(* no line names its call, a request is carried out at most once and its   *)
(* own reply is what its caller takes.                                     *)
THEOREM HelperImplementsCall == Spec => ImplementsCall
  BY HelperInvariant, InitMaps, StepMaps, PTL DEF Spec, ImplementsCall, Abs!Spec
-----------------------------------------------------------------------------
(* The sessions of helpers and GUIs. *)

(* A client took its helper for one of its protocol; on Windows only the   *)
(* GUI that the service serves is connected still.                         *)
SpokenTo == \A g \in Guis :
    guiAt[g] = "up" /\ (os = "windows" => active = g /\ service = "running")
        => Protocol(conn[g]) = Protocol(g)

SessionInv == SessionTypeOK /\ SpokenTo /\ PathHasItsGui

LEMMA SessionTypeInit == SessionInit => SessionTypeOK
  BY DEF SessionInit, SessionTypeOK

LEMMA LaunchOutcomes == Launches \subseteq {"launching", "failed", "exited"}
  BY DEF Launches, LaunchesOf

LEMMA LinuxTypes ==
  ASSUME SessionTypeOK, LinuxNext
  PROVE  SessionTypeOK'
  <1>1. PICK g \in Guis : SpawnHelper(g) \/ Bind(g) \/ DialSocket(g) \/ WatchItsGui(g) \/ ExitHelper(g)
    BY DEF LinuxNext
  <1>2. CASE SpawnHelper(g)
    BY <1>2, LaunchOutcomes DEF SpawnHelper, SessionTypeOK, windows
  <1>3. CASE Bind(g) \/ DialSocket(g)
    BY <1>3 DEF Bind, DialSocket, Fresh, SessionTypeOK, windows, linux
  <1>4. CASE WatchItsGui(g) \/ ExitHelper(g)
    BY <1>4 DEF WatchItsGui, ExitHelper, SessionTypeOK, windows
  <1> QED
    BY <1>1, <1>2, <1>3, <1>4

LEMMA WindowsTypes ==
  ASSUME SessionTypeOK, WindowsNext
  PROVE  SessionTypeOK'
  <1>1. ASSUME NEW g \in Guis, LaunchWindows(g) \/ DialPipe(g) PROVE SessionTypeOK'
    BY <1>1 DEF LaunchWindows, DialPipe, SessionTypeOK, windows, linux
  <1>2. ASSUME NEW g \in Guis, StopService(g) \/ InstallService(g) PROVE SessionTypeOK'
    BY <1>2 DEF StopService, InstallService, SessionTypeOK, windows, linux
  <1>3. ASSUME NEW g \in Guis, StartIfStopped(g) PROVE SessionTypeOK'
    BY <1>3 DEF StartIfStopped, SessionTypeOK, linux
  <1>4. CASE ActiveEnds \/ FirstClientTimeout
    BY <1>4 DEF ActiveEnds, FirstClientTimeout, SessionTypeOK, linux
  <1>5. CASE ServiceStops
    BY <1>5 DEF ServiceStops, SessionTypeOK, linux
  <1> QED
    BY <1>1, <1>2, <1>3, <1>4, <1>5 DEF WindowsNext

LEMMA SessionTypes ==
  ASSUME SessionTypeOK, [SessionNext]_sessionVars
  PROVE  SessionTypeOK'
  <1>1. CASE PortableNext
    BY <1>1 DEF PortableNext, SpawnTransient, DialTransient, TransientEnds,
                SessionTypeOK, windows, linux
  <1>2. ASSUME NEW g \in Guis, GiveUp(g) \/ StartPath(g) \/ StopPath(g) \/ Quit(g)
        PROVE  SessionTypeOK'
    BY <1>2 DEF GiveUp, StartPath, StopPath, Quit, SessionTypeOK, windows, linux
  <1>3. CASE UNCHANGED sessionVars
    BY <1>3 DEF sessionVars, SessionTypeOK
  <1> QED
    BY <1>1, <1>2, <1>3, LinuxTypes, WindowsTypes DEF SessionNext

(* Off Windows a connection is only ever made to a helper that answered in *)
(* the GUI's protocol, and none is made to the service.                    *)
LEMMA LinuxKeepsSession ==
  ASSUME SessionInv, LinuxNext
  PROVE  SpokenTo' /\ PathHasItsGui'
  <1>1. PICK g \in Guis : SpawnHelper(g) \/ Bind(g) \/ DialSocket(g) \/ WatchItsGui(g) \/ ExitHelper(g)
    BY DEF LinuxNext
  <1>2. CASE SpawnHelper(g)
    BY <1>2 DEF SpawnHelper, SessionInv, SessionTypeOK, SpokenTo, PathHasItsGui, windows
  <1>3. CASE Bind(g)
    BY <1>3 DEF Bind, SessionInv, SessionTypeOK, SpokenTo, PathHasItsGui, windows
  <1>4. CASE DialSocket(g)
    BY <1>4 DEF DialSocket, SessionInv, SessionTypeOK, SpokenTo, PathHasItsGui, windows, linux
  <1>5. CASE WatchItsGui(g) \/ ExitHelper(g)
    BY <1>5 DEF WatchItsGui, ExitHelper, SessionInv, SpokenTo, PathHasItsGui, windows
  <1> QED
    BY <1>1, <1>2, <1>3, <1>4, <1>5

LEMMA PortableKeepsSession ==
  ASSUME SessionInv, PortableNext
  PROVE  SpokenTo' /\ PathHasItsGui'
  BY DEF PortableNext, SpawnTransient, DialTransient, TransientEnds, SessionInv,
         SessionTypeOK, SpokenTo, PathHasItsGui, windows, linux

(* Whoever the service admits finds it serving nobody, so with no path up. *)
LEMMA DialKeepsSession ==
  ASSUME SessionInv, NEW g \in Guis, DialPipe(g)
  PROVE  SpokenTo' /\ PathHasItsGui'
  <1>1. /\ os = "windows" /\ service = "running" /\ guiAt[g] # "up"
        /\ UNCHANGED <<os, service, build, pathOf>>
        /\ \A h \in Guis \ {g} : guiAt'[h] = guiAt[h] /\ conn'[h] = conn[h]
    BY DEF DialPipe, SessionInv, SessionTypeOK, linux
  <1>2. CASE PingOutcome(g) = "other session"
    <2>1. active' = active /\ guiAt'[g] # "up"
      BY <1>2 DEF DialPipe, SessionInv, SessionTypeOK
    <2> QED
      BY <1>1, <2>1 DEF SessionInv, SpokenTo, PathHasItsGui
  <1>3. CASE PingOutcome(g) # "other session"
    <2>1. active' = g /\ active = NoGui
      <3>1. ServingSession = NoGui
        BY <1>3 DEF PingOutcome, Admit
      <3> QED
        BY <1>3, <3>1, SessionConstants DEF DialPipe, ServingSession, SessionInv, SessionTypeOK
    <2>2. pathOf = NoGui
      BY <1>1, <2>1 DEF SessionInv, PathHasItsGui
    <2>3. guiAt'[g] = "up" => PingOutcome(g) = "ok" /\ conn'[g] = build
      BY <1>1 DEF DialPipe, SessionInv, SessionTypeOK
    <2>4. PingOutcome(g) = "ok" => Protocol(build) = Protocol(g)
      BY DEF PingOutcome
    <2> QED
      BY <1>1, <2>1, <2>2, <2>3, <2>4 DEF SpokenTo, PathHasItsGui, Protocol
  <1> QED
    BY <1>2, <1>3

LEMMA WindowsKeepsSession ==
  ASSUME SessionInv, WindowsNext
  PROVE  SpokenTo' /\ PathHasItsGui'
  <1>1. ASSUME NEW g \in Guis, LaunchWindows(g) \/ StopService(g) \/ InstallService(g)
        PROVE  SpokenTo' /\ PathHasItsGui'
    BY <1>1 DEF LaunchWindows, StopService, InstallService, SessionInv, SessionTypeOK,
                SpokenTo, PathHasItsGui, windows, linux
  <1>2. ASSUME NEW g \in Guis, StartIfStopped(g) PROVE SpokenTo' /\ PathHasItsGui'
    BY <1>2, SessionConstants DEF StartIfStopped, SessionInv, SpokenTo, PathHasItsGui, linux
  <1>3. CASE ActiveEnds
    BY <1>3, SessionConstants DEF ActiveEnds, SessionInv, SpokenTo, PathHasItsGui, linux
  <1>4. CASE FirstClientTimeout
    BY <1>4 DEF FirstClientTimeout, SessionInv, SpokenTo, PathHasItsGui, linux
  <1>5. CASE ServiceStops
    BY <1>5, SessionConstants DEF ServiceStops, SessionInv, SpokenTo, PathHasItsGui, linux
  <1> QED
    BY <1>1, <1>2, <1>3, <1>4, <1>5, DialKeepsSession DEF WindowsNext

(* However GUIs of several sessions and builds come and go, crash, restart *)
(* the service or find another's helper: who is served is served in its    *)
(* own protocol, and nobody takes over another's data path.                *)
THEOREM GuisKeepApart == SessionSpec => []ServedByItsOwn
  <1>1. SessionInit => SessionInv
    BY SessionTypeInit DEF SessionInit, SessionInv, SpokenTo, PathHasItsGui
  <1>2. SessionInv /\ [SessionNext]_sessionVars => SessionInv'
    <2> SUFFICES ASSUME SessionInv, [SessionNext]_sessionVars
                 PROVE  SpokenTo' /\ PathHasItsGui'
      BY SessionTypes DEF SessionInv
    <2>1. ASSUME NEW g \in Guis, GiveUp(g) \/ Quit(g) PROVE SpokenTo' /\ PathHasItsGui'
      BY <2>1 DEF GiveUp, Quit, SessionInv, SessionTypeOK, SpokenTo, PathHasItsGui, windows, linux
    <2>2. ASSUME NEW g \in Guis, StartPath(g) \/ StopPath(g) PROVE SpokenTo' /\ PathHasItsGui'
      BY <2>2 DEF StartPath, StopPath, Reachable, SessionInv, SpokenTo, PathHasItsGui, windows, linux
    <2>3. CASE UNCHANGED sessionVars
      BY <2>3 DEF sessionVars, SessionInv, SpokenTo, PathHasItsGui
    <2> QED
      BY <2>1, <2>2, <2>3, LinuxKeepsSession, PortableKeepsSession, WindowsKeepsSession
      DEF SessionNext
  <1>3. SessionInv => ServedByItsOwn
    BY DEF SessionInv, SpokenTo, ServedByItsOwn, SpeaksItsProtocol, Reachable
  <1> QED
    BY <1>1, <1>2, <1>3, PTL DEF SessionSpec
=============================================================================
