------------------------------ MODULE MCAppState ------------------------------
(* AppState on a handful of documents.  A subscription has brought one     *)
(* server; the user has added a profile that goes through it and a route.  *)
EXTENDS AppState

CONSTANTS p1, p2, p3, f1, f2, f3, g0, g1, g2, u1, u2, b1, r1, r2, def, n1, n2, e1, e2

OneUrl(u) == "url"

Offer(name, end, custom) == [name |-> name, end |-> end, custom |-> custom]
Of(id, name, end, group, sub, via) ==
  [id |-> id, name |-> name, end |-> end, custom |-> FALSE, group |-> group,
   sub |-> sub, via |-> via]
G(id, name, owner) == [id |-> id, name |-> name, owner |-> owner]
U(id, target) == [id |-> id, name |-> n1, enabled |-> TRUE, target |-> target,
                  configs |-> TRUE, pending |-> {}, answered |-> {}]
R(id, enabled, profiles, groups, blocks) ==
  [id |-> id, enabled |-> enabled, profiles |-> profiles, groups |-> groups,
   blocks |-> blocks, final |-> Proxy, source |-> None]

Sent(batch, title, routing) ==
  [batch |-> batch, title |-> title, routing |-> routing]

(* the server moved, renamed beside a second one with an offer of routing, *)
(* a provider's config that switches its routing off                       *)
SubAnswers == {Sent(<<Offer(n1, e2, FALSE)>>, n2, "none"),
               Sent(<<Offer(n2, e1, FALSE), Offer(n1, e1, FALSE)>>, None, "add"),
               Sent(<<Offer(n1, e1, TRUE)>>, None, "off")}
SubStart ==
  Doc(<<Of(p1, n2, e2, g0, None, f1), Of(f1, n1, e1, g1, u1, None)>>,
      <<G(g0, n1, None), G(g1, n1, u1)>>, <<U(u1, g1)>>, <<>>,
      <<R(def, TRUE, {}, {}, {}),
        [R(r1, TRUE, {f1}, {}, {}) EXCEPT !.final = f1]>>,
      f1, FALSE, None)
(* two of its servers have one name and are on two routes; it is refreshed *)
(* by hand                                                                 *)
TwinStart ==
  Doc(<<Of(f1, n1, e1, g1, u1, None), Of(f2, n1, e2, g1, u1, f1)>>,
      <<G(g0, n1, None), G(g1, n1, u1)>>, <<[U(u1, g1) EXCEPT !.enabled = FALSE]>>, <<>>,
      <<R(def, TRUE, {}, {}, {}), R(r1, TRUE, {f1}, {}, {}),
        R(r2, TRUE, {f2}, {}, {})>>,
      f2, FALSE, None)
SubStarts == {SubStart, TwinStart}

(* two routes, one off, that both have a claim on the group g1 *)
RouteStart ==
  Doc(<<Of(p1, n1, e1, g1, None, None), Of(f1, n2, e2, g0, u1, p1)>>,
      <<G(g0, n1, None), G(g1, n2, u1)>>, <<U(u1, g0)>>,
      <<[id |-> b1, tag |-> f1, source |-> None]>>,
      <<R(def, TRUE, {f1}, {}, {b1}), R(r1, FALSE, {}, {g1}, {})>>,
      p1, TRUE, None)
RouteStarts == {RouteStart}
MCRouteDrafts == {R(r2, TRUE, {p1}, {g1}, {b1}), R(r1, TRUE, {f1}, {g0}, {}),
                  R(def, FALSE, {p1}, {g1}, {b1})}

(* A backup of another machine: the same subscription, group and server    *)
(* under other ids, from before routes; and a document without the base    *)
(* group that names things it does not hold.                               *)
OldBackup ==
  Doc(<<Of(p2, n1, e1, g2, None, None), Of(p3, n2, e1, g2, u2, p2)>>,
      <<G(g0, n1, None), G(g2, n2, u2)>>, <<U(u2, g2)>>, <<>>, <<>>,
      p2, FALSE, p2)
NewBackup ==
  Doc(<<>>, <<G(g2, n1, u2)>>, <<U(u1, g1)>>,
      <<[id |-> <<"sub", u1>>, tag |-> p1, source |-> u1]>>,
      <<R(r2, TRUE, {p1}, {g2}, {b1}),
        [R(<<"sub", u1>>, TRUE, {}, {g1}, {<<"sub", u1>>}) EXCEPT !.source = u1],
        R(def, FALSE, {p1}, {g2}, {<<"sub", u1>>})>>,
      p2, FALSE, None)
MCBackups == {OldBackup, NewBackup}

(* Where is SelectSeq. *)
ASSUME WhereSelects ==
  \A items \in BoundedSeq(1 .. 3, 4), kept \in SUBSET (1 .. 3) :
    Where(items, LAMBDA x : x \in kept) = SelectSeq(items, LAMBDA x : x \in kept)
=============================================================================
