---------------------------- MODULE WebhooksProofs ----------------------------
(***************************************************************************)
(* Deduplication, the limits on notifications and signatures, for any      *)
(* requests, hats, windows and limits, and with any number of equips and   *)
(* teardowns between two awaits of a handler.                              *)
(*                                                                         *)
(* The properties speak of what handlers did in the past.  The invariant   *)
(* adds what a router remembers of it: the mark of every young event       *)
(* (FreshMarks) and the count of each entity's day (Counted).              *)
(***************************************************************************)
EXTENDS Webhooks, TLAPS, FiniteSetTheorems

\* Where a handler can be, given what it has done.
Placed ==
    \A r \in Requests :
        /\ req[r].stage \in {"off", "body"} => req[r].routedAt = Never
        /\ req[r].stage \in {"off", "body", "store", "lookup"} => req[r].sentAt = Never
        /\ req[r].stage \in {"store", "lookup", "send", "pipeline"} => Routed(r)
        /\ req[r].sentAt # Never => Routed(r)
        /\ Routed(r) => req[r].via # 0 /\ req[r].routedAt <= now

\* A router remembers every event it let through less than a window ago.
FreshMarks ==
    \A r \in Requests : Routed(r) /\ now - req[r].routedAt < Window =>
        \E m \in routers[req[r].via].seen :
            m.key = Key(r, req[r].post) /\ m.at >= req[r].routedAt

\* The notifications about entity c that router i sent on day d, when the requests
\* are as in rs.
SentOn(rs, i, c, d) == {r \in Requests : /\ rs[r].via = i
                                         /\ rs[r].post.entity = c
                                         /\ rs[r].sentAt # Never
                                         /\ DayOf(rs[r].sentAt) = d}

\* The count n of an entity is that of its day, which is past or today, and the
\* last on which anything was sent.
CountOK(n, rs, i, c, today) ==
    /\ n.day <= today
    /\ Cardinality(SentOn(rs, i, c, n.day)) = n.sent
    /\ \A d \in Nat : d > n.day => SentOn(rs, i, c, d) = {}
    /\ \A d \in Nat : Cardinality(SentOn(rs, i, c, d)) <= MaxDaily

Counted ==
    \A i \in 1..Len(routers), c \in Entities :
        CountOK(routers[i].counts[c], req, i, c, DayOf(now))

OutsideQuietHours ==
    \A r \in Requests : req[r].sentAt # Never => HourOf(req[r].sentAt) \notin QuietHours

HookInv == /\ WebhookTypeOK
           /\ Placed
           /\ FreshMarks
           /\ Counted
           /\ OutsideQuietHours
           /\ DuplicatesDropped
           /\ SignedOnly

-----------------------------------------------------------------------------
(* The clock.                                                              *)

\* The day of a moment is a number, and time does not go back to an earlier one.
LEMMA Days ==
    ASSUME WebhookAssumption, NEW t \in Nat, NEW u \in {t, t + 1}
    PROVE  DayOf(t) \in Nat /\ DayOf(u) \in Nat /\ DayOf(t) <= DayOf(u)
<1>1. \A D \in Nat \ {0} : /\ t \div D \in Nat /\ (t + 1) \div D \in Nat
                           /\ t \div D <= (t + 1) \div D
  BY SMTT(30)
<1> QED
  BY <1>1 DEF DayOf, WebhookAssumption

\* The remainder of what is less than one divisor out of range.
LEMMA Remainders ==
    ASSUME NEW D \in Nat \ {0}, NEW x \in 0..D - 1
    PROVE  x % D = x /\ (x - D) % D = x /\ (x + D) % D = x
BY SMTT(30)

\* The gate's comparisons say of an hour what the interval says.
LEMMA GateKeepsQuietHours ==
    ASSUME WebhookAssumption, now \in Nat, HourOf(now) \in QuietHours
    PROVE  InQuietHours
<1> USE DEF WebhookAssumption
<1>1. PICK i \in 0..((QuietEnd - QuietStart) % DayHours) - 1 :
          HourOf(now) = (QuietStart + i) % DayHours
  BY DEF QuietHours
<1>2. CASE QuietStart <= QuietEnd
  <2>1. (QuietEnd - QuietStart) % DayHours = QuietEnd - QuietStart
    BY <1>2, Remainders
  <2>2. QuietStart + i \in 0..DayHours - 1 /\ QuietStart + i < QuietEnd
    BY <1>2, <2>1
  <2>3. HourOf(now) = QuietStart + i
    BY <1>1, <2>2, Remainders
  <2> QED
    BY <1>2, <2>2, <2>3 DEF InQuietHours
<1>3. CASE QuietStart > QuietEnd
  <2> DEFINE len == QuietEnd - QuietStart + DayHours
  <2>1. len \in 0..DayHours - 1 /\ QuietEnd - QuietStart = len - DayHours
    BY <1>3
  <2>2. (QuietEnd - QuietStart) % DayHours = len
    BY <2>1, Remainders
  <2>3. i < len
    BY <2>1, <2>2
  <2>4. CASE QuietStart + i < DayHours
    <3>1. HourOf(now) = QuietStart + i
      BY <1>1, <2>1, <2>3, <2>4, Remainders
    <3> QED
      BY <1>3, <3>1 DEF InQuietHours
  <2>5. CASE QuietStart + i >= DayHours
    <3> DEFINE h == QuietStart + i - DayHours
    <3>1. h \in 0..DayHours - 1 /\ h < QuietEnd /\ QuietStart + i = h + DayHours
      BY <2>3, <2>5
    <3>2. HourOf(now) = h
      BY <1>1, <3>1, Remainders
    <3> QED
      BY <1>3, <3>1, <3>2 DEF InQuietHours
  <2> QED
    BY <2>1, <2>4, <2>5
<1> QED
  BY <1>2, <1>3

-----------------------------------------------------------------------------
(* Steps that leave alone what the properties speak of.                    *)

\* What handlers have done is as it was, and routers remember as much of it.
Keeps ==
    /\ now' \in {now, now + 1}
    /\ \A r \in Requests :
          /\ req'[r].routedAt = req[r].routedAt /\ req'[r].sentAt = req[r].sentAt
          /\ Routed(r) => req'[r].via = req[r].via /\ req'[r].post = req[r].post
    /\ Len(routers) <= Len(routers')
    /\ \A i \in 1..Len(routers) : routers'[i] = routers[i]
    /\ \A i \in 1..Len(routers'), c \in Entities :
          i > Len(routers) => routers'[i].counts[c] = [day |-> 0, sent |-> 0]

\* Requests are finitely many.
LEMMA RequestsFinite ==
    ASSUME WebhookAssumption
    PROVE  /\ Requests \subseteq Nat
           /\ \A S \in SUBSET Requests : IsFiniteSet(S) /\ Cardinality(S) \in Nat
<1>1. IsFiniteSet(Requests)
  BY FS_Interval DEF Requests, WebhookAssumption
<1>2. ASSUME NEW S \in SUBSET Requests PROVE IsFiniteSet(S) /\ Cardinality(S) \in Nat
  BY <1>1, FS_Subset, FS_CardinalityType
<1> QED
  BY <1>2 DEF Requests, WebhookAssumption

LEMMA TypesOf ==
    ASSUME WebhookTypeOK
    PROVE  /\ now \in Nat /\ Len(routers) \in Nat /\ 0 \in 0..Len(routers)
           /\ \A i \in 1..Len(routers) : routers[i] \in RouterRecords
           /\ \A r \in Requests : /\ req[r] \in RequestRecords
                                  /\ req[r].via \in 0..Len(routers)
BY DEF WebhookTypeOK

LEMMA KeepsPast ==
    ASSUME WebhookAssumption, HookInv, Keeps
    PROVE  /\ FreshMarks' /\ DuplicatesDropped' /\ SignedOnly' /\ OutsideQuietHours'
<1>1. /\ now \in Nat /\ Len(routers) \in Nat
      /\ \A r \in Requests : /\ req[r] \in RequestRecords
                             /\ req[r].via \in 0..Len(routers)
                             /\ Routed(r) => req[r].via \in 1..Len(routers)
  BY TypesOf DEF HookInv, Placed
<1>2. \A r \in Requests : /\ Routed(r)' <=> Routed(r)
                          /\ Routed(r) => routers'[req'[r].via] = routers[req[r].via]
  BY <1>1 DEF Keeps, Routed
<1>3. FreshMarks'
  BY <1>1, <1>2 DEF HookInv, FreshMarks, Keeps, RequestRecords, Never, WebhookAssumption, Routed
<1>4. DuplicatesDropped'
  BY <1>1, <1>2 DEF HookInv, DuplicatesDropped, Keeps
<1>5. SignedOnly'
  BY <1>1, <1>2 DEF HookInv, SignedOnly, Keeps
<1>6. OutsideQuietHours'
  BY DEF HookInv, OutsideQuietHours, Keeps, HourOf, QuietHours
<1> QED
  BY <1>3, <1>4, <1>5, <1>6

LEMMA KeepsCounts ==
    ASSUME WebhookAssumption, HookInv, Keeps
    PROVE  Counted'
<1>1. /\ now \in Nat /\ now' \in {now, now + 1} /\ Len(routers) \in Nat
      /\ \A r \in Requests : req[r].sentAt # Never => req[r].via \in 1..Len(routers)
  BY TypesOf DEF HookInv, Placed, Keeps
<1>2. DayOf(now) \in Nat /\ DayOf(now') \in Nat /\ DayOf(now) <= DayOf(now')
  BY <1>1, Days
<1>3. ASSUME NEW i, NEW c, NEW d
      PROVE  SentOn(req', i, c, d) = SentOn(req, i, c, d)
  BY DEF HookInv, Keeps, Placed, SentOn
<1>4. ASSUME NEW i \in 1..Len(routers'), NEW c \in Entities, i <= Len(routers)
      PROVE  CountOK(routers'[i].counts[c], req', i, c, DayOf(now'))
  <2>1. i \in 1..Len(routers) /\ routers'[i] = routers[i]
    BY <1>1, <1>4 DEF Keeps
  <2>2. routers[i].counts[c].day \in Nat
    BY <2>1, TypesOf DEF RouterRecords, HookInv
  <2>3. CountOK(routers[i].counts[c], req, i, c, DayOf(now))
    BY <2>1 DEF HookInv, Counted
  <2> QED
    BY <1>2, <1>3, <2>1, <2>2, <2>3 DEF CountOK
<1>5. ASSUME NEW i \in 1..Len(routers'), NEW c \in Entities, i > Len(routers)
      PROVE  CountOK(routers'[i].counts[c], req', i, c, DayOf(now'))
  <2>1. routers'[i].counts[c] = [day |-> 0, sent |-> 0]
    BY <1>5 DEF Keeps
  <2>2. \A d : SentOn(req', i, c, d) = {}
    <3>1. \A d : SentOn(req, i, c, d) = {}
      BY <1>1, <1>5 DEF SentOn
    <3> QED
      BY <1>3, <3>1
  <2>3. Cardinality({}) = 0
    BY FS_EmptySet
  <2>4. ASSUME NEW n, n.day = 0, n.sent = 0 PROVE CountOK(n, req', i, c, DayOf(now'))
    <3>1. \A d : Cardinality(SentOn(req', i, c, d)) = 0
      BY <2>2, <2>3
    <3>2. \A d : Cardinality(SentOn(req', i, c, d)) <= MaxDaily
      BY <3>1 DEF WebhookAssumption
    <3>3. n.day <= DayOf(now')
      BY <1>2, <2>4
    <3> QED
      BY <2>2, <2>4, <3>1, <3>2, <3>3 DEF CountOK
  <2> QED
    BY <2>1, <2>4
<1> QED
  BY <1>1, <1>4, <1>5 DEF Counted

-----------------------------------------------------------------------------
(* The steps.                                                              *)

\* Only request r changes, to k.
Becomes(r, k) == req' = [req EXCEPT ![r] = k]

\* Steps that touch requests at most keep the types and the places, if the
\* request they change stays where it can be.
LEMMA Goes ==
    ASSUME WebhookAssumption, HookInv, NEW r \in Requests, NEW k \in RequestRecords,
           Becomes(r, k), UNCHANGED <<now, routers, current, validators>>,
           k.via \in 0..Len(routers),
           k.routedAt = req[r].routedAt, k.sentAt = req[r].sentAt,
           Routed(r) => k.via = req[r].via /\ k.post = req[r].post,
           k.stage \in {"off", "body"} => k.routedAt = Never,
           k.stage \in {"off", "body", "store", "lookup"} => k.sentAt = Never,
           k.stage \in {"store", "lookup", "send", "pipeline"} => Routed(r)
    PROVE  HookInv'
<1>1. WebhookTypeOK'
  BY DEF HookInv, WebhookTypeOK, Becomes
<1>2. req'[r] = k /\ \A q \in Requests \ {r} : req'[q] = req[q]
  BY DEF HookInv, WebhookTypeOK, Becomes
<1>3. Placed'
  BY <1>2 DEF HookInv, Placed, Routed
<1>4. Keeps
  BY <1>2, TypesOf DEF HookInv, Keeps
<1> QED
  BY <1>1, <1>3, <1>4, KeepsPast, KeepsCounts DEF HookInv

\* A request that has routed nothing is answered, or begins.
LEMMA IdleTyped ==
    ASSUME WebhookAssumption
    PROVE  /\ \A p \in Posts : [Idle EXCEPT !.stage = "body", !.post = p] \in RequestRecords
           /\ Idle \in RequestRecords /\ Refused \in RequestRecords
           /\ Acknowledged \in RequestRecords
BY DEF WebhookAssumption, Idle, Refused, Acknowledged, RequestRecords, Stages

LEMMA UnroutedGoes ==
    ASSUME WebhookAssumption, HookInv, NEW r \in Requests, req[r].stage \in {"off", "body"},
           NEW k \in {Refused, Acknowledged}
                    \cup {[Idle EXCEPT !.stage = "body", !.post = p] : p \in Posts},
           Becomes(r, k), UNCHANGED <<now, routers, current, validators>>
    PROVE  HookInv'
<1>1. /\ k \in RequestRecords /\ k.via = 0 /\ k.routedAt = Never /\ k.sentAt = Never
      /\ k.stage \in {"refused", "answered", "body"}
  BY IdleTyped DEF Idle, Refused, Acknowledged
<1>2. req[r].routedAt = Never /\ req[r].sentAt = Never /\ ~Routed(r)
  BY DEF HookInv, Placed, Routed
<1>3. 0 \in 0..Len(routers)
  BY Zenon, TypesOf DEF HookInv
<1> QED
  BY <1>1, <1>2, <1>3, Goes

\* A routed request moves on.
LEMMA StageGoes ==
    ASSUME WebhookAssumption, HookInv, NEW r \in Requests, NEW s \in {"lookup", "answered"},
           Routed(r), s = "lookup" => req[r].sentAt = Never,
           req' = [req EXCEPT ![r].stage = s], UNCHANGED <<now, routers, current, validators>>
    PROVE  HookInv'
<1> DEFINE k == [req[r] EXCEPT !.stage = s]
<1>1. req[r] \in RequestRecords /\ req[r].via \in 0..Len(routers)
  BY TypesOf DEF HookInv
<1>2. /\ k \in RequestRecords /\ k.stage = s
      /\ k.via = req[r].via /\ k.post = req[r].post
      /\ k.routedAt = req[r].routedAt /\ k.sentAt = req[r].sentAt
  BY <1>1 DEF RequestRecords, Stages
<1>3. Becomes(r, k)
  BY DEF Becomes
<1> HIDE DEF k
<1> QED
  BY <1>1, <1>2, <1>3, Goes

\* A router that is changed in one place is a router, and the others are as before.
LEMMA RouterChanged ==
    ASSUME WebhookTypeOK, NEW i \in 1..Len(routers), NEW x \in RouterRecords,
           routers' = [routers EXCEPT ![i] = x]
    PROVE  /\ routers' \in Seq(RouterRecords) /\ Len(routers') = Len(routers)
           /\ routers'[i] = x
           /\ \A j \in 1..Len(routers) \ {i} : routers'[j] = routers[j]
BY DEF WebhookTypeOK

\* What is seen after an event: its mark is there, and so is every young one.
LEMMA MarkedProps ==
    ASSUME now \in Nat, NEW seen \in SUBSET Marks, NEW k \in Keys,
           \A m \in seen : m.key = k => ~Young(m)
    PROVE  /\ Marked(seen, k) \in SUBSET Marks
           /\ [key |-> k, at |-> now] \in Marked(seen, k)
           /\ \A m \in seen : Young(m) => m \in Marked(seen, k)
BY DEF Marked, Marks

\* Letting an event through.
LEMMA RouteKeeps ==
    ASSUME WebhookAssumption, HookInv, NEW r \in Requests, RouteEvent(r)
    PROVE  HookInv'
<1> DEFINE p == req[r].post
           k == Key(r, p)
           x == [routers[current] EXCEPT !.seen = Marked(@, k)]
<1>1. /\ req[r].stage = "body" /\ Accepted(p) /\ ~Duplicate(k)
      /\ UNCHANGED <<now, current, validators>>
      /\ routers' = [routers EXCEPT ![current] = x]
  BY DEF RouteEvent
<1>2. PICK s \in {"answered", "pipeline", "store"} :
          req' = [req EXCEPT ![r].routedAt = now, ![r].via = current, ![r].stage = s]
  BY DEF RouteEvent
<1>3. /\ now \in Nat /\ current \in 1..Len(routers) /\ routers[current] \in RouterRecords
      /\ p \in Posts /\ k \in Keys
      /\ \A q \in Requests : req[q] \in RequestRecords
      /\ \A q \in Requests : Routed(q) => req[q].via \in 1..Len(routers)
  BY <1>1, TypesOf DEF HookInv, Placed, WebhookTypeOK, Accepted, RequestRecords, Keys
<1>4. /\ req'[r].routedAt = now /\ req'[r].via = current /\ req'[r].stage = s
      /\ req'[r].post = p /\ req'[r].sentAt = req[r].sentAt
      /\ \A q \in Requests \ {r} : req'[q] = req[q]
  BY <1>2, <1>3 DEF HookInv, WebhookTypeOK, RequestRecords
<1>5. /\ Marked(routers[current].seen, k) \in SUBSET Marks
      /\ [key |-> k, at |-> now] \in Marked(routers[current].seen, k)
      /\ \A m \in routers[current].seen :
             Young(m) => m \in Marked(routers[current].seen, k)
  BY <1>1, <1>3, MarkedProps DEF RouterRecords, Duplicate
<1>6. /\ x \in RouterRecords /\ x.hat = routers[current].hat
      /\ x.counts = routers[current].counts
      /\ x.seen = Marked(routers[current].seen, k)
  BY <1>3, <1>5 DEF RouterRecords
<1> HIDE DEF x, k, p
<1>7. /\ routers' \in Seq(RouterRecords) /\ Len(routers') = Len(routers)
      /\ routers'[current] = x
      /\ \A j \in 1..Len(routers) \ {current} : routers'[j] = routers[j]
  BY <1>1, <1>3, <1>6, RouterChanged DEF HookInv
<1>8. WebhookTypeOK'
  BY <1>1, <1>2, <1>3, <1>7 DEF HookInv, WebhookTypeOK, RequestRecords, Stages
<1>9. Placed'
  BY <1>1, <1>3, <1>4 DEF HookInv, Placed, Routed, Never
<1>10. FreshMarks'
  <2> SUFFICES ASSUME NEW q \in Requests, Routed(q)', now' - req'[q].routedAt < Window
               PROVE  \E m \in routers'[req'[q].via].seen :
                          m.key = Key(q, req'[q].post) /\ m.at >= req'[q].routedAt
    BY DEF FreshMarks
  <2>1. CASE q = r
    BY <2>1, <1>3, <1>4, <1>5, <1>6, <1>7 DEF k
  <2>2. CASE q # r
    <3>1. req'[q] = req[q] /\ Routed(q)
      BY <2>2, <1>4 DEF Routed
    <3>2. PICK m \in routers[req[q].via].seen :
              m.key = Key(q, req[q].post) /\ m.at >= req[q].routedAt
      BY <1>1, <3>1 DEF HookInv, FreshMarks
    <3>3. CASE req[q].via # current
      BY <1>3, <1>7, <3>1, <3>2, <3>3
    <3>4. CASE req[q].via = current
      <4>1. m.at \in Nat /\ req[q].routedAt \in Nat
        BY <1>3, <3>1, <3>2, <3>4 DEF RouterRecords, Marks, RequestRecords, Routed
      <4>2. Young(m)
        BY <1>1, <1>3, <3>1, <3>2, <4>1 DEF Young, WebhookAssumption
      <4> QED
        BY <1>5, <1>6, <1>7, <3>1, <3>2, <3>4, <4>2
    <3> QED
      BY <3>3, <3>4
  <2> QED
    BY <2>1, <2>2
<1>11. DuplicatesDropped'
  <2>1. ASSUME NEW q \in Requests \ {r}, Routed(q), req[q].via = current,
               Key(q, req[q].post) = k
        PROVE  now - req[q].routedAt >= Window
    <3>1. SUFFICES ASSUME now - req[q].routedAt < Window PROVE FALSE
      BY <1>3, <2>1 DEF RequestRecords, Routed, WebhookAssumption
    <3>2. PICK m \in routers[current].seen : m.key = k /\ m.at >= req[q].routedAt
      BY <2>1, <3>1 DEF HookInv, FreshMarks
    <3>3. m.at \in Nat /\ req[q].routedAt \in Nat
      BY <1>3, <2>1, <3>2 DEF RouterRecords, Marks, RequestRecords, Routed
    <3>4. Young(m)
      BY <1>3, <3>1, <3>2, <3>3 DEF Young, WebhookAssumption
    <3> QED
      BY <1>1, <3>2, <3>4 DEF Duplicate
  <2>2. \A q \in Requests \ {r} : Routed(q)' <=> Routed(q)
    BY <1>4 DEF Routed
  <2> QED
    BY <1>4, <2>1, <2>2 DEF HookInv, DuplicatesDropped, k
<1>12. SignedOnly'
  <2>1. routers[current].hat \in SecretHats => p.signed
    BY <1>1, <1>3 DEF Accepted, BadSignature, Hears, HookInv, WebhookTypeOK, WebhookAssumption
  <2>2. \A q \in Requests \ {r} : Routed(q)' <=> Routed(q)
    BY <1>4 DEF Routed
  <2>3. \A j \in 1..Len(routers) : routers'[j].hat = routers[j].hat
    BY <1>3, <1>6, <1>7
  <2> SUFFICES ASSUME NEW q \in Requests, Routed(q)', routers'[req'[q].via].hat \in SecretHats
               PROVE  req'[q].post.signed
    BY DEF SignedOnly
  <2>4. CASE q = r
    BY <1>4, <1>6, <1>7, <2>1, <2>4
  <2>5. CASE q # r
    <3>1. /\ Routed(q) /\ req'[q] = req[q] /\ req[q].via \in 1..Len(routers)
      BY <1>3, <1>4, <2>2, <2>5
    <3>2. routers[req[q].via].hat \in SecretHats
      BY <2>3, <3>1
    <3> QED
      BY <3>1, <3>2 DEF HookInv, SignedOnly
  <2> QED
    BY <2>4, <2>5
<1>13. OutsideQuietHours'
  BY <1>4 DEF HookInv, OutsideQuietHours, HourOf, QuietHours
<1>14. Counted'
  <2>1. \A i, c, d : SentOn(req', i, c, d) = SentOn(req, i, c, d)
    <3>1. req[r].sentAt = Never
      BY <1>1 DEF HookInv, Placed
    <3> QED
      BY <1>4, <3>1 DEF SentOn
  <2>2. \A j \in 1..Len(routers) : routers'[j].counts = routers[j].counts
    BY <1>3, <1>6, <1>7
  <2> QED
    BY <1>1, <1>7, <2>1, <2>2 DEF HookInv, Counted, CountOK
<1> QED
  BY <1>8, <1>9, <1>10, <1>11, <1>12, <1>13, <1>14 DEF HookInv

\* A router that counts something else of one entity.
LEMMA CountReplaced ==
    ASSUME NEW y \in RouterRecords, NEW c \in Entities, NEW n \in [day : Nat, sent : Nat]
    PROVE  LET x == [y EXCEPT !.counts[c] = n]
           IN  /\ x \in RouterRecords /\ x.hat = y.hat /\ x.seen = y.seen
               /\ x.counts[c] = n
               /\ \A e \in Entities \ {c} : x.counts[e] = y.counts[e]
<1> DEFINE counts == [y.counts EXCEPT ![c] = n]
<1>1. /\ counts \in [Entities -> [day : Nat, sent : Nat]]
      /\ counts[c] = n /\ \A e \in Entities \ {c} : counts[e] = y.counts[e]
  BY DEF RouterRecords
<1>2. [y EXCEPT !.counts[c] = n] = [y EXCEPT !.counts = counts]
  BY DEF RouterRecords
<1> HIDE DEF counts
<1> QED
  BY <1>1, <1>2 DEF RouterRecords

\* What Count reads is what was sent about the entity today.
LEMMA CountOfToday ==
    ASSUME WebhookAssumption, HookInv, NEW i \in 1..Len(routers), NEW c \in Entities
    PROVE  /\ DayOf(now) \in Nat /\ Count(i, c) \in Nat
           /\ Cardinality(SentOn(req, i, c, DayOf(now))) = Count(i, c)
           /\ routers[i].counts[c].day \in Nat
<1> DEFINE n == routers[i].counts[c]
<1>1. n.day \in Nat /\ n.sent \in Nat
  BY TypesOf DEF HookInv, RouterRecords
<1>2. DayOf(now) \in Nat
  BY Days, TypesOf DEF HookInv
<1>3. CountOK(n, req, i, c, DayOf(now))
  BY DEF HookInv, Counted
<1> HIDE DEF n
<1>4. CASE n.day = DayOf(now)
  BY <1>1, <1>2, <1>3, <1>4 DEF CountOK, Count, n
<1>5. CASE n.day # DayOf(now)
  <2>1. SentOn(req, i, c, DayOf(now)) = {}
    BY <1>1, <1>2, <1>3, <1>5 DEF CountOK
  <2>2. Count(i, c) = 0
    BY <1>5 DEF Count, n
  <2> QED
    BY <1>1, <1>2, <2>1, <2>2, FS_EmptySet DEF n
<1> QED
  BY <1>4, <1>5

\* Letting a notification through.
LEMMA NotifyKeeps ==
    ASSUME WebhookAssumption, HookInv, NEW r \in Requests, Notify(r)
    PROVE  HookInv'
<1> DEFINE i == req[r].via
           c == req[r].post.entity
           today == DayOf(now)
           n == [day |-> today, sent |-> Count(i, c) + 1]
           x == [routers[i] EXCEPT !.counts[c] = n]
<1>1. /\ req[r].stage = "lookup" /\ Allowed(i, c)
      /\ UNCHANGED <<now, current, validators>>
      /\ routers' = [routers EXCEPT ![i] = x]
      /\ req' = [req EXCEPT ![r].stage = "send", ![r].sentAt = now]
  BY DEF Notify
<1>2. /\ Routed(r) /\ req[r].sentAt = Never
      /\ \A q \in Requests : Routed(q) => req[q].via \in 1..Len(routers)
  BY <1>1, TypesOf DEF HookInv, Placed
<1>3. /\ now \in Nat /\ i \in 1..Len(routers) /\ routers[i] \in RouterRecords
      /\ c \in Entities
      /\ \A q \in Requests : req[q] \in RequestRecords
  BY <1>2, TypesOf DEF HookInv, RequestRecords, Entities
<1>4. /\ req'[r].sentAt = now /\ req'[r].via = i /\ req'[r].stage = "send"
      /\ req'[r].post = req[r].post /\ req'[r].routedAt = req[r].routedAt
      /\ \A q \in Requests \ {r} : req'[q] = req[q]
  BY <1>1, <1>3 DEF HookInv, WebhookTypeOK, RequestRecords
<1>5. /\ today \in Nat /\ Count(i, c) \in Nat
      /\ Cardinality(SentOn(req, i, c, today)) = Count(i, c)
      /\ routers[i].counts[c].day \in Nat
  BY <1>3, CountOfToday
<1>6. /\ x \in RouterRecords /\ x.hat = routers[i].hat /\ x.seen = routers[i].seen
      /\ x.counts[c] = n
      /\ \A e \in Entities \ {c} : x.counts[e] = routers[i].counts[e]
  <2>1. n \in [day : Nat, sent : Nat]
    BY <1>5
  <2> HIDE DEF i, c, n
  <2> QED
    BY <1>3, <2>1, CountReplaced
<1>7. Count(i, c) < MaxDaily /\ ~InQuietHours
  BY <1>1 DEF Allowed
<1> HIDE DEF i, c, today, n, x
<1>8. /\ routers' \in Seq(RouterRecords) /\ Len(routers') = Len(routers)
      /\ routers'[i] = x
      /\ \A j \in 1..Len(routers) \ {i} : routers'[j] = routers[j]
  BY <1>1, <1>3, <1>6, RouterChanged DEF HookInv
<1>9. /\ \A q \in Requests : /\ Routed(q)' <=> Routed(q)
                             /\ req'[q].via = req[q].via /\ req'[q].post = req[q].post
                             /\ req'[q].routedAt = req[q].routedAt
      /\ \A j \in 1..Len(routers) : /\ routers'[j].hat = routers[j].hat
                                    /\ routers'[j].seen = routers[j].seen
  BY <1>3, <1>4, <1>6, <1>8 DEF Routed, i
<1>10. WebhookTypeOK'
  <2>1. req' \in [Requests -> RequestRecords]
    BY <1>1, <1>3 DEF HookInv, WebhookTypeOK, RequestRecords, Stages
  <2> QED
    BY <1>1, <1>8, <1>9, <2>1 DEF HookInv, WebhookTypeOK
<1>11. Placed'
  <2>1. Placed
    BY DEF HookInv
  <2>2. ASSUME NEW q \in Requests \ {r}
        PROVE  /\ req'[q] = req[q] /\ now' = now
               /\ req[q].stage \in {"off", "body"} => req[q].routedAt = Never
               /\ req[q].stage \in {"off", "body", "store", "lookup"} => req[q].sentAt = Never
               /\ req[q].stage \in {"store", "lookup", "send", "pipeline"} => Routed(q)
               /\ req[q].sentAt # Never => Routed(q)
               /\ Routed(q) => req[q].via # 0 /\ req[q].routedAt <= now
    BY <1>1, <1>4, <2>1 DEF Placed
  <2>3. Routed(r)' /\ req'[r].via # 0 /\ req'[r].routedAt <= now' /\ req'[r].stage = "send"
    BY <1>1, <1>2, <1>4, <1>9, <2>1 DEF Placed, i
  <2> QED
    BY <1>9, <2>2, <2>3 DEF Placed, Routed
<1>12. FreshMarks'
  <2> SUFFICES ASSUME NEW q \in Requests, Routed(q)', now' - req'[q].routedAt < Window
               PROVE  \E m \in routers'[req'[q].via].seen :
                          m.key = Key(q, req'[q].post) /\ m.at >= req'[q].routedAt
    BY DEF FreshMarks
  <2>1. \E m \in routers[req[q].via].seen :
            m.key = Key(q, req[q].post) /\ m.at >= req[q].routedAt
    BY <1>1, <1>9 DEF HookInv, FreshMarks
  <2>2. routers'[req'[q].via].seen = routers[req[q].via].seen
    BY <1>2, <1>9
  <2> QED
    BY <1>9, <2>1, <2>2
<1>13. DuplicatesDropped'
  BY <1>9 DEF HookInv, DuplicatesDropped
<1>14. SignedOnly'
  BY <1>2, <1>9 DEF HookInv, SignedOnly
<1>15. OutsideQuietHours'
  BY <1>3, <1>4, <1>7, GateKeepsQuietHours
     DEF HookInv, OutsideQuietHours, HourOf, QuietHours
<1>16. Counted'
  <2>1. ASSUME NEW j, NEW e, NEW d, <<j, e, d>> # <<i, c, today>>
        PROVE  SentOn(req', j, e, d) = SentOn(req, j, e, d)
    BY <1>2, <1>4, <2>1 DEF SentOn, i, c, today
  <2>2. SentOn(req', i, c, today) = SentOn(req, i, c, today) \cup {r}
    BY <1>3, <1>4, <1>9 DEF SentOn, c, i, today, Never
  <2>3. r \notin SentOn(req, i, c, today)
    BY <1>2 DEF SentOn
  <2>4. Cardinality(SentOn(req', i, c, today)) = Count(i, c) + 1
    <3>1. IsFiniteSet(SentOn(req, i, c, today))
      BY RequestsFinite DEF SentOn
    <3> QED
      BY <1>5, <2>2, <2>3, <3>1, FS_AddElement
  <2>5. ASSUME NEW j \in 1..Len(routers), NEW e \in Entities
        PROVE  CountOK(routers'[j].counts[e], req', j, e, today)
    <3>1. CountOK(routers[j].counts[e], req, j, e, today)
      BY DEF HookInv, Counted, today
    <3>2. CASE j = i /\ e = c
      <4>1. routers'[j].counts[e] = n /\ n.day = today /\ n.sent = Count(i, c) + 1
        BY <1>6, <1>8, <3>2 DEF n
      <4>2. ASSUME NEW d \in Nat, d > today PROVE SentOn(req', j, e, d) = {}
        <5>1. SentOn(req', j, e, d) = SentOn(req, j, e, d)
          BY <1>5, <2>1, <4>2
        <5>2. d > routers[j].counts[e].day
          BY <1>5, <3>1, <3>2, <4>2 DEF CountOK
        <5> QED
          BY <3>1, <5>1, <5>2 DEF CountOK
      <4>3. ASSUME NEW d \in Nat PROVE Cardinality(SentOn(req', j, e, d)) <= MaxDaily
        <5>1. CASE d = today
          BY <1>5, <1>7, <2>4, <3>2, <5>1 DEF WebhookAssumption
        <5>2. CASE d # today
          BY <2>1, <3>1, <5>2 DEF CountOK
        <5> QED
          BY <5>1, <5>2
      <4> QED
        BY <1>5, <2>4, <3>2, <4>1, <4>2, <4>3 DEF CountOK
    <3>3. CASE ~(j = i /\ e = c)
      <4>1. routers'[j].counts[e] = routers[j].counts[e]
        BY <1>6, <1>8, <3>3
      <4>2. \A d : SentOn(req', j, e, d) = SentOn(req, j, e, d)
        BY <2>1, <3>3
      <4> QED
        BY <3>1, <4>1, <4>2 DEF CountOK
    <3> QED
      BY <3>2, <3>3
  <2> QED
    BY <1>1, <1>8, <2>5 DEF Counted, today
<1> QED
  BY <1>10, <1>11, <1>12, <1>13, <1>14, <1>15, <1>16 DEF HookInv

\* Equipping and unequipping a hat, and time passing: what handlers have done and
\* what their routers remember of it stays.
LEMMA ConfigureKeeps ==
    ASSUME WebhookAssumption, HookInv, NEW h \in Hats, Configure(h)
    PROVE  HookInv'
<1>1. Router(h) \in RouterRecords
  BY DEF Router, RouterRecords
<1>2. /\ UNCHANGED <<now, req>> /\ Len(routers') = Len(routers) + 1
      /\ Len(routers) \in Nat /\ now \in Nat
      /\ \A i \in 1..Len(routers) : routers'[i] = routers[i]
      /\ routers'[Len(routers) + 1] = Router(h)
      /\ routers' \in Seq(RouterRecords)
  BY <1>1 DEF Configure, HookInv, WebhookTypeOK
<1>3. WebhookTypeOK'
  BY <1>2 DEF Configure, HookInv, WebhookTypeOK
<1>4. Placed'
  BY <1>2 DEF HookInv, Placed, Routed
<1>5. Keeps
  <2>1. \A c \in Entities : Router(h).counts[c] = [day |-> 0, sent |-> 0]
    BY DEF Router
  <2>2. \A i \in 1..Len(routers') : i > Len(routers) => routers'[i] = Router(h)
    BY <1>2
  <2> QED
    BY <1>2, <2>1, <2>2 DEF Keeps
<1> QED
  BY <1>3, <1>4, <1>5, KeepsPast, KeepsCounts DEF HookInv

LEMMA TeardownKeeps ==
    ASSUME WebhookAssumption, HookInv, Teardown
    PROVE  HookInv'
<1>1. WebhookTypeOK' /\ Placed'
  BY DEF Teardown, HookInv, WebhookTypeOK, Placed, Routed
<1>2. Keeps
  BY TypesOf DEF Teardown, HookInv, Keeps
<1> QED
  BY <1>1, <1>2, KeepsPast, KeepsCounts DEF HookInv

LEMMA TickKeeps ==
    ASSUME WebhookAssumption, HookInv, Tick
    PROVE  HookInv'
<1>1. WebhookTypeOK'
  BY DEF Tick, HookInv, WebhookTypeOK
<1>2. Placed'
  BY TypesOf DEF Tick, HookInv, Placed, Routed, RequestRecords, Never
<1>3. Keeps
  BY TypesOf DEF Tick, HookInv, Keeps
<1> QED
  BY <1>1, <1>2, <1>3, KeepsPast, KeepsCounts DEF HookInv

\* A request arrives.
LEMMA ReceiveKeeps ==
    ASSUME WebhookAssumption, HookInv, NEW r \in Requests, NEW p \in Posts, Receive(r, p)
    PROVE  HookInv'
<1> DEFINE k == IF Hears(current, p.source) THEN [Idle EXCEPT !.stage = "body", !.post = p]
                ELSE Refused
<1>1. req[r].stage = "off" /\ Becomes(r, k) /\ UNCHANGED <<now, routers, current, validators>>
  BY DEF Receive, Becomes
<1>2. k \in {Refused, Acknowledged}
              \cup {[Idle EXCEPT !.stage = "body", !.post = q] : q \in Posts}
  BY Zenon
<1> HIDE DEF k
<1> QED
  BY <1>1, <1>2, UnroutedGoes, Zenon

\* The handler of a request goes on.
LEMMA ProceedsKeeps ==
    ASSUME WebhookAssumption, HookInv, NEW r \in Requests, Proceeds(r)
    PROVE  HookInv'
<1>1. CASE Refuse(r)
  BY <1>1, UnroutedGoes, Zenon DEF Refuse, Becomes
<1>2. CASE DropDuplicate(r)
  BY <1>2, UnroutedGoes, Zenon DEF DropDuplicate, Becomes
<1>3. CASE RouteEvent(r)
  BY <1>3, RouteKeeps
<1>4. CASE StoreReturns(r)
  <2>1. Routed(r) /\ req[r].sentAt = Never
    BY <1>4 DEF StoreReturns, HookInv, Placed
  <2> QED
    BY <1>4, <2>1, StageGoes DEF StoreReturns, Answer
<1>5. CASE Notify(r)
  BY <1>5, NotifyKeeps
<1>6. CASE Blocked(r)
  <2>1. Routed(r)
    BY <1>6 DEF Blocked, HookInv, Placed
  <2> QED
    BY <1>6, <2>1, StageGoes DEF Blocked, Answer
<1>7. CASE WorkReturns(r)
  <2>1. Routed(r)
    BY <1>7 DEF WorkReturns, HookInv, Placed
  <2> QED
    BY <1>7, <2>1, StageGoes DEF WorkReturns, Answer
<1> QED
  BY <1>1, <1>2, <1>3, <1>4, <1>5, <1>6, <1>7 DEF Proceeds

LEMMA HookInductive ==
    ASSUME WebhookAssumption, HookInv, [WebhookNext]_hookVars
    PROVE  HookInv'
<1>1. CASE \E h \in Hats : Configure(h)
  BY <1>1, ConfigureKeeps
<1>2. CASE Teardown
  BY <1>2, TeardownKeeps
<1>3. CASE Tick
  BY <1>3, TickKeeps
<1>4. CASE \E r \in Requests : (\E p \in Posts : Receive(r, p)) \/ Proceeds(r)
  BY <1>4, ReceiveKeeps, ProceedsKeeps
<1>5. CASE UNCHANGED hookVars
  <2>1. WebhookTypeOK' /\ Placed'
    BY <1>5 DEF hookVars, HookInv, WebhookTypeOK, Placed, Routed
  <2>2. Keeps
    BY <1>5, TypesOf DEF hookVars, HookInv, Keeps
  <2> QED
    BY <2>1, <2>2, KeepsPast, KeepsCounts DEF HookInv
<1> QED
  BY <1>1, <1>2, <1>3, <1>4, <1>5 DEF WebhookNext

LEMMA HookInitInv ==
    ASSUME WebhookAssumption, WebhookInit
    PROVE  HookInv
<1>1. \A r \in Requests : /\ req[r] = Idle /\ req[r].via = 0 /\ req[r].stage = "off"
                          /\ req[r].routedAt = Never /\ req[r].sentAt = Never
  BY DEF WebhookInit, Idle
<1>2. WebhookTypeOK
  <2>1. req \in [Requests -> RequestRecords]
    BY IdleTyped DEF WebhookInit
  <2>2. routers \in Seq(RouterRecords) /\ Len(routers) = 0
    BY DEF WebhookInit
  <2> QED
    BY <1>1, <2>1, <2>2 DEF WebhookInit, WebhookTypeOK
<1>3. Placed /\ FreshMarks /\ OutsideQuietHours /\ DuplicatesDropped /\ SignedOnly
  BY <1>1 DEF Placed, FreshMarks, OutsideQuietHours, DuplicatesDropped, SignedOnly, Routed
<1>4. Counted
  BY DEF WebhookInit, Counted
<1> QED
  BY <1>2, <1>3, <1>4 DEF HookInv

LEMMA HookInvariant == WebhookSpec => []HookInv
<1>1. WebhookInit => HookInv
  BY WebhookAssumption, HookInitInv
<1>2. HookInv /\ [WebhookNext]_hookVars => HookInv'
  BY WebhookAssumption, HookInductive
<1> QED
  BY <1>1, <1>2, PTL DEF WebhookSpec

-----------------------------------------------------------------------------
(* What is promised.                                                       *)

\* Every variable keeps its type, and validators and router are of one hat.
THEOREM WebhooksTyped == WebhookSpec => []WebhookTypeOK
<1>1. HookInv => WebhookTypeOK
  BY DEF HookInv
<1> QED
  BY <1>1, HookInvariant, PTL

\* No router lets an event through twice within a window, however often it is
\* redelivered and whatever the handlers of other requests do.
THEOREM NoEventTwice == WebhookSpec => []DuplicatesDropped
<1>1. HookInv => DuplicatesDropped
  BY DEF HookInv
<1> QED
  BY <1>1, HookInvariant, PTL

\* The gate of a router keeps the daily limit of every entity and the quiet
\* hours, for every limit, interval and number of handlers.
THEOREM LimitsAreKept == WebhookSpec => []NotificationsRespectLimits
<1>1. HookInv => NotificationsRespectLimits
  <2> SUFFICES ASSUME HookInv PROVE WithinDailyLimit
    BY DEF HookInv, OutsideQuietHours, NotificationsRespectLimits
  <2>1. DayOf(now) \in Nat
    BY WebhookAssumption, Days, TypesOf DEF HookInv
  <2>2. \A i \in 1..Len(routers), c \in Entities, d \in Nat :
           Cardinality(SentOn(req, i, c, d)) <= MaxDaily
    BY DEF HookInv, Counted, CountOK
  <2>3. \A i \in 1..Len(routers), c \in Entities, d \in 0..DayOf(now) :
           Cardinality(SentOn(req, i, c, d)) <= MaxDaily
    BY <2>1, <2>2
  <2> QED
    BY <2>3 DEF WithinDailyLimit, SentOn
<1> QED
  BY <1>1, HookInvariant, PTL

\* A hat with a secret processes signed events only, also when it is equipped
\* while the body of a request arrives.
THEOREM OnlySignedEvents == WebhookSpec => []SignedOnly
<1>1. HookInv => SignedOnly
  BY DEF HookInv
<1> QED
  BY <1>1, HookInvariant, PTL
=============================================================================
