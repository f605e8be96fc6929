-------------------------- MODULE Connections_proofs --------------------------
(***************************************************************************)
(* Proofs about Connections, for any number of callers, editors, slugs and *)
(* round trips.                                                            *)
(***************************************************************************)
EXTENDS Connections, SequenceTheorems, FiniteSetTheorems, TLAPS

(***************************************************************************)
(* Sequences of round trips.                                               *)
(***************************************************************************)
Lined(s) == Len(s) \in Nat /\ s = [i \in 1..Len(s) |-> s[i]]

\* Append to a sequence, whatever its elements are.
LEMMA Appended ==
  ASSUME NEW s, Lined(s), NEW x
  PROVE  LET t == Append(s, x)
         IN /\ Lined(t) /\ Len(t) = Len(s) + 1
            /\ DOMAIN t = DOMAIN s \cup {Len(s) + 1} /\ Len(s) + 1 \notin DOMAIN s
            /\ \A i \in DOMAIN s : t[i] = s[i]
            /\ t[Len(s) + 1] = x
<1> DEFINE S == {s[i] : i \in 1..Len(s)} \cup {x}
           t == Append(s, x)
<1>1. s \in [1..Len(s) -> S]
  BY DEF Lined
<1>2. s \in Seq(S)
  BY <1>1, SeqDef DEF Lined
<1>3. x \in S
  OBVIOUS
<1> HIDE DEF S
<1>4. /\ t \in Seq(S)
      /\ Len(t) = Len(s) + 1
      /\ \A i \in 1..Len(s) : t[i] = s[i]
      /\ t[Len(s) + 1] = x
  BY <1>2, <1>3, AppendProperties
<1>5. DOMAIN s = 1..Len(s) /\ DOMAIN t = 1..Len(t) /\ t \in [1..Len(t) -> S] /\ Len(t) \in Nat
  BY <1>2, <1>4, LenProperties
<1> HIDE DEF t
<1>6. t = [i \in 1..Len(t) |-> t[i]]
  BY <1>5
<1>7. Len(s) \in Nat
  BY DEF Lined
<1> QED
  BY <1>4, <1>5, <1>6, <1>7 DEF Lined, t

(***************************************************************************)
(* The inductive invariant.  RoundTripSound by itself does not say what a  *)
(* callback will send: that a state is deleted together with its use makes *)
(* a code new for whoever holds it, and a configuration is only in the     *)
(* cache together with a round trip that was sent off with it.             *)
(***************************************************************************)
TripFields == {"slug", "scope", "url", "used"}

WellFormed ==
  /\ visit = [c \in Callers |-> visit[c]]
  /\ \A c \in Callers : "pc" \in DOMAIN visit[c]
  /\ Lined(trips)
  /\ \A n \in DOMAIN trips : DOMAIN trips[n] = TripFields

\* A round trip for the slug was sent off with this configuration.
Vouched(slug, config) ==
  \E m \in DOMAIN trips : trips[m].slug = slug /\ trips[m].url = config

StatesNew ==
  \A n \in states :
    n \in DOMAIN trips /\ trips[n].used = <<>> /\ trips[n].slug \in DOMAIN configs

ConfigsVouched == \A slug \in DOMAIN configs : Vouched(slug, configs[slug])

Exchanging(c) == visit[c].pc = "exchange"

\* Nobody else has the code that c exchanges, or will have it.
NewCode(c) ==
  LET n == visit[c].trip
  IN /\ n \in DOMAIN trips \ states
     /\ trips[n].used = <<>>
     /\ Vouched(trips[n].slug, visit[c].config)
     /\ \A d \in Callers \ {c} : Exchanging(d) => visit[d].trip # n

CodesNew == \A c \in Callers : Exchanging(c) => NewCode(c)

UsedOnce ==
  \A n \in DOMAIN trips :
    \/ trips[n].used = <<>>
    \/ \E config : trips[n].used = <<config>> /\ Vouched(trips[n].slug, config)

IInv == WellFormed /\ StatesNew /\ ConfigsVouched /\ CodesNew /\ UsedOnce

\* The invariant is stronger than the property.
LEMMA Implied == IInv => RoundTripSound
<1> SUFFICES ASSUME IInv, NEW n \in DOMAIN trips
             PROVE  /\ Len(trips[n].used) <= 1
                    /\ \A i \in DOMAIN trips[n].used :
                         trips[n].used[i] # trips[n].url =>
                           \E m \in DOMAIN trips \ {n} :
                             trips[m].slug = trips[n].slug /\ trips[m].url = trips[n].used[i]
  BY DEF RoundTripSound
<1>1. CASE trips[n].used = <<>>
  BY <1>1
<1>2. CASE \E config : trips[n].used = <<config>> /\ Vouched(trips[n].slug, config)
  <2>1. PICK config : trips[n].used = <<config>> /\ Vouched(trips[n].slug, config)
    BY <1>2
  <2>2. PICK m \in DOMAIN trips : trips[m].slug = trips[n].slug /\ trips[m].url = config
    BY <2>1 DEF Vouched
  <2> QED
    BY <2>1, <2>2
<1> QED
  BY <1>1, <1>2 DEF IInv, UsedOnce

(***************************************************************************)
(* What a step can do to round trips.                                      *)
(***************************************************************************)
\* A step that sends nothing off, takes no state and exchanges no code.
LEMMA QuietStep ==
  ASSUME IInv, trips' = trips, configs' = configs, states' \subseteq states,
         visit' = [c \in Callers |-> visit'[c]],
         \A c \in Callers :
           "pc" \in DOMAIN visit'[c] /\ (Exchanging(c)' => visit'[c] = visit[c])
  PROVE  IInv'
<1>1. WellFormed' /\ StatesNew' /\ ConfigsVouched' /\ UsedOnce'
  BY DEF IInv, WellFormed, StatesNew, ConfigsVouched, UsedOnce, Vouched
<1>2. \A c \in Callers : Exchanging(c)' => Exchanging(c) /\ visit'[c] = visit[c]
  BY DEF Exchanging
<1>3. CodesNew'
  BY <1>2 DEF IInv, CodesNew, NewCode, Vouched
<1> QED
  BY <1>1, <1>3 DEF IInv

\* The same of a step of one request.
LEMMA QuietMove ==
  ASSUME IInv, trips' = trips, configs' = configs, states' \subseteq states,
         NEW c \in Callers, NEW to, "pc" \in DOMAIN to, to.pc # "exchange",
         visit' = [visit EXCEPT ![c] = to]
  PROVE  IInv'
<1>1. visit' = [d \in Callers |-> IF d = c THEN to ELSE visit[d]]
  BY DEF IInv, WellFormed
<1>2. \A d \in Callers :
        "pc" \in DOMAIN visit'[d] /\ (Exchanging(d)' => visit'[d] = visit[d])
  BY <1>1 DEF IInv, WellFormed, Exchanging
<1> QED
  BY <1>1, <1>2, QuietStep

\* A round trip is sent off with the configuration that is in the cache then.
LEMMA IssueStep ==
  ASSUME IInv, NEW slug, NEW scope, NEW config, Issue(slug, scope, config),
         \/ configs' = configs /\ slug \in DOMAIN configs
         \/ configs' = Add(configs, slug, config),
         NEW c \in Callers, visit' = [visit EXCEPT ![c] = Idle]
  PROVE  IInv'
<1> DEFINE n == Len(trips) + 1
           trip == [slug |-> slug, scope |-> scope, url |-> config, used |-> <<>>]
<1>1. /\ Lined(trips')
      /\ DOMAIN trips' = DOMAIN trips \cup {n} /\ n \notin DOMAIN trips
      /\ \A m \in DOMAIN trips : trips'[m] = trips[m]
      /\ trips'[n] = trip
  BY Appended DEF IInv, WellFormed, Issue
<1>2. states' = states \cup {n}
  BY DEF Issue
<1> HIDE DEF n
<1>3. /\ DOMAIN trip = TripFields /\ trip.slug = slug /\ trip.url = config /\ trip.used = <<>>
  BY DEF TripFields
<1> HIDE DEF trip
<1>4. visit' = [d \in Callers |-> IF d = c THEN Idle ELSE visit[d]]
  BY DEF IInv, WellFormed
<1>5. "pc" \in DOMAIN Idle /\ Idle.pc # "exchange"
  BY DEF Idle
<1>6. WellFormed'
  BY <1>1, <1>3, <1>4, <1>5 DEF IInv, WellFormed
<1>7. \A s, f : Vouched(s, f) => Vouched(s, f)'
  BY <1>1 DEF Vouched
<1>8. Vouched(slug, config)'
  BY <1>1, <1>3 DEF Vouched
<1>9. DOMAIN configs \cup {slug} = DOMAIN configs'
  BY DEF Add
<1>10. StatesNew'
  BY <1>1, <1>2, <1>3, <1>9 DEF IInv, StatesNew
<1>11. ConfigsVouched'
  <2> SUFFICES ASSUME NEW s \in DOMAIN configs'
               PROVE  Vouched(s, configs[s])'
    BY DEF ConfigsVouched
  <2>1. CASE configs' = configs
    BY <2>1, <1>7 DEF IInv, ConfigsVouched
  <2>2. CASE configs' = Add(configs, slug, config) /\ s = slug
    BY <2>2, <1>8 DEF Add
  <2>3. CASE configs' = Add(configs, slug, config) /\ s # slug
    <3>1. s \in DOMAIN configs /\ configs'[s] = configs[s]
      BY <2>3 DEF Add
    <3> QED
      BY <3>1, <1>7 DEF IInv, ConfigsVouched
  <2> QED
    BY <2>1, <2>2, <2>3
<1>12. \A d \in Callers : Exchanging(d)' => Exchanging(d) /\ visit'[d] = visit[d]
  BY <1>4, <1>5 DEF Exchanging
<1>13. CodesNew'
  <2> SUFFICES ASSUME NEW d \in Callers, Exchanging(d)'
               PROVE  NewCode(d)'
    BY DEF CodesNew
  <2>1. NewCode(d) /\ visit'[d] = visit[d]
    BY <1>12 DEF IInv, CodesNew
  <2>2. Vouched(trips[visit[d].trip].slug, visit[d].config)'
    BY <2>1, <1>1 DEF NewCode, Vouched
  <2> QED
    BY <2>1, <2>2, <1>1, <1>2, <1>12 DEF NewCode
<1>14. UsedOnce'
  <2> SUFFICES ASSUME NEW m \in DOMAIN trips'
               PROVE  \/ trips'[m].used = <<>>
                      \/ \E f : trips'[m].used = <<f>> /\ Vouched(trips[m].slug, f)'
    BY DEF UsedOnce
  <2>1. CASE m = n
    BY <2>1, <1>1, <1>3
  <2>2. CASE m \in DOMAIN trips
    <3>1. \A f : Vouched(trips[m].slug, f) => Vouched(trips[m].slug, f)'
      BY <2>2, <1>1 DEF Vouched
    <3> QED
      BY <2>2, <3>1, <1>1 DEF IInv, UsedOnce
  <2> QED
    BY <2>1, <2>2, <1>1
<1> QED
  BY <1>6, <1>10, <1>11, <1>13, <1>14 DEF IInv

\* A callback takes its state away, so that its code is nobody else's.
LEMMA CallbackStep ==
  ASSUME IInv, NEW c \in Callers, Callback(c)
  PROVE  IInv'
<1>1. PICK n \in states :
        /\ states' = states \ {n}
        /\ visit' = [visit EXCEPT ![c] =
                       [pc |-> "exchange", trip |-> n, slug |-> trips[n].slug,
                        scope |-> trips[n].scope, config |-> configs[trips[n].slug]]]
        /\ trips' = trips /\ configs' = configs /\ visit[c] = Idle
  BY DEF Callback, Arrives
<1> DEFINE to == [pc |-> "exchange", trip |-> n, slug |-> trips[n].slug,
                  scope |-> trips[n].scope, config |-> configs[trips[n].slug]]
<1>2. /\ "pc" \in DOMAIN to /\ to.trip = n /\ to.config = configs[trips[n].slug]
  OBVIOUS
<1>3. visit' = [d \in Callers |-> IF d = c THEN to ELSE visit[d]]
  BY <1>1 DEF IInv, WellFormed
<1> HIDE DEF to
<1>4. n \in DOMAIN trips /\ trips[n].used = <<>> /\ Vouched(trips[n].slug, configs[trips[n].slug])
  BY <1>1 DEF IInv, StatesNew, ConfigsVouched
<1>5. WellFormed' /\ StatesNew' /\ ConfigsVouched' /\ UsedOnce'
  BY <1>1, <1>2, <1>3 DEF IInv, WellFormed, StatesNew, ConfigsVouched, UsedOnce, Vouched
<1>6. \A d \in Callers \ {c} : Exchanging(d)' => Exchanging(d) /\ visit'[d] = visit[d]
  BY <1>3 DEF Exchanging
<1>7. \A d \in Callers : Exchanging(d) => visit[d].trip # n
  BY <1>1 DEF IInv, CodesNew, NewCode
<1>8. NewCode(c)'
  BY <1>1, <1>2, <1>3, <1>4, <1>6, <1>7 DEF NewCode, Vouched
<1>9. ASSUME NEW d \in Callers \ {c}, Exchanging(d)'
      PROVE  NewCode(d)'
  <2>1. NewCode(d) /\ visit'[d] = visit[d]
    BY <1>6, <1>9 DEF IInv, CodesNew
  <2> QED
    BY <2>1, <1>1, <1>2, <1>3, <1>6, <1>7, <1>9 DEF NewCode, Vouched
<1>10. CodesNew'
  BY <1>8, <1>9 DEF CodesNew
<1> QED
  BY <1>5, <1>10 DEF IInv

\* An exchange uses a new code, and whatever comes of it the request goes on
\* without it.
LEMMA ExchangeStep ==
  ASSUME IInv, NEW c \in Callers, Exchange(c)
  PROVE  IInv'
<1>1. PICK to, n, f :
        /\ "pc" \in DOMAIN to /\ to.pc # "exchange"
        /\ visit' = [visit EXCEPT ![c] = to]
        /\ visit[c].pc = "exchange" /\ visit[c].trip = n /\ visit[c].config = f
        /\ trips' = [trips EXCEPT ![n].used = Append(@, f)]
        /\ states' = states /\ configs' = configs
  <2>1. PICK to : /\ "pc" \in DOMAIN to /\ to.pc # "exchange"
                  /\ Moves(c, "exchange", to)
    BY DEF Exchange, Idle
  <2> QED
    BY <2>1 DEF Exchange, Moves
<1>2. /\ n \in DOMAIN trips \ states /\ trips[n].used = <<>> /\ Vouched(trips[n].slug, f)
      /\ \A d \in Callers \ {c} : Exchanging(d) => visit[d].trip # n
  BY <1>1 DEF IInv, CodesNew, NewCode, Exchanging
<1>3. visit' = [d \in Callers |-> IF d = c THEN to ELSE visit[d]]
  BY <1>1 DEF IInv, WellFormed
<1>4. Append(<<>>, f) = <<f>>
  OBVIOUS
<1>5. DOMAIN trips[n] = TripFields
  BY <1>2 DEF IInv, WellFormed
<1>6. /\ DOMAIN trips' = DOMAIN trips /\ Len(trips') = Len(trips) /\ Lined(trips')
      /\ \A m \in DOMAIN trips \ {n} : trips'[m] = trips[m]
      /\ DOMAIN trips'[n] = DOMAIN trips[n]
      /\ trips'[n].slug = trips[n].slug /\ trips'[n].url = trips[n].url
      /\ trips'[n].used = <<f>>
  <2>1. trips' = [m \in 1..Len(trips) |->
                   IF m = n THEN [trips[n] EXCEPT !.used = <<f>>] ELSE trips[m]]
    BY <1>1, <1>2, <1>4 DEF IInv, WellFormed, Lined
  <2>2. Len(trips) \in Nat /\ DOMAIN trips = 1..Len(trips)
    BY DEF IInv, WellFormed, Lined
  <2>3. Len(trips') = Len(trips)
    <3> DEFINE S == {trips'[m] : m \in 1..Len(trips)}
    <3>1. trips' \in [1..Len(trips) -> S]
      BY <2>1
    <3>2. trips' \in Seq(S)
      BY <3>1, <2>2, SeqDef
    <3> QED
      BY <3>1, <3>2, <2>2, LenProperties
  <2> QED
    BY <2>1, <2>2, <2>3, <1>2, <1>5 DEF Lined, TripFields
<1>7. \A m \in DOMAIN trips : trips'[m].slug = trips[m].slug /\ trips'[m].url = trips[m].url
  BY <1>6
<1>8. WellFormed'
  BY <1>1, <1>3, <1>5, <1>6 DEF IInv, WellFormed
<1>9. StatesNew' /\ ConfigsVouched'
  BY <1>1, <1>2, <1>6, <1>7 DEF IInv, StatesNew, ConfigsVouched, Vouched
<1>10. \A d \in Callers : Exchanging(d)' => d # c /\ Exchanging(d) /\ visit'[d] = visit[d]
  BY <1>1, <1>3 DEF Exchanging
<1>11. CodesNew'
  <2> SUFFICES ASSUME NEW d \in Callers, Exchanging(d)'
               PROVE  NewCode(d)'
    BY DEF CodesNew
  <2>1. NewCode(d) /\ visit'[d] = visit[d] /\ visit[d].trip # n
    BY <1>2, <1>10 DEF IInv, CodesNew
  <2> QED
    BY <2>1, <1>1, <1>6, <1>7, <1>10 DEF NewCode, Vouched
<1>12. UsedOnce'
  <2> SUFFICES ASSUME NEW m \in DOMAIN trips
               PROVE  (\/ trips[m].used = <<>>
                       \/ \E g : trips[m].used = <<g>> /\ Vouched(trips[m].slug, g))'
    BY <1>6 DEF UsedOnce
  <2>1. CASE m = n
    <3>1. Vouched(trips[n].slug, f)'
      BY <1>2, <1>6, <1>7 DEF Vouched
    <3> QED
      BY <2>1, <3>1, <1>6
  <2>2. CASE m # n
    BY <2>2, <1>6, <1>7 DEF IInv, UsedOnce, Vouched
  <2> QED
    BY <2>1, <2>2
<1> QED
  BY <1>8, <1>9, <1>11, <1>12 DEF IInv

(***************************************************************************)
(* Every step keeps the invariant.                                         *)
(***************************************************************************)
\* A request goes on without a word about round trips.
LEMMA MoveStep ==
  ASSUME IInv, NEW c \in Callers, NEW from, NEW to, Moves(c, from, to), trips' = trips,
         "pc" \in DOMAIN to, to.pc # "exchange"
  PROVE  IInv'
BY QuietMove DEF Moves

\* What a request goes on with has the pc that it is given.
LEMMA Going ==
  ASSUME IInv, NEW c \in Callers, NEW pc, NEW id
  PROVE  /\ "pc" \in DOMAIN To(c, pc) /\ To(c, pc).pc = pc
         /\ "pc" \in DOMAIN Found(c, id) /\ Found(c, id).pc = "tokens"
         /\ "pc" \in DOMAIN Idle /\ Idle.pc = "idle"
BY DEF IInv, WellFormed, To, Found, Idle

\* Further fields leave the pc alone.
LEMMA Carrying ==
  ASSUME NEW to, "pc" \in DOMAIN to, NEW key, key # "pc", NEW value
  PROVE  "pc" \in DOMAIN Add(to, key, value) /\ Add(to, key, value).pc = to.pc
BY DEF Add

LEMMA ResolvedMoves ==
  ASSUME NEW v, "pc" \in DOMAIN v, NEW id
  PROVE  "pc" \in DOMAIN Resolved(v, id) /\ Resolved(v, id).pc = "duplicate"
<1> DEFINE w == [v EXCEPT !.pc = "duplicate"]
<1>1. "pc" \in DOMAIN w /\ w.pc = "duplicate"
  OBVIOUS
<1> HIDE DEF w
<1>2. "pc" \in DOMAIN Add(w, "source", id) /\ Add(w, "source", id).pc = "duplicate"
  BY <1>1, Carrying
<1> QED
  BY <1>2, Carrying DEF Resolved, w

LEMMA ProceedStep ==
  ASSUME IInv, NEW c \in Callers, Proceed(c)
  PROVE  IInv'
<1>1. CASE StartFill(c)
  BY <1>1, IssueStep DEF StartFill
<1>2. CASE Exchange(c)
  BY <1>2, ExchangeStep
<1>3. CASE FindBySlug(c)
  BY <1>3, MoveStep, Going DEF FindBySlug, Goes
<1>4. CASE FindSource(c)
  <2>1. PICK id : \/ Goes(c, "source", To(c, "resolve"))
                  \/ Goes(c, "source", Add(To(c, "by id"), "source", id))
    BY <1>4 DEF FindSource
  <2>2. CASE Goes(c, "source", To(c, "resolve"))
    BY <2>2, MoveStep, Going DEF Goes
  <2>3. CASE Goes(c, "source", Add(To(c, "by id"), "source", id))
    <3>1. LET to == Add(To(c, "by id"), "source", id)
          IN "pc" \in DOMAIN to /\ to.pc # "exchange"
      <4>1. LET to == To(c, "by id") IN "pc" \in DOMAIN to /\ to.pc # "exchange"
        BY Going
      <4> QED
        BY <4>1, Carrying
    <3> QED
      BY <2>3, <3>1, MoveStep DEF Goes
  <2> QED
    BY <2>1, <2>2, <2>3
<1>5. CASE FindByDataSource(c)
  BY <1>5, MoveStep, Going DEF FindByDataSource, Goes
<1>6. CASE Resolve(c)
  <2>1. PICK id : Goes(c, "resolve", Resolved(visit[c], id))
    BY <1>6 DEF Resolve
  <2>2. "pc" \in DOMAIN Resolved(visit[c], id) /\ Resolved(visit[c], id).pc = "duplicate"
    BY ResolvedMoves DEF IInv, WellFormed
  <2> QED
    BY <2>1, <2>2, MoveStep DEF Goes
<1>7. CASE CheckDuplicate(c)
  <2>1. LET to == Add(To(c, "insert"), "seen", made)
        IN "pc" \in DOMAIN to /\ to.pc = "insert"
    BY Going, Carrying
  <2> QED
    BY <1>7, <2>1, MoveStep DEF CheckDuplicate, Goes
<1>8. CASE Conflict(c)
  BY <1>8, MoveStep, Going DEF Conflict, Goes
<1>9. CASE InsertConnection(c)
  BY <1>9, MoveStep, Going DEF InsertConnection
<1>10. CASE StoreTokens(c)
  BY <1>10, MoveStep, Going DEF StoreTokens
<1>11. CASE NoSource(c) \/ InvalidScope(c)
  BY <1>11, MoveStep, Going DEF NoSource, InvalidScope, Goes
<1>12. CASE QueryFails(c)
  BY <1>12, QuietMove, Going DEF QueryFails
<1> QED
  BY <1>1, <1>2, <1>3, <1>4, <1>5, <1>6, <1>7, <1>8, <1>9, <1>10, <1>11, <1>12 DEF Proceed

\* A step that leaves the requests, round trips, states and cache alone.
LEMMA AsideStep ==
  ASSUME IInv, visit' = visit, trips' = trips, configs' = configs, states' \subseteq states
  PROVE  IInv'
<1>1. /\ visit' = [c \in Callers |-> visit'[c]]
      /\ \A c \in Callers : "pc" \in DOMAIN visit'[c]
  BY DEF IInv, WellFormed
<1> QED
  BY <1>1, QuietStep

LEMMA Kept == IInv /\ [Next]_vars => IInv'
<1> SUFFICES ASSUME IInv, [Next]_vars PROVE IInv'
  OBVIOUS
<1>1. ASSUME NEW c \in Callers, StartCached(c) PROVE IInv'
  BY <1>1, IssueStep DEF StartCached, Arrives
<1>2. ASSUME NEW c \in Callers, StartRead(c) PROVE IInv'
  <2>1. PICK to : /\ "pc" \in DOMAIN to /\ to.pc = "fill"
                  /\ Arrives(c, to) /\ UNCHANGED <<states, configs, trips>>
    BY <1>2 DEF StartRead
  <2> QED
    BY <2>1, QuietMove DEF Arrives
<1>3. ASSUME NEW c \in Callers, Callback(c) PROVE IInv'
  BY <1>3, CallbackStep
<1>4. ASSUME NEW c \in Callers, CreateResolve(c) PROVE IInv'
  <2>1. PICK body, id :
          /\ Arrives(c, Resolved([pc |-> "create", trip |-> 0, scope |-> body.scope,
                                  user |-> body.user, apiKey |-> body.apiKey], id))
          /\ UNCHANGED <<states, configs, trips>>
    BY <1>4 DEF CreateResolve
  <2> DEFINE v == [pc |-> "create", trip |-> 0, scope |-> body.scope, user |-> body.user,
                   apiKey |-> body.apiKey]
  <2>2. "pc" \in DOMAIN Resolved(v, id) /\ Resolved(v, id).pc = "duplicate"
    BY ResolvedMoves
  <2> QED
    BY <2>1, <2>2, QuietMove DEF Arrives
<1>5. ASSUME NEW c \in Callers, Proceed(c) PROVE IInv'
  BY <1>5, ProceedStep
<1>6. ASSUME NEW n \in states, Expire(n) PROVE IInv'
  BY <1>6, AsideStep DEF Expire
<1>7. ASSUME NEW id \in DOMAIN connections, Update(id) \/ Remove(id) PROVE IInv'
  BY <1>7, AsideStep DEF Update, Remove
<1>8. CASE Restart
  <2>1. /\ visit' = [c \in Callers |-> Idle] /\ states' = {} /\ configs' = <<>>
        /\ trips' = trips
    BY <1>8 DEF Restart
  <2>2. \A c \in Callers : "pc" \in DOMAIN visit'[c] /\ visit'[c].pc = "idle"
    BY <2>1 DEF Idle
  <2> QED
    BY <2>1, <2>2 DEF IInv, WellFormed, StatesNew, ConfigsVouched, CodesNew, Exchanging,
                      UsedOnce, Vouched
<1>9. CASE SourceNext /\ UNCHANGED oauthVars
  BY <1>9, AsideStep DEF oauthVars
<1>10. CASE UNCHANGED vars
  BY <1>10, AsideStep DEF vars, oauthVars
<1> QED
  BY <1>1, <1>2, <1>3, <1>4, <1>5, <1>6, <1>7, <1>8, <1>9, <1>10 DEF Next

LEMMA Begun == Init => IInv
<1> SUFFICES ASSUME Init PROVE IInv
  OBVIOUS
<1>1. /\ visit = [c \in Callers |-> Idle] /\ states = {} /\ configs = <<>> /\ trips = <<>>
  BY DEF Init
<1>2. \A c \in Callers : "pc" \in DOMAIN visit[c] /\ visit[c].pc = "idle"
  BY <1>1 DEF Idle
<1> QED
  BY <1>1, <1>2 DEF IInv, WellFormed, Lined, StatesNew, ConfigsVouched, CodesNew, Exchanging,
                    UsedOnce

\* A code is exchanged at most once, and by the client that it was asked for
\* unless another start has put a configuration of its own into the cache:
\* for any number of callers, round trips, expiries, failures and restarts,
\* and whatever the editors do to the data sources.
THEOREM RoundTripsAreSound == Spec => []RoundTripSound
<1>1. Init => IInv
  BY Begun
<1>2. IInv /\ [Next]_vars => IInv'
  BY Kept
<1>3. IInv => RoundTripSound
  BY Implied
<1> QED
  BY <1>1, <1>2, <1>3, PTL DEF Spec

(***************************************************************************)
(* The rows under the editors, on which connections and requests rest: ids *)
(* are numbered, what is written is a row, and stamp remembers every name. *)
(***************************************************************************)
LEMMA RowMade ==
  ASSUME NEW f, f = [i \in Fields |-> f[i]], \A i \in Fields : f[i] \in TypeOf(i)
  PROVE  f \in Row
BY DEF Row, Fields, TypeOf

LEMMA RowHas ==
  ASSUME NEW f \in Row
  PROVE  f = [i \in Fields |-> f[i]] /\ \A i \in Fields : f[i] \in TypeOf(i)
BY DEF Row, Fields, TypeOf

\* What a body makes of a row is a row.
LEMMA RowMerged ==
  ASSUME NEW f \in Row, NEW dto, Typed(dto)
  PROVE  Merged(dto, f) \in Row
<1> DEFINE g == Merged(dto, f)
<1>1. DOMAIN f = Fields /\ \A i \in Fields : f[i] \in TypeOf(i)
  BY RowHas
<1>2. g = [i \in Fields |-> IF i \in DOMAIN dto THEN dto[i] ELSE f[i]]
  BY <1>1 DEF Merged
<1> HIDE DEF g
<1>3. g = [i \in Fields |-> g[i]] /\ \A i \in Fields : g[i] \in TypeOf(i)
  BY <1>1, <1>2 DEF Typed
<1> QED
  BY <1>3, RowMade DEF g

\* The request of an editor carries a row or a body as far as it will write one.
EditGood(x) ==
  /\ "pc" \in DOMAIN x
  /\ x.pc \in {"impl", "insert", "collision", "write"} => "row" \in DOMAIN x /\ x.row \in Row
  /\ x.pc \in {"key", "set"} => "dto" \in DOMAIN x /\ x.dto \in CatalogChanges
  /\ x.pc = "connections" => "id" \in DOMAIN x

SourceInv ==
  /\ edit = [e \in Editors |-> edit[e]] /\ \A e \in Editors : EditGood(edit[e])
  /\ edits \in Nat
  /\ stamp = [i \in DOMAIN stamp |-> stamp[i]] /\ \E n \in Nat : DOMAIN stamp = 1..n
  /\ DOMAIN rows \subseteq DOMAIN stamp /\ integrations \subseteq DOMAIN stamp
  /\ \A id \in DOMAIN rows : rows[id] \in Row /\ NamesOf(rows[id]) \subseteq stamp[id].names

\* No name is forgotten.
Remembered ==
  \A id \in DOMAIN stamp : id \in DOMAIN stamp' /\ stamp[id].names \subseteq stamp'[id].names

LEMMA NextId ==
  ASSUME SourceInv, NEW n \in Nat, DOMAIN stamp = 1..n
  PROVE  Born = n
<1>1. CASE n = 0
  <2>1. stamp = <<>>
    <3>1. stamp \in [1..0 -> {}]
      BY <1>1 DEF SourceInv
    <3>2. stamp \in Seq({}) 
      BY <3>1, SeqDef
    <3>3. Len(stamp) = 0
      BY <3>1, <3>2, LenProperties
    <3> QED
      BY <3>2, <3>3, EmptySeq
  <2> QED
    BY <1>1, <2>1 DEF Born
<1>2. CASE n # 0
  <2>1. n \in DOMAIN stamp /\ \A i \in DOMAIN stamp : i <= n
    BY <1>2
  <2>2. stamp # <<>>
    BY <2>1
  <2>3. \A m \in DOMAIN stamp : (\A i \in DOMAIN stamp : i <= m) => m = n
    BY <2>1
  <2> QED
    BY <2>1, <2>2, <2>3 DEF Born
<1> QED
  BY <1>1, <1>2

\* An editor takes up something, or goes on without having written.
Turns(e, to) ==
  /\ edit' = [edit EXCEPT ![e] = to] /\ edits' = edits + 1
  /\ UNCHANGED <<rows, integrations, stamp>>

LEMMA TurnStep ==
  ASSUME SourceInv, NEW e \in Editors, NEW to, EditGood(to), Turns(e, to)
  PROVE  SourceInv' /\ Remembered
<1>1. edit' = [d \in Editors |-> IF d = e THEN to ELSE edit[d]]
  BY DEF SourceInv, Turns
<1> QED
  BY <1>1 DEF SourceInv, Turns, Remembered, EditGood

LEMMA IdleGood == EditGood(Idle) /\ Idle.pc = "idle"
BY DEF EditGood, Idle

\* A new row has an id of its own, and none of the names is lost.
LEMMA InsertKeeps ==
  ASSUME SourceInv, NEW e \in Editors, Insert(e)
  PROVE  SourceInv' /\ Remembered /\ DOMAIN rows \subseteq DOMAIN rows'
<1>1. /\ edit' = [d \in Editors |-> IF d = e THEN Idle ELSE edit[d]]
      /\ edits' \in Nat /\ integrations' = integrations
  BY DEF Insert, Step, SourceInv
<1>2. \A d \in Editors : EditGood(edit'[d])
  BY <1>1, IdleGood DEF SourceInv
<1>3. PICK n \in Nat : DOMAIN stamp = 1..n
  BY DEF SourceInv
<1>4. Born = n
  BY <1>3, NextId
<1> DEFINE row == edit[e].row
           new == Stamp(edits, edits, edit[e].checked, NamesOf(row))
<1>5. CASE rows' = Add(rows, n + 1, row) /\ stamp' = Add(stamp, n + 1, new)
  <2>1. row \in Row
    BY DEF Insert, SourceInv, EditGood
  <2>2. new.names = NamesOf(row)
    BY DEF Stamp
  <2> HIDE DEF row, new
  <2>3. /\ DOMAIN rows' = DOMAIN rows \cup {n + 1} /\ rows'[n + 1] = row
        /\ \A i \in DOMAIN rows \ {n + 1} : rows'[i] = rows[i]
        /\ DOMAIN stamp' = 1..(n + 1) /\ stamp'[n + 1] = new
        /\ \A i \in 1..n : stamp'[i] = stamp[i]
    BY <1>3, <1>5 DEF Add
  <2>4. stamp' = [i \in DOMAIN stamp' |-> stamp'[i]]
    BY <1>5 DEF Add
  <2>5. Remembered
    BY <1>3, <2>3 DEF Remembered
  <2>6. DOMAIN rows' \subseteq DOMAIN stamp' /\ integrations' \subseteq DOMAIN stamp'
    BY <1>1, <1>3, <2>3 DEF SourceInv
  <2>7. \A i \in DOMAIN rows' : rows'[i] \in Row /\ NamesOf(rows'[i]) \subseteq stamp'[i].names
    BY <1>3, <2>1, <2>2, <2>3 DEF SourceInv
  <2>8. \E m \in Nat : DOMAIN stamp' = 1..m
    BY <2>3
  <2>9. edit' = [d \in Editors |-> edit'[d]]
    BY <1>1
  <2> QED
    BY <1>1, <1>2, <2>3, <2>4, <2>5, <2>6, <2>7, <2>8, <2>9 DEF SourceInv
<1>6. CASE UNCHANGED <<rows, stamp>>
  BY <1>1, <1>2, <1>6 DEF SourceInv, Remembered
<1> QED
  BY <1>4, <1>5, <1>6 DEF Insert

\* A written row keeps its id, and the names it had are remembered.
LEMMA WriteKeeps ==
  ASSUME SourceInv, NEW e \in Editors, NEW from, NEW row,
         edit[e].id \in DOMAIN rows => row \in Row, Write(e, from, row)
  PROVE  SourceInv' /\ Remembered /\ DOMAIN rows' = DOMAIN rows
<1>1. /\ edit' = [d \in Editors |-> IF d = e THEN Idle ELSE edit[d]]
      /\ edits' \in Nat /\ integrations' = integrations
  BY DEF Write, Step, SourceInv
<1>2. \A d \in Editors : EditGood(edit'[d])
  BY <1>1, IdleGood DEF SourceInv
<1> DEFINE id == edit[e].id
           same == row.provider = rows[id].provider
           new == Stamp(edits, IF same THEN stamp[id].named ELSE edits,
                        IF same THEN stamp[id].checked ELSE edit[e].checked,
                        stamp[id].names \cup NamesOf(row))
<1>3. CASE /\ id \in DOMAIN rows
           /\ rows' = [rows EXCEPT ![id] = row] /\ stamp' = [stamp EXCEPT ![id] = new]
  <2>1. new.names = stamp[id].names \cup NamesOf(row)
    BY DEF Stamp
  <2> HIDE DEF new
  <2>2. id \in DOMAIN stamp
    BY <1>3 DEF SourceInv
  <2> HIDE DEF id
  <2>3. /\ DOMAIN rows' = DOMAIN rows /\ rows'[id] = row
        /\ \A i \in DOMAIN rows \ {id} : rows'[i] = rows[i]
        /\ DOMAIN stamp' = DOMAIN stamp /\ stamp'[id] = new
        /\ \A i \in DOMAIN stamp \ {id} : stamp'[i] = stamp[i]
        /\ stamp' = [i \in DOMAIN stamp' |-> stamp'[i]]
    BY <1>3, <2>2
  <2>4. \A i \in DOMAIN rows' : rows'[i] \in Row /\ NamesOf(rows'[i]) \subseteq stamp'[i].names
    BY <1>3, <2>1, <2>3 DEF SourceInv, id
  <2>5. Remembered
    BY <2>1, <2>3 DEF Remembered
  <2>6. edit' = [d \in Editors |-> edit'[d]]
    BY <1>1
  <2> QED
    BY <1>1, <1>2, <2>3, <2>4, <2>5, <2>6 DEF SourceInv
<1>4. CASE UNCHANGED <<rows, stamp>>
  BY <1>1, <1>2, <1>4 DEF SourceInv, Remembered
<1> QED
  BY <1>3, <1>4 DEF Write

LEMMA WriteUpdateKeeps ==
  ASSUME SourceInv, NEW e \in Editors, WriteUpdate(e)
  PROVE  SourceInv' /\ Remembered /\ DOMAIN rows' = DOMAIN rows
<1> DEFINE now == rows[edit[e].id]
           row == [edit[e].row EXCEPT !.oauth = now.oauth,
                                      !.providerKey = IF @ = "" THEN now.providerKey ELSE @,
                                      !.catalogSource = IF @ = "" THEN now.catalogSource ELSE @]
<1>1. edit[e].id \in DOMAIN rows /\ now \in Row /\ edit[e].row \in Row /\ Write(e, "write", row)
  BY DEF WriteUpdate, SourceInv, EditGood
<1> HIDE DEF now
<1>2. row \in Row
  BY <1>1 DEF Row
<1> HIDE DEF row
<1> QED
  BY <1>1, <1>2, WriteKeeps

LEMMA WriteCatalogRowKeeps ==
  ASSUME SourceInv, NEW e \in Editors, WriteCatalogRow(e)
  PROVE  SourceInv' /\ Remembered /\ DOMAIN rows' = DOMAIN rows
<1> DEFINE now == rows[edit[e].id]
           dto == edit[e].dto
           slug == IF "providerKey" \in DOMAIN dto THEN [providerSlug |-> Dashed[dto.providerKey]] ELSE <<>>
           row == Merged(dto, Merged(slug, now))
<1>1. now \in Row /\ dto \in CatalogChanges /\ Write(e, "set", row)
  BY DEF WriteCatalogRow, SourceInv, EditGood
<1>2. Typed(dto)
  BY <1>1, CatalogueAssumption DEF CatalogueAssumption
<1>3. Typed(slug)
  <2>1. CASE "providerKey" \in DOMAIN dto
    <3> DEFINE name == Dashed[dto.providerKey]
    <3>1. name \in STRING
      BY <1>1, <2>1, CatalogueAssumption DEF CatalogueAssumption
    <3>2. slug = [providerSlug |-> name]
      BY <2>1
    <3> HIDE DEF name, slug
    <3> QED
      BY <3>1, <3>2 DEF Typed, TypeOf
  <2>2. CASE "providerKey" \notin DOMAIN dto
    <3>1. DOMAIN slug = {}
      BY <2>2
    <3> HIDE DEF slug
    <3> QED
      BY <3>1 DEF Typed
  <2> QED
    BY <2>1, <2>2
<1> HIDE DEF now, dto, slug
<1>4. row \in Row
  BY <1>1, <1>2, <1>3, RowMerged
<1> HIDE DEF row
<1> QED
  BY <1>1, <1>4, WriteKeeps

LEMMA DeleteKeeps ==
  ASSUME SourceInv, NEW e \in Editors, Delete(e)
  PROVE  SourceInv' /\ Remembered /\ DOMAIN rows' = DOMAIN rows \ {edit[e].id}
<1>1. /\ edit' = [d \in Editors |-> IF d = e THEN Idle ELSE edit[d]]
      /\ edits' \in Nat /\ integrations' = integrations /\ stamp' = stamp
      /\ DOMAIN rows' = DOMAIN rows \ {edit[e].id} /\ \A i \in DOMAIN rows' : rows'[i] = rows[i]
  BY DEF Delete, Step, Without, SourceInv
<1>2. \A d \in Editors : EditGood(edit'[d])
  BY <1>1, IdleGood DEF SourceInv
<1> QED
  BY <1>1, <1>2 DEF SourceInv, Remembered

\* What editors do without writing.
LEMMA Turning ==
  ASSUME NEW e, NEW to, NEW from, Begins(e, to) \/ Continues(e, from, to)
  PROVE  Turns(e, to) /\ connections' = connections
BY DEF Begins, Continues, Step, Turns

EditorLooks(e) ==
  \/ CheckProvider(e) \/ CheckCatalogKey(e) \/ CheckImpl(e)
  \/ ReadForUpdate(e) \/ CheckCollision(e) \/ ReadCatalogRow(e) \/ CheckKey(e)
  \/ CountIntegrations(e) \/ ReadForRemoval(e) \/ CountConnections(e) \/ Refused(e)

LEMMA LooksTurn ==
  ASSUME SourceInv, NEW e \in Editors, EditorLooks(e)
  PROVE  \E to : /\ EditGood(to) /\ Turns(e, to) /\ connections' = connections
                 /\ to.pc = "delete" =>
                      \A c \in DOMAIN connections : connections[c].dataSourceId # to.id
<1> DEFINE Fine(to) == /\ EditGood(to)
                       /\ to.pc = "delete" =>
                            \A c \in DOMAIN connections : connections[c].dataSourceId # to.id
<1> SUFFICES \E to, from : Fine(to) /\ (Begins(e, to) \/ Continues(e, from, to))
  BY Turning
<1>1. CASE CheckProvider(e)
  <2>1. PICK row \in NewRows : Begins(e, [pc |-> "insert", row |-> row, checked |-> edits])
    BY <1>1 DEF CheckProvider
  <2>2. row \in Row
    BY CatalogueAssumption DEF CatalogueAssumption
  <2>3. Fine([pc |-> "insert", row |-> row, checked |-> edits])
    BY <2>2 DEF EditGood
  <2> QED
    BY <2>1, <2>3
<1>2. CASE CheckCatalogKey(e)
  <2>1. PICK dto \in NewCatalogRows :
          Begins(e, [pc |-> IF dto.implClass # "" THEN "impl" ELSE "insert",
                     row |-> CatalogRow(dto), checked |-> Unchecked])
    BY <1>2 DEF CheckCatalogKey
  <2>2. CatalogRow(dto) \in Row
    BY CatalogueAssumption DEF CatalogueAssumption
  <2>3. Fine([pc |-> IF dto.implClass # "" THEN "impl" ELSE "insert",
              row |-> CatalogRow(dto), checked |-> Unchecked])
    BY <2>2 DEF EditGood
  <2> QED
    BY <2>1, <2>3
<1>3. CASE CheckImpl(e) \/ CheckCollision(e)
  <2>1. PICK pc \in {"insert", "write"} :
          /\ edit[e].pc \in {"impl", "collision"}
          /\ Continues(e, edit[e].pc, [edit[e] EXCEPT !.pc = pc, !.checked = edits])
    BY <1>3 DEF CheckImpl, CheckCollision
  <2> DEFINE to == [edit[e] EXCEPT !.pc = pc, !.checked = edits]
  <2>2. EditGood(edit[e])
    BY DEF SourceInv
  <2>3. EditGood(to) /\ to.pc = pc
    BY <2>1, <2>2 DEF EditGood
  <2> HIDE DEF to
  <2>4. Fine(to)
    BY <2>1, <2>3
  <2> QED
    BY <2>1, <2>4 DEF to
<1>4. CASE ReadForUpdate(e)
  <2>1. PICK id \in DOMAIN rows, dto \in Changes :
          LET row == Merged(dto, rows[id])
          IN Begins(e, [pc |-> IF row.provider # rows[id].provider THEN "collision" ELSE "write",
                        id |-> id, row |-> row, body |-> DOMAIN dto, read |-> edits,
                        checked |-> stamp[id].checked])
    BY <1>4 DEF ReadForUpdate
  <2> DEFINE row == Merged(dto, rows[id])
             to == [pc |-> IF row.provider # rows[id].provider THEN "collision" ELSE "write",
                    id |-> id, row |-> row, body |-> DOMAIN dto, read |-> edits,
                    checked |-> stamp[id].checked]
  <2>2. row \in Row
    BY RowMerged, CatalogueAssumption DEF CatalogueAssumption, SourceInv
  <2> HIDE DEF row
  <2>3. Fine(to)
    BY <2>2 DEF EditGood
  <2>4. Begins(e, to)
    BY <2>1 DEF row
  <2> QED
    BY <2>3, <2>4
<1>5. CASE ReadCatalogRow(e)
  <2>1. PICK id \in DOMAIN rows, dto \in CatalogChanges, pc \in {"key", "set"} :
          Begins(e, [pc |-> pc, id |-> id, body |-> DOMAIN dto, dto |-> dto, read |-> edits,
                     checked |-> Unchecked])
    BY <1>5 DEF ReadCatalogRow
  <2>2. Fine([pc |-> pc, id |-> id, body |-> DOMAIN dto, dto |-> dto, read |-> edits,
              checked |-> Unchecked])
    BY DEF EditGood
  <2> QED
    BY <2>1, <2>2
<1>6. CASE CheckKey(e)
  <2>1. edit[e].pc = "key" /\ Continues(e, "key", [edit[e] EXCEPT !.pc = "set"])
    BY <1>6 DEF CheckKey
  <2> DEFINE to == [edit[e] EXCEPT !.pc = "set"]
  <2>2. EditGood(edit[e])
    BY DEF SourceInv
  <2>3. EditGood(to) /\ to.pc = "set"
    BY <2>1, <2>2 DEF EditGood
  <2> HIDE DEF to
  <2>4. Fine(to)
    BY <2>1, <2>3
  <2> QED
    BY <2>1, <2>4 DEF to
<1>7. CASE CountIntegrations(e) \/ ReadForRemoval(e)
  <2>1. PICK id, protected : Begins(e, [pc |-> "connections", id |-> id, protected |-> protected])
    BY <1>7 DEF CountIntegrations, ReadForRemoval
  <2>2. Fine([pc |-> "connections", id |-> id, protected |-> protected])
    BY DEF EditGood
  <2> QED
    BY <2>1, <2>2
<1>8. CASE CountConnections(e)
  <2> DEFINE to == [edit[e] EXCEPT !.pc = "delete"]
  <2>1. /\ edit[e].pc = "connections" /\ Continues(e, "connections", to)
        /\ \A c \in DOMAIN connections : connections[c].dataSourceId # edit[e].id
    BY <1>8 DEF CountConnections
  <2>2. EditGood(to)
    BY <2>1 DEF SourceInv, EditGood
  <2>3. to.id = edit[e].id
    BY <2>1 DEF SourceInv, EditGood
  <2> QED
    BY <2>1, <2>2, <2>3
<1>9. CASE Refused(e)
  <2>1. Fine(Idle)
    BY IdleGood
  <2> QED
    BY <1>9, <2>1 DEF Refused
<1> QED
  BY <1>1, <1>2, <1>3, <1>4, <1>5, <1>6, <1>7, <1>8, <1>9 DEF EditorLooks

\* Time passes with every step of an editor, which leaves connections alone.
LEMMA SourceKeeps ==
  ASSUME SourceInv, SourceNext
  PROVE  SourceInv' /\ Remembered /\ edits' = edits + 1 /\ connections' = connections
<1>1. CASE \E e \in Editors : EditorLooks(e)
  BY <1>1, LooksTurn, TurnStep DEF Turns
<1>2. CASE \E e \in Editors : Insert(e)
  BY <1>2, InsertKeeps DEF Insert, Step
<1>3. CASE \E e \in Editors : WriteUpdate(e)
  BY <1>3, WriteUpdateKeeps DEF WriteUpdate, Write, Step
<1>4. CASE \E e \in Editors : WriteCatalogRow(e)
  BY <1>4, WriteCatalogRowKeeps DEF WriteCatalogRow, Write, Step
<1>5. CASE \E e \in Editors : Delete(e)
  BY <1>5, DeleteKeeps DEF Delete, Step
<1>6. CASE \E id \in DOMAIN stamp : Integrate(id) \/ Disintegrate(id)
  BY <1>6 DEF Integrate, Disintegrate, SourceInv, Remembered
<1> QED
  BY <1>1, <1>2, <1>3, <1>4, <1>5, <1>6 DEF SourceNext, EditorLooks

(***************************************************************************)
(* The connections, and what the requests know of them.                    *)
(***************************************************************************)
\* What a start may have been given for a scope.
Asked == Owners \cup {"other"}

\* The row has answered to the slug at some time.
Answered(slug, source) == source \in DOMAIN stamp /\ slug \in stamp[source].names

\* The data source is the one whose client got the tokens of the round trip, or
\* another has answered to the slug.
Belonging(n, source) ==
  \/ source = trips[n].url.row
  \/ \E row \in DOMAIN stamp \ {trips[n].url.row} : trips[n].slug \in stamp[row].names

OnTrip(c) ==
  /\ {"pc", "trip", "slug", "scope", "user", "apiKey", "since"} \subseteq DOMAIN visit[c]
  /\ visit[c].trip \in DOMAIN trips /\ visit[c].user = (visit[c].scope = "user")
  /\ visit[c].slug = trips[visit[c].trip].slug /\ visit[c].scope = trips[visit[c].trip].scope
  /\ visit[c].apiKey = FALSE

\* A request that is about to create a connection.
Creating(c) ==
  /\ {"pc", "trip", "scope", "user", "apiKey", "source", "copied"} \subseteq DOMAIN visit[c]
  /\ visit[c].scope \in Asked /\ visit[c].apiKey \in BOOLEAN
  /\ visit[c].scope \in {"organization", "user"} => Sought(visit[c].user) = visit[c].scope
  /\ visit[c].copied \in STRING /\ Answered(visit[c].copied, visit[c].source)
  /\ visit[c].trip # 0 => OnTrip(c) /\ Answered(visit[c].slug, visit[c].source)

\* No connection that was there when it looked is in its way.
Looked(c) ==
  /\ visit[c].seen \in Nat /\ visit[c].seen <= made
  /\ \A id \in DOMAIN connections :
       id <= visit[c].seen =>
         Held(id).dataSourceId # visit[c].source \/ Held(id).scope # Sought(visit[c].user)

\* A callback has found or made the connection for its tokens.
Chosen(c) ==
  /\ "trip" \in DOMAIN visit[c] /\ visit[c].trip \in DOMAIN trips
  /\ visit[c].id \in 1..made
  /\ visit[c].id \in DOMAIN connections =>
       /\ Serves(Held(visit[c].id).scope, trips[visit[c].trip].scope)
       /\ Belonging(visit[c].trip, Held(visit[c].id).dataSourceId)

VisitGood(c) ==
  /\ visit[c].pc = "fill" => visit[c].scope \in Asked
  /\ visit[c].pc = "exchange" =>
       /\ "trip" \in DOMAIN visit[c] /\ visit[c].trip \in DOMAIN trips
       /\ visit[c].slug = trips[visit[c].trip].slug /\ visit[c].scope = trips[visit[c].trip].scope
  /\ visit[c].pc \in {"find", "source", "by id", "resolve"} => OnTrip(c)
  /\ visit[c].pc = "by id" => "source" \in DOMAIN visit[c] /\ Answered(visit[c].slug, visit[c].source)
  /\ visit[c].pc \in {"duplicate", "insert"} => Creating(c)
  /\ visit[c].pc = "insert" => Looked(c)
  /\ visit[c].pc = "tokens" => Chosen(c)

TokensGood(id) ==
  Held(id).tokens # 0 =>
    /\ Held(id).tokens \in DOMAIN trips
    /\ Serves(Held(id).scope, trips[Held(id).tokens].scope)
    /\ Belonging(Held(id).tokens, Held(id).dataSourceId)

ConnectionGood(id) ==
  /\ id \in 1..made
  /\ Held(id) \in Connection
  /\ Answered(Held(id).providerSlug, Held(id).dataSourceId)
  /\ TokensGood(id)

\* The data source of the connection is there, and nobody is about to delete it.
Standing(id) ==
  ~Held(id).late =>
    /\ Held(id).dataSourceId \in DOMAIN rows
    /\ \A e \in Editors : edit[e].pc = "delete" => edit[e].id # Held(id).dataSourceId

ConnInv ==
  /\ made \in Nat /\ visits \in Nat
  /\ \A n \in DOMAIN trips : trips[n].scope \in Asked
  /\ \A c \in Callers : VisitGood(c)
  /\ \A id \in DOMAIN connections : ConnectionGood(id) /\ Standing(id)
  /\ NoDuplicates

AllInv == IInv /\ SourceInv /\ ConnInv

\* Round trips keep what was asked for.
TripsKept ==
  \A n \in DOMAIN trips :
    /\ n \in DOMAIN trips'
    /\ trips'[n].slug = trips[n].slug /\ trips'[n].scope = trips[n].scope
    /\ trips'[n].url = trips[n].url

LEMMA IssueTrips ==
  ASSUME IInv, NEW slug, NEW scope, NEW config, Issue(slug, scope, config)
  PROVE  /\ TripsKept /\ Len(trips) + 1 \notin DOMAIN trips
         /\ DOMAIN trips' = DOMAIN trips \cup {Len(trips) + 1}
         /\ trips'[Len(trips) + 1].scope = scope
         /\ states' = states \cup {Len(trips) + 1}
BY Appended DEF IInv, WellFormed, Issue, TripsKept

LEMMA ExchangeTrips ==
  ASSUME IInv, NEW c \in Callers, Exchange(c)
  PROVE  TripsKept /\ DOMAIN trips' = DOMAIN trips
<1>1. PICK n, f : trips' = [trips EXCEPT ![n].used = Append(@, f)]
  BY DEF Exchange
<1>2. trips' = [m \in DOMAIN trips |->
                 IF m = n THEN [trips[m] EXCEPT !.used = Append(trips[m].used, f)] ELSE trips[m]]
  BY <1>1
<1>3. \A m \in DOMAIN trips : DOMAIN trips[m] = TripFields
  BY DEF IInv, WellFormed
<1>4. ASSUME NEW m \in DOMAIN trips
      PROVE  /\ trips'[m].slug = trips[m].slug /\ trips'[m].scope = trips[m].scope
             /\ trips'[m].url = trips[m].url
  BY <1>2, <1>3 DEF TripFields
<1> QED
  BY <1>2, <1>4 DEF TripsKept

\* What a round trip and its data source have in common stays.
LEMMA BelongingStays ==
  ASSUME TripsKept, Remembered
  PROVE  /\ \A slug, source : Answered(slug, source) => Answered(slug, source)'
         /\ \A n \in DOMAIN trips : \A source : Belonging(n, source) => Belonging(n, source)'
BY DEF TripsKept, Remembered, Answered, Belonging

LEMMA AnsweredBelongs ==
  ASSUME NEW n, NEW source, Answered(trips[n].slug, source)
  PROVE  Belonging(n, source)
BY DEF Answered, Belonging

\* A request that does not move knows no less, as long as new connections have
\* new ids and the others keep their places.
KeepsPlace(id) ==
  /\ connections'[id].dataSourceId = Held(id).dataSourceId /\ connections'[id].scope = Held(id).scope
  /\ connections'[id].providerSlug = Held(id).providerSlug
  /\ connections'[id].late = Held(id).late /\ connections'[id].seen = Held(id).seen

PlacesKept ==
  /\ made' \in Nat /\ made <= made'
  /\ \A id \in DOMAIN connections' : IF id \in DOMAIN connections THEN KeepsPlace(id) ELSE id = made + 1

LEMMA VisitStays ==
  ASSUME AllInv, TripsKept, Remembered, PlacesKept, NEW c \in Callers, visit'[c] = visit[c]
  PROVE  VisitGood(c)'
<1>1. VisitGood(c) /\ made \in Nat
  BY DEF AllInv, ConnInv
<1>2. ASSUME OnTrip(c) PROVE OnTrip(c)'
  BY <1>2 DEF OnTrip, TripsKept
<1>3. \A slug, source : Answered(slug, source) => Answered(slug, source)'
  BY BelongingStays
<1>4. ASSUME Creating(c) PROVE Creating(c)'
  BY <1>2, <1>3, <1>4 DEF Creating
<1>5. ASSUME Looked(c) PROVE Looked(c)'
  BY <1>1, <1>5 DEF Looked, PlacesKept, KeepsPlace, Held
<1>6. ASSUME Chosen(c) PROVE Chosen(c)'
  <2>1. visit[c].id \in DOMAIN connections' => visit[c].id \in DOMAIN connections /\ KeepsPlace(visit[c].id)
    BY <1>1, <1>6 DEF Chosen, PlacesKept
  <2>2. "trip" \in DOMAIN visit[c] /\ visit[c].trip \in DOMAIN trips /\ visit[c].id \in 1..made'
    BY <1>1, <1>6 DEF Chosen, PlacesKept
  <2>3. ASSUME visit[c].id \in DOMAIN connections'
        PROVE  /\ Serves(connections'[visit[c].id].scope, trips'[visit[c].trip].scope)
               /\ Belonging(visit[c].trip, Held(visit[c].id).dataSourceId)'
    <3>1. /\ Serves(Held(visit[c].id).scope, trips[visit[c].trip].scope)
          /\ Belonging(visit[c].trip, Held(visit[c].id).dataSourceId)
      BY <1>6, <2>1, <2>3 DEF Chosen
    <3>2. KeepsPlace(visit[c].id)
      BY <2>1, <2>3
    <3> QED
      BY <2>2, <3>1, <3>2 DEF Belonging, KeepsPlace, TripsKept, Remembered, Held
  <2> QED
    BY <2>2, <2>3 DEF Chosen, Held, TripsKept
<1> QED
  BY <1>1, <1>2, <1>3, <1>4, <1>5, <1>6 DEF VisitGood, TripsKept

\* Connections keep their places, or go; made is an upper bound of their ids.
LEMMA ConnStep ==
  ASSUME AllInv, TripsKept, Remembered, visits' \in Nat, made' = made,
         \A n \in DOMAIN trips' : n \in DOMAIN trips \/ trips'[n].scope \in Asked,
         \A c \in Callers : visit'[c] = visit[c] \/ VisitGood(c)',
         \A id \in DOMAIN connections' :
           /\ id \in DOMAIN connections /\ KeepsPlace(id) /\ connections'[id] \in Connection
           /\ connections'[id].tokens = Held(id).tokens \/ TokensGood(id)'
           /\ Standing(id) => Standing(id)'
  PROVE  ConnInv'
<1>1. PlacesKept
  BY DEF PlacesKept, AllInv, ConnInv
<1>2. \A c \in Callers : VisitGood(c)'
  BY <1>1, VisitStays
<1>3. \A n \in DOMAIN trips' : trips'[n].scope \in Asked
  BY DEF AllInv, ConnInv, TripsKept
<1>4. ASSUME NEW id \in DOMAIN connections'
      PROVE  ConnectionGood(id)' /\ Standing(id)'
  <2>1. id \in DOMAIN connections /\ ConnectionGood(id) /\ Standing(id) /\ KeepsPlace(id)
    BY DEF AllInv, ConnInv
  <2>2. Answered(Held(id).providerSlug, Held(id).dataSourceId)'
    BY <2>1 DEF KeepsPlace, ConnectionGood, Answered, Remembered, Held
  <2>3. CASE connections'[id].tokens = Held(id).tokens
    <3>1. TokensGood(id)'
      BY <2>1, <2>3 DEF ConnectionGood, TokensGood, Belonging, TripsKept, Remembered, KeepsPlace, Held
    <3> QED
      BY <2>1, <2>2, <3>1 DEF ConnectionGood, Held, Answered
  <2>4. CASE TokensGood(id)'
    BY <2>1, <2>2, <2>4 DEF ConnectionGood, Held, Answered
  <2> QED
    BY <2>1, <2>3, <2>4
<1>5. NoDuplicates'
  BY DEF AllInv, ConnInv, NoDuplicates, Held, KeepsPlace
<1>6. made' \in Nat
  BY DEF AllInv, ConnInv
<1> QED
  BY <1>2, <1>3, <1>4, <1>5, <1>6 DEF ConnInv

\* The same when connections are left alone.
LEMMA ApartStep ==
  ASSUME AllInv, TripsKept, Remembered, visits' \in Nat, made' = made,
         \A n \in DOMAIN trips' : n \in DOMAIN trips \/ trips'[n].scope \in Asked,
         \A c \in Callers : visit'[c] = visit[c] \/ VisitGood(c)',
         connections' = connections,
         \A id \in DOMAIN connections : Standing(id) => Standing(id)'
  PROVE  ConnInv'
<1>1. \A id \in DOMAIN connections' :
        /\ id \in DOMAIN connections /\ KeepsPlace(id) /\ connections'[id] \in Connection
        /\ connections'[id].tokens = Held(id).tokens
        /\ Standing(id) => Standing(id)'
  BY DEF KeepsPlace, Held, AllInv, ConnInv, ConnectionGood
<1> QED
  BY <1>1, ConnStep

\* One request moves, and nothing else changes but its round trips.
LEMMA RequestStep ==
  ASSUME AllInv, TripsKept, visits' \in Nat, made' = made,
         \A n \in DOMAIN trips' : n \in DOMAIN trips \/ trips'[n].scope \in Asked,
         NEW c \in Callers, NEW to, visit' = [visit EXCEPT ![c] = to], VisitGood(c)',
         connections' = connections, rows' = rows, stamp' = stamp, edit' = edit
  PROVE  ConnInv'
<1>1. visit' = [d \in Callers |-> IF d = c THEN to ELSE visit[d]]
  BY DEF AllInv, IInv, WellFormed
<1>2. \A d \in Callers : visit'[d] = visit[d] \/ VisitGood(d)'
  BY <1>1
<1>3. Remembered
  BY DEF Remembered
<1>4. \A id \in DOMAIN connections : Standing(id) => Standing(id)'
  BY DEF Standing, Held
<1> QED
  BY <1>2, <1>3, <1>4, ApartStep

\* Nothing is known of a request that is idle or has a configuration to fill in.
LEMMA IdleVisit ==
  ASSUME NEW c \in Callers, visit'[c].pc = "idle"
  PROVE  VisitGood(c)'
BY DEF VisitGood

LEMMA StartCachedStep ==
  ASSUME AllInv, NEW c \in Callers, StartCached(c)
  PROVE  ConnInv'
<1>1. PICK slug, scope :
        scope \in Asked /\ Issue(slug, scope, configs[slug]) /\ Arrives(c, Idle) /\ Visits
  BY ConnectionAssumption DEF ConnectionAssumption, StartCached, Asked
<1>2. /\ TripsKept
      /\ \A n \in DOMAIN trips' : n \in DOMAIN trips \/ trips'[n].scope \in Asked
  BY <1>1, IssueTrips DEF AllInv
<1>3. visit' = [visit EXCEPT ![c] = Idle] /\ visit'[c] = Idle
  BY <1>1 DEF Arrives, AllInv, IInv, WellFormed
<1>4. VisitGood(c)'
  BY <1>3, IdleVisit, IdleGood
<1>5. /\ visits' \in Nat /\ made' = made /\ connections' = connections
      /\ rows' = rows /\ stamp' = stamp /\ edit' = edit
  BY <1>1 DEF Arrives, sourceVars, Visits, AllInv, ConnInv
<1> QED
  BY <1>2, <1>3, <1>4, <1>5, RequestStep

LEMMA StartReadStep ==
  ASSUME AllInv, NEW c \in Callers, StartRead(c)
  PROVE  ConnInv'
<1>1. PICK slug, scope, config :
        scope \in Asked /\ Arrives(c, [pc |-> "fill", slug |-> slug, scope |-> scope, config |-> config])
        /\ Visits /\ trips' = trips
  BY ConnectionAssumption DEF ConnectionAssumption, StartRead, Asked
<1> DEFINE to == [pc |-> "fill", slug |-> slug, scope |-> scope, config |-> config]
<1>2. visit' = [visit EXCEPT ![c] = to] /\ visit'[c] = to
  BY <1>1 DEF Arrives, AllInv, IInv, WellFormed
<1>3. to.pc = "fill" /\ to.scope \in Asked
  BY <1>1
<1> HIDE DEF to
<1>4. VisitGood(c)'
  BY <1>2, <1>3 DEF VisitGood
<1>5. /\ visits' \in Nat /\ made' = made /\ connections' = connections
      /\ rows' = rows /\ stamp' = stamp /\ edit' = edit
  BY <1>1 DEF Arrives, sourceVars, Visits, AllInv, ConnInv
<1>6. TripsKept
  BY <1>1 DEF TripsKept
<1> QED
  BY <1>1, <1>2, <1>4, <1>5, <1>6, RequestStep

LEMMA StartFillStep ==
  ASSUME AllInv, NEW c \in Callers, StartFill(c)
  PROVE  ConnInv'
<1>1. visit[c].pc = "fill" /\ visit[c].scope \in Asked
  BY DEF StartFill, AllInv, ConnInv, VisitGood
<1>2. PICK slug, config : Issue(slug, visit[c].scope, config)
  BY DEF StartFill
<1>3. PICK scope \in Asked : Issue(slug, scope, config)
  BY <1>1, <1>2
<1>4. /\ TripsKept
      /\ \A n \in DOMAIN trips' : n \in DOMAIN trips \/ trips'[n].scope \in Asked
  BY <1>3, IssueTrips DEF AllInv
<1>5. visit' = [visit EXCEPT ![c] = Idle] /\ visit'[c] = Idle
  BY DEF StartFill, AllInv, IInv, WellFormed
<1>6. VisitGood(c)'
  BY <1>5, IdleVisit, IdleGood
<1>7. /\ visits' \in Nat /\ made' = made /\ connections' = connections
      /\ rows' = rows /\ stamp' = stamp /\ edit' = edit
  BY DEF StartFill, sourceVars, AllInv, ConnInv
<1> QED
  BY <1>4, <1>5, <1>6, <1>7, RequestStep

LEMMA CallbackKeeps ==
  ASSUME AllInv, NEW c \in Callers, Callback(c)
  PROVE  ConnInv'
<1>1. PICK n \in states :
        /\ Arrives(c, [pc |-> "exchange", trip |-> n, slug |-> trips[n].slug,
                       scope |-> trips[n].scope, config |-> configs[trips[n].slug]])
        /\ visits' = visits /\ trips' = trips
  BY DEF Callback
<1> DEFINE to == [pc |-> "exchange", trip |-> n, slug |-> trips[n].slug,
                  scope |-> trips[n].scope, config |-> configs[trips[n].slug]]
<1>2. visit' = [visit EXCEPT ![c] = to] /\ visit'[c] = to
  BY <1>1 DEF Arrives, AllInv, IInv, WellFormed
<1>3. to.pc = "exchange" /\ "trip" \in DOMAIN to /\ to.trip = n /\ to.slug = trips[n].slug /\ to.scope = trips[n].scope
  OBVIOUS
<1> HIDE DEF to
<1>4. n \in DOMAIN trips
  BY DEF AllInv, IInv, StatesNew
<1>5. VisitGood(c)'
  BY <1>1, <1>2, <1>3, <1>4 DEF VisitGood
<1>6. /\ visits' \in Nat /\ made' = made /\ connections' = connections
      /\ rows' = rows /\ stamp' = stamp /\ edit' = edit
  BY <1>1 DEF Arrives, sourceVars, AllInv, ConnInv
<1>7. TripsKept
  BY <1>1 DEF TripsKept
<1> QED
  BY <1>1, <1>2, <1>5, <1>6, <1>7, RequestStep

LEMMA ExchangeKeeps ==
  ASSUME AllInv, NEW c \in Callers, Exchange(c)
  PROVE  ConnInv'
<1> DEFINE n == visit[c].trip
           to == [pc |-> "find", trip |-> visit[c].trip, slug |-> visit[c].slug,
                  scope |-> visit[c].scope, user |-> visit[c].scope = "user", apiKey |-> FALSE,
                  since |-> Moment]
<1>1. TripsKept /\ DOMAIN trips' = DOMAIN trips
  BY ExchangeTrips DEF AllInv
<1>2. /\ visit[c].pc = "exchange" /\ visits' = visits /\ made' = made /\ connections' = connections
      /\ rows' = rows /\ stamp' = stamp /\ edit' = edit
  BY DEF Exchange, Moves
<1>3. /\ n \in DOMAIN trips /\ visit[c].slug = trips[n].slug /\ visit[c].scope = trips[n].scope
  BY <1>2 DEF AllInv, ConnInv, VisitGood
<1>4. CASE Moves(c, "exchange", to)
  <2>1. visit' = [visit EXCEPT ![c] = to] /\ visit'[c] = to
    BY <1>4 DEF Moves, AllInv, IInv, WellFormed
  <2>2. /\ to.pc = "find" /\ DOMAIN to = {"pc", "trip", "slug", "scope", "user", "apiKey", "since"}
        /\ to.trip = visit[c].trip /\ to.slug = visit[c].slug /\ to.scope = visit[c].scope
        /\ to.user = (visit[c].scope = "user") /\ to.apiKey = FALSE
    OBVIOUS
  <2> HIDE DEF to
  <2>3. VisitGood(c)'
    <3>1. OnTrip(c)'
      BY <1>1, <1>3, <2>1, <2>2 DEF OnTrip, TripsKept
    <3> QED
      BY <3>1, <2>1, <2>2 DEF VisitGood
  <2>4. visits' \in Nat
    BY <1>2 DEF AllInv, ConnInv
  <2> QED
    BY <1>1, <1>2, <2>1, <2>3, <2>4, RequestStep
<1>5. CASE Moves(c, "exchange", Idle)
  <2>1. visit' = [visit EXCEPT ![c] = Idle] /\ visit'[c] = Idle
    BY <1>5 DEF Moves, AllInv, IInv, WellFormed
  <2>2. VisitGood(c)'
    BY <2>1, IdleVisit, IdleGood
  <2>3. visits' \in Nat
    BY <1>2 DEF AllInv, ConnInv
  <2> QED
    BY <1>1, <1>2, <2>1, <2>2, <2>3, RequestStep
<1> QED
  BY <1>4, <1>5 DEF Exchange

\* A callback goes on with what it has, and perhaps more.
Carries(c, to) ==
  /\ DOMAIN visit[c] \subseteq DOMAIN to
  /\ \A f \in DOMAIN visit[c] \ {"pc"} : to[f] = visit[c][f]

LEMMA ToCarries ==
  ASSUME NEW c, "pc" \in DOMAIN visit[c], NEW pc
  PROVE  To(c, pc).pc = pc /\ DOMAIN To(c, pc) = DOMAIN visit[c] /\ Carries(c, To(c, pc))
BY DEF To, Carries

LEMMA TripGoesOn ==
  ASSUME NEW c, OnTrip(c), NEW to, Carries(c, to), visit'[c] = to, trips' = trips
  PROVE  OnTrip(c)' /\ to.trip = visit[c].trip /\ to.slug = visit[c].slug
         /\ to.scope = visit[c].scope /\ to.user = visit[c].user /\ to.apiKey = FALSE
<1>1. /\ to.trip = visit[c].trip /\ to.slug = visit[c].slug
      /\ to.scope = visit[c].scope /\ to.user = visit[c].user /\ to.apiKey = visit[c].apiKey
      /\ {"pc", "trip", "slug", "scope", "user", "apiKey", "since"} \subseteq DOMAIN to
  BY DEF OnTrip, Carries
<1> QED
  BY <1>1 DEF OnTrip

LEMMA GoStep ==
  ASSUME AllInv, NEW c \in Callers, NEW from, NEW to, Goes(c, from, to), VisitGood(c)'
  PROVE  ConnInv'
<1>1. TripsKept /\ \A n \in DOMAIN trips' : n \in DOMAIN trips
  BY DEF Goes, TripsKept
<1>2. visits' \in Nat
  BY DEF Goes, Moves, AllInv, ConnInv
<1> QED
  BY <1>1, <1>2, RequestStep DEF Goes, Moves

LEMMA Going2 ==
  ASSUME AllInv, NEW c \in Callers, NEW from, NEW to, Goes(c, from, to)
  PROVE  /\ visit[c].pc = from /\ visit'[c] = to /\ "pc" \in DOMAIN visit[c]
         /\ trips' = trips /\ stamp' = stamp /\ made' = made /\ connections' = connections
         /\ rows' = rows
BY DEF Goes, Moves, AllInv, IInv, WellFormed

LEMMA EndsStep ==
  ASSUME AllInv, NEW c \in Callers, NEW from, Goes(c, from, Idle)
  PROVE  ConnInv'
<1>1. VisitGood(c)'
  BY Going2, IdleVisit, IdleGood
<1> QED
  BY <1>1, GoStep

\* A connection that a callback has found serves its scope.
LEMMA SoughtServes ==
  ASSUME AllInv, NEW c \in Callers, OnTrip(c)
  PROVE  visit[c].scope \in Asked /\ Serves(Sought(visit[c].user), visit[c].scope)
BY DEF AllInv, ConnInv, OnTrip, Asked, Owners, Sought, Serves

LEMMA FoundStep ==
  ASSUME AllInv, NEW c \in Callers, NEW from, OnTrip(c), NEW id \in DOMAIN connections,
         Goes(c, from, Found(c, id)), Held(id).scope = Sought(visit[c].user),
         Answered(visit[c].slug, Held(id).dataSourceId)
  PROVE  ConnInv'
<1> DEFINE to == Found(c, id)
<1>1. to.pc = "tokens" /\ "trip" \in DOMAIN to /\ to.trip = visit[c].trip /\ to.id = id
  BY DEF Found
<1> HIDE DEF to
<1>2. /\ visit'[c] = to /\ trips' = trips /\ stamp' = stamp /\ made' = made
      /\ connections' = connections
  BY Going2 DEF to
<1>3. /\ visit[c].trip \in DOMAIN trips /\ Serves(Held(id).scope, trips[visit[c].trip].scope)
      /\ Belonging(visit[c].trip, Held(id).dataSourceId)
  BY SoughtServes, AnsweredBelongs DEF OnTrip
<1>4. id \in 1..made
  BY DEF AllInv, ConnInv, ConnectionGood
<1>5. Chosen(c)'
  BY <1>1, <1>2, <1>3, <1>4 DEF Chosen, Belonging, Held
<1>6. VisitGood(c)'
  BY <1>1, <1>2, <1>5 DEF VisitGood
<1> QED
  BY <1>6, GoStep DEF to

LEMMA FindBySlugKeeps ==
  ASSUME AllInv, NEW c \in Callers, FindBySlug(c)
  PROVE  ConnInv'
<1>1. OnTrip(c) /\ "pc" \in DOMAIN visit[c]
  BY DEF FindBySlug, AllInv, ConnInv, VisitGood, IInv, WellFormed
<1>2. CASE Goes(c, "find", To(c, "source"))
  <2> DEFINE to == To(c, "source")
  <2>1. to.pc = "source" /\ Carries(c, to)
    BY <1>1, ToCarries
  <2>2. visit'[c] = to /\ trips' = trips
    BY <1>2, Going2
  <2> HIDE DEF to
  <2>3. OnTrip(c)'
    BY <1>1, <2>1, <2>2, TripGoesOn
  <2>4. VisitGood(c)'
    BY <2>1, <2>2, <2>3 DEF VisitGood
  <2> QED
    BY <1>2, <2>4, GoStep
<1>3. ASSUME NEW id \in DOMAIN connections, Held(id).providerSlug = visit[c].slug,
             Active(id, Sought(visit[c].user)), Goes(c, "find", Found(c, id))
      PROVE  ConnInv'
  <2>1. Answered(visit[c].slug, Held(id).dataSourceId) /\ Held(id).scope = Sought(visit[c].user)
    BY <1>3 DEF AllInv, ConnInv, ConnectionGood, Active
  <2> QED
    BY <1>1, <1>3, <2>1, FoundStep
<1> QED
  BY <1>2, <1>3 DEF FindBySlug

LEMMA MatchAnswers ==
  ASSUME SourceInv, NEW slug, NEW id \in Matches(slug)
  PROVE  id \in DOMAIN rows /\ Answered(slug, id)
BY DEF SourceInv, Matches, Answered

LEMMA FindSourceKeeps ==
  ASSUME AllInv, NEW c \in Callers, FindSource(c)
  PROVE  ConnInv'
<1>1. OnTrip(c) /\ "pc" \in DOMAIN visit[c]
  BY DEF FindSource, AllInv, ConnInv, VisitGood, IInv, WellFormed
<1>2. CASE Goes(c, "source", To(c, "resolve"))
  <2> DEFINE to == To(c, "resolve")
  <2>1. to.pc = "resolve" /\ Carries(c, to)
    BY <1>1, ToCarries
  <2>2. visit'[c] = to /\ trips' = trips
    BY <1>2, Going2
  <2> HIDE DEF to
  <2>3. OnTrip(c)'
    BY <1>1, <2>1, <2>2, TripGoesOn
  <2>4. VisitGood(c)'
    BY <2>1, <2>2, <2>3 DEF VisitGood
  <2> QED
    BY <1>2, <2>4, GoStep
<1>3. ASSUME NEW id \in Matches(visit[c].slug),
             Goes(c, "source", Add(To(c, "by id"), "source", id))
      PROVE  ConnInv'
  <2> DEFINE w == To(c, "by id")
             to == Add(w, "source", id)
  <2>1. w.pc = "by id" /\ DOMAIN w = DOMAIN visit[c] /\ Carries(c, w)
    BY <1>1, ToCarries
  <2> HIDE DEF w
  <2>2. /\ DOMAIN to = DOMAIN w \cup {"source"} /\ to["source"] = id
        /\ \A f \in DOMAIN w \ {"source"} : to[f] = w[f]
    BY DEF Add
  <2>3. visit'[c] = to /\ trips' = trips /\ stamp' = stamp
    BY <1>3, Going2 DEF w
  <2> HIDE DEF to
  <2>4. to.pc = "by id" /\ to.source = id /\ "source" \in DOMAIN to
    BY <1>1, <2>1, <2>2
  <2>5. /\ to.trip = visit[c].trip /\ to.slug = visit[c].slug
        /\ to.scope = visit[c].scope /\ to.user = visit[c].user /\ to.apiKey = visit[c].apiKey
        /\ {"pc", "trip", "slug", "scope", "user", "apiKey", "since"} \subseteq DOMAIN to
    BY <1>1, <2>1, <2>2 DEF OnTrip, Carries
  <2>6. OnTrip(c)'
    BY <1>1, <2>3, <2>5 DEF OnTrip
  <2>7. Answered(visit[c].slug, id)
    BY <1>3, MatchAnswers DEF AllInv
  <2>8. VisitGood(c)'
    BY <2>3, <2>4, <2>5, <2>6, <2>7 DEF VisitGood, Answered
  <2> QED
    BY <1>3, <2>8, GoStep
<1> QED
  BY <1>2, <1>3 DEF FindSource

LEMMA FindByDataSourceKeeps ==
  ASSUME AllInv, NEW c \in Callers, FindByDataSource(c)
  PROVE  ConnInv'
<1>1. OnTrip(c) /\ "pc" \in DOMAIN visit[c] /\ Answered(visit[c].slug, visit[c].source)
  BY DEF FindByDataSource, AllInv, ConnInv, VisitGood, IInv, WellFormed
<1>2. CASE Goes(c, "by id", To(c, "resolve"))
  <2> DEFINE to == To(c, "resolve")
  <2>1. to.pc = "resolve" /\ Carries(c, to)
    BY <1>1, ToCarries
  <2>2. visit'[c] = to /\ trips' = trips
    BY <1>2, Going2
  <2> HIDE DEF to
  <2>3. OnTrip(c)'
    BY <1>1, <2>1, <2>2, TripGoesOn
  <2>4. VisitGood(c)'
    BY <2>1, <2>2, <2>3 DEF VisitGood
  <2> QED
    BY <1>2, <2>4, GoStep
<1>3. ASSUME NEW id \in DOMAIN connections, Held(id).dataSourceId = visit[c].source,
             Active(id, Sought(visit[c].user)), Goes(c, "by id", Found(c, id))
      PROVE  ConnInv'
  <2>1. Answered(visit[c].slug, Held(id).dataSourceId) /\ Held(id).scope = Sought(visit[c].user)
    BY <1>1, <1>3 DEF Active
  <2> QED
    BY <1>1, <1>3, <2>1, FoundStep
<1> QED
  BY <1>2, <1>3 DEF FindByDataSource

(*****************************************************************************)
(* Requests that settle a data source, write connections and end; the type   *)
(* of the documents; the places of the tokens.                               *)
(*****************************************************************************)
\* What a request knows when its data source is settled.
LEMMA ResolvedFields ==
  ASSUME NEW v, "pc" \in DOMAIN v, NEW id
  PROVE  LET to == Resolved(v, id)
         IN /\ DOMAIN to = DOMAIN v \cup {"source", "copied"}
            /\ to.pc = "duplicate" /\ to.source = id /\ to.copied = rows[id].providerSlug
            /\ \A f \in DOMAIN v \ {"pc", "source", "copied"} : to[f] = v[f]
<1> DEFINE w == [v EXCEPT !.pc = "duplicate"]
           x == Add(w, "source", id)
<1>1. DOMAIN w = DOMAIN v /\ w.pc = "duplicate" /\ \A f \in DOMAIN v \ {"pc"} : w[f] = v[f]
  OBVIOUS
<1> HIDE DEF w
<1>2. /\ DOMAIN x = DOMAIN w \cup {"source"} /\ x["source"] = id
      /\ \A f \in DOMAIN w \ {"source"} : x[f] = w[f]
  BY DEF Add
<1> HIDE DEF x
<1>3. LET to == Add(x, "copied", rows[id].providerSlug)
      IN /\ DOMAIN to = DOMAIN x \cup {"copied"} /\ to["copied"] = rows[id].providerSlug
         /\ \A f \in DOMAIN x \ {"copied"} : to[f] = x[f]
  BY DEF Add
<1>4. Resolved(v, id) = Add(x, "copied", rows[id].providerSlug)
  BY DEF Resolved, w, x
<1> QED
  BY <1>1, <1>2, <1>3, <1>4

LEMMA NamesAnswered ==
  ASSUME SourceInv, NEW id \in DOMAIN rows
  PROVE  rows[id].providerSlug \in STRING /\ Answered(rows[id].providerSlug, id)
BY DEF SourceInv, NamesOf, Answered, Row

LEMMA ResolveKeeps ==
  ASSUME AllInv, NEW c \in Callers, Resolve(c)
  PROVE  ConnInv'
<1>1. OnTrip(c) /\ "pc" \in DOMAIN visit[c]
  BY DEF Resolve, AllInv, ConnInv, VisitGood, IInv, WellFormed
<1>2. PICK id \in Matches(visit[c].slug) : Goes(c, "resolve", Resolved(visit[c], id))
  BY DEF Resolve
<1> DEFINE to == Resolved(visit[c], id)
<1>3. /\ DOMAIN to = DOMAIN visit[c] \cup {"source", "copied"}
      /\ to.pc = "duplicate" /\ to.source = id /\ to.copied = rows[id].providerSlug
      /\ \A f \in DOMAIN visit[c] \ {"pc", "source", "copied"} : to[f] = visit[c][f]
  <2>1. PICK v : v = visit[c]
    OBVIOUS
  <2>2. "pc" \in DOMAIN v
    BY <1>1, <2>1
  <2>3. LET x == Resolved(v, id)
        IN /\ DOMAIN x = DOMAIN v \cup {"source", "copied"}
           /\ x.pc = "duplicate" /\ x.source = id /\ x.copied = rows[id].providerSlug
           /\ \A f \in DOMAIN v \ {"pc", "source", "copied"} : x[f] = v[f]
    BY <2>2, ResolvedFields
  <2> QED
    BY <2>1, <2>3
<1>4. visit'[c] = to /\ trips' = trips /\ stamp' = stamp
  BY <1>2, Going2
<1> HIDE DEF to
<1>5. /\ to.trip = visit[c].trip /\ to.slug = visit[c].slug
      /\ to.scope = visit[c].scope /\ to.user = visit[c].user /\ to.apiKey = visit[c].apiKey
      /\ {"pc", "trip", "slug", "scope", "user", "apiKey", "since", "source", "copied"} \subseteq DOMAIN to
  <2>1. {"pc", "trip", "slug", "scope", "user", "apiKey", "since"} \subseteq DOMAIN visit[c]
    BY <1>1 DEF OnTrip
  <2> QED
    BY <1>3, <2>1
<1>6. OnTrip(c)'
  BY <1>1, <1>4, <1>5 DEF OnTrip
<1>7. /\ id \in DOMAIN rows /\ Answered(visit[c].slug, id)
      /\ to.copied \in STRING /\ Answered(to.copied, id)
  BY <1>2, <1>3, MatchAnswers, NamesAnswered DEF AllInv
<1>8. /\ to.scope \in Asked /\ to.apiKey = FALSE
      /\ to.scope \in {"organization", "user"} => Sought(to.user) = to.scope
  BY <1>1, <1>5 DEF OnTrip, AllInv, ConnInv, Sought
<1>9. Creating(c)'
  BY <1>3, <1>4, <1>5, <1>6, <1>7, <1>8 DEF Creating, Answered
<1>10. VisitGood(c)'
  BY <1>3, <1>4, <1>9 DEF VisitGood
<1> QED
  BY <1>2, <1>10, GoStep DEF to

LEMMA CreateResolveKeeps ==
  ASSUME AllInv, NEW c \in Callers, CreateResolve(c)
  PROVE  ConnInv'
<1>1. PICK body \in NewConnections, id \in {i \in DOMAIN rows : rows[i].isActive} :
        /\ Visits /\ trips' = trips
        /\ Arrives(c, Resolved([pc |-> "create", trip |-> 0, scope |-> body.scope,
                                user |-> body.user, apiKey |-> body.apiKey], id))
  BY DEF CreateResolve
<1> DEFINE v == [pc |-> "create", trip |-> 0, scope |-> body.scope, user |-> body.user,
                 apiKey |-> body.apiKey]
           to == Resolved(v, id)
<1>2. /\ DOMAIN v = {"pc", "trip", "scope", "user", "apiKey"}
      /\ v.trip = 0 /\ v.scope \in Asked /\ v.apiKey \in BOOLEAN
      /\ v.scope \in {"organization", "user"} => Sought(v.user) = v.scope
  BY ConnectionAssumption DEF ConnectionAssumption, Owners, Asked, Sought
<1>3. visit' = [visit EXCEPT ![c] = to] /\ visit'[c] = to
  BY <1>1 DEF Arrives, AllInv, IInv, WellFormed
<1> HIDE DEF v
<1>4. /\ DOMAIN to = DOMAIN v \cup {"source", "copied"}
      /\ to.pc = "duplicate" /\ to.source = id /\ to.copied = rows[id].providerSlug
      /\ \A f \in DOMAIN v \ {"pc", "source", "copied"} : to[f] = v[f]
  BY <1>2, ResolvedFields
<1> HIDE DEF to
<1>5. /\ to.trip = 0 /\ to.scope \in Asked /\ to.apiKey \in BOOLEAN
      /\ to.scope \in {"organization", "user"} => Sought(to.user) = to.scope
  BY <1>2, <1>4
<1>6. to.copied \in STRING /\ Answered(to.copied, id)
  BY <1>4, NamesAnswered DEF AllInv
<1>7. stamp' = stamp
  BY <1>1 DEF Arrives, sourceVars
<1>8. Creating(c)'
  BY <1>2, <1>3, <1>4, <1>5, <1>6, <1>7 DEF Creating, Answered
<1>9. VisitGood(c)'
  BY <1>3, <1>4, <1>8 DEF VisitGood
<1>10. /\ visits' \in Nat /\ made' = made /\ connections' = connections
      /\ rows' = rows /\ stamp' = stamp /\ edit' = edit
  BY <1>1 DEF Arrives, sourceVars, Visits, AllInv, ConnInv
<1>11. TripsKept
  BY <1>1 DEF TripsKept
<1> QED
  BY <1>1, <1>3, <1>9, <1>10, <1>11, RequestStep

LEMMA CheckDuplicateKeeps ==
  ASSUME AllInv, NEW c \in Callers, CheckDuplicate(c)
  PROVE  ConnInv'
<1> DEFINE w == To(c, "insert")
           to == Add(w, "seen", made)
<1>1. /\ Creating(c) /\ "pc" \in DOMAIN visit[c] /\ Duplicates(visit[c]) = {}
      /\ Goes(c, "duplicate", to)
  BY DEF CheckDuplicate, AllInv, ConnInv, VisitGood, IInv, WellFormed
<1>2. w.pc = "insert" /\ DOMAIN w = DOMAIN visit[c] /\ Carries(c, w)
  BY <1>1, ToCarries
<1>3. /\ visit'[c] = to /\ trips' = trips /\ stamp' = stamp /\ made' = made
      /\ connections' = connections
  BY <1>1, Going2
<1> HIDE DEF w
<1>4. /\ DOMAIN to = DOMAIN w \cup {"seen"} /\ to["seen"] = made
      /\ \A f \in DOMAIN w \ {"seen"} : to[f] = w[f]
  BY DEF Add
<1> HIDE DEF to
<1>5. /\ to.pc = "insert" /\ to.seen = made
      /\ {"pc", "trip", "scope", "user", "apiKey", "source", "copied"} \subseteq DOMAIN to
      /\ to.trip = visit[c].trip /\ to.scope = visit[c].scope /\ to.user = visit[c].user
      /\ to.apiKey = visit[c].apiKey /\ to.source = visit[c].source /\ to.copied = visit[c].copied
  BY <1>1, <1>2, <1>4 DEF Creating, Carries
<1>6. ASSUME visit[c].trip # 0
      PROVE  OnTrip(c)' /\ to.slug = visit[c].slug
  <2>1. OnTrip(c)
    BY <1>1, <1>6 DEF Creating
  <2>2. to.slug = visit[c].slug /\ {"slug", "since"} \subseteq DOMAIN to
    BY <1>2, <1>4, <2>1 DEF OnTrip, Carries
  <2> QED
    BY <1>3, <1>5, <2>1, <2>2 DEF OnTrip
<1>7. Creating(c)'
  BY <1>1, <1>3, <1>5, <1>6 DEF Creating, Answered
<1>8. \A id \in DOMAIN connections :
        Held(id).dataSourceId # visit[c].source \/ Held(id).scope # Sought(visit[c].user)
  BY <1>1 DEF Duplicates
<1>9. Looked(c)'
  BY <1>3, <1>5, <1>8 DEF Looked, Held, AllInv, ConnInv
<1>10. VisitGood(c)'
  BY <1>3, <1>5, <1>7, <1>9 DEF VisitGood
<1> QED
  BY <1>1, <1>10, GoStep DEF to

LEMMA QueryFailsKeeps ==
  ASSUME AllInv, NEW c \in Callers, QueryFails(c)
  PROVE  ConnInv'
<1>1. visit' = [visit EXCEPT ![c] = Idle] /\ visit'[c] = Idle
  BY DEF QueryFails, AllInv, IInv, WellFormed
<1>2. VisitGood(c)'
  BY <1>1, IdleVisit, IdleGood
<1>3. /\ visits' \in Nat /\ made' = made /\ connections' = connections /\ trips' = trips
      /\ rows' = rows /\ stamp' = stamp /\ edit' = edit
  <2>1. made' = made /\ trips' = trips /\ UNCHANGED sourceVars /\ Visits
    BY DEF QueryFails
  <2>2. visits \in Nat
    BY DEF AllInv, ConnInv
  <2> QED
    BY <2>1, <2>2 DEF sourceVars, Visits
<1>4. TripsKept
  BY <1>3 DEF TripsKept
<1> QED
  BY <1>1, <1>2, <1>3, <1>4, RequestStep

\* The connection that is made serves its request, and none that its request could
\* see is in its way.
LEMMA InsertConnectionKeeps ==
  ASSUME AllInv, NEW c \in Callers, InsertConnection(c)
  PROVE  ConnInv'
<1> DEFINE v == visit[c]
           id == made + 1
           late == v.source \notin DOMAIN rows
                   \/ \E e \in Editors : edit[e].pc = "delete" /\ edit[e].id = v.source
           status == IF v.apiKey THEN "active" ELSE "pending"
           new == [dataSourceId |-> v.source, providerSlug |-> v.copied, scope |-> v.scope,
                   status |-> status, apiKey |-> v.apiKey, tokens |-> 0, seen |-> v.seen,
                   late |-> late]
<1>1. /\ v.pc = "insert" /\ made' = id /\ connections' = Add(connections, id, new)
      /\ trips' = trips /\ visits' = visits
      /\ rows' = rows /\ stamp' = stamp /\ edit' = edit /\ v.scope \in Owners
      /\ \/ v.trip = 0 /\ visit' = [visit EXCEPT ![c] = Idle]
         \/ v.trip # 0 /\ visit' = [visit EXCEPT ![c] = Found(c, id)]
  BY DEF InsertConnection, Moves
<1>2. Creating(c) /\ Looked(c) /\ made \in Nat
  BY <1>1 DEF AllInv, ConnInv, VisitGood
<1>3. /\ v.source \in DOMAIN stamp /\ v.copied \in STRING /\ Answered(v.copied, v.source)
      /\ v.scope \in Owners /\ v.apiKey \in BOOLEAN /\ v.seen \in Nat /\ v.seen <= made
  BY <1>1, <1>2 DEF Creating, Looked, Answered
<1>4. DOMAIN stamp \subseteq Nat
  BY DEF AllInv, SourceInv
<1>5. status \in {"active", "pending", "revoked"} /\ late \in BOOLEAN
  OBVIOUS
<1>6. new \in Connection /\ new.dataSourceId = v.source /\ new.providerSlug = v.copied
      /\ new.scope = v.scope /\ new.tokens = 0 /\ new.seen = v.seen /\ new.late = late
  <2> HIDE DEF status, late
  <2> QED
    BY <1>3, <1>4, <1>5 DEF Connection
<1>7. id \notin DOMAIN connections
  BY <1>2 DEF AllInv, ConnInv, ConnectionGood
<1>s. ~new.late => /\ v.source \in DOMAIN rows
                   /\ \A e \in Editors : edit[e].pc = "delete" => edit[e].id # v.source
  BY <1>6, Zenon
<1> HIDE DEF new
<1>8. /\ DOMAIN connections' = DOMAIN connections \cup {id} /\ connections'[id] = new
      /\ \A i \in DOMAIN connections : connections'[i] = connections[i]
  BY <1>1, <1>7 DEF Add
<1>9. PlacesKept
  BY <1>1, <1>2, <1>8 DEF PlacesKept, KeepsPlace, Held
<1>10. TripsKept /\ Remembered
  BY <1>1 DEF TripsKept, Remembered
<1>11. visit' = [d \in Callers |-> IF d = c THEN visit'[c] ELSE visit[d]]
  BY <1>1 DEF AllInv, IInv, WellFormed
<1>12. VisitGood(c)'
  <2>1. CASE v.trip = 0
    <3>1. visit'[c] = Idle
      BY <1>1, <2>1 DEF AllInv, IInv, WellFormed
    <3> QED
      BY <3>1, IdleVisit, IdleGood
  <2>2. CASE v.trip # 0
    <3> DEFINE to == Found(c, id)
    <3>1. to.pc = "tokens" /\ "trip" \in DOMAIN to /\ to.trip = v.trip /\ to.id = id
      BY DEF Found
    <3>2. visit'[c] = to
      BY <1>1, <2>2 DEF AllInv, IInv, WellFormed
    <3> HIDE DEF to
    <3>3. /\ v.trip \in DOMAIN trips /\ v.scope = trips[v.trip].scope
          /\ Answered(trips[v.trip].slug, v.source)
      BY <1>2, <2>2 DEF Creating, OnTrip
    <3>4. Belonging(v.trip, v.source)
      BY <3>3, AnsweredBelongs
    <3>5. Chosen(c)'
      BY <1>1, <1>2, <1>6, <1>8, <3>1, <3>2, <3>3, <3>4 DEF Chosen, Serves, Belonging, Held
    <3> QED
      BY <3>1, <3>2, <3>5 DEF VisitGood
  <2> QED
    BY <2>1, <2>2
<1>13. \A d \in Callers : VisitGood(d)'
  <2> SUFFICES ASSUME NEW d \in Callers, d # c PROVE VisitGood(d)'
    BY <1>12
  <2>1. visit'[d] = visit[d]
    BY <1>11
  <2> QED
    BY <1>9, <1>10, <2>1, VisitStays
<1>14. ASSUME NEW i \in DOMAIN connections'
       PROVE  ConnectionGood(i)' /\ Standing(i)'
  <2>1. CASE i \in DOMAIN connections
    <3>1. ConnectionGood(i) /\ Standing(i) /\ connections'[i] = connections[i]
      BY <1>8, <2>1 DEF AllInv, ConnInv
    <3>2. TokensGood(i)'
      BY <1>1, <3>1 DEF ConnectionGood, TokensGood, Belonging, Held
    <3>3. ConnectionGood(i)'
      BY <1>1, <1>2, <3>1, <3>2 DEF ConnectionGood, Answered, Held
    <3>4. Standing(i)'
      BY <1>1, <3>1 DEF Standing, Held
    <3> QED
      BY <3>3, <3>4
  <2>2. CASE i = id
    <3>1. TokensGood(i)'
      BY <1>6, <1>8, <2>2 DEF TokensGood, Held
    <3>2. ConnectionGood(i)'
      BY <1>1, <1>2, <1>3, <1>6, <1>8, <2>2, <3>1 DEF ConnectionGood, Answered, Held
    <3>3. Standing(i)'
      BY <1>1, <1>6, <1>s, <1>8, <2>2 DEF Standing, Held
    <3> QED
      BY <3>2, <3>3
  <2> QED
    BY <1>8, <2>1, <2>2
<1>15. NoDuplicates'
  <2> SUFFICES ASSUME NEW i \in DOMAIN connections', NEW d \in DOMAIN connections', i < d,
                      connections'[i].dataSourceId = connections'[d].dataSourceId,
                      connections'[i].scope = connections'[d].scope
               PROVE  i > connections'[d].seen \/ connections'[i].scope = "system"
    BY DEF NoDuplicates, Held
  <2>1. i \in Nat /\ d \in Nat /\ i <= id /\ d <= id
    BY <1>1, <1>14, <1>2 DEF ConnectionGood
  <2>2. i \in DOMAIN connections
    BY <1>8, <2>1
  <2>3. CASE d \in DOMAIN connections
    BY <1>8, <2>2, <2>3 DEF AllInv, ConnInv, NoDuplicates, Held
  <2>4. CASE d = id
    <3>1. i <= v.seen => Held(i).scope # Sought(v.user)
      BY <1>2, <1>6, <1>8, <2>2, <2>4 DEF Looked, Held
    <3>2. Held(i).scope = v.scope /\ connections'[i].scope = v.scope /\ connections'[d].seen = v.seen
      BY <1>6, <1>8, <2>2, <2>4 DEF Held
    <3>3. v.scope # "system" => Sought(v.user) = v.scope
      BY <1>2, <1>3 DEF Creating, Owners
    <3> QED
      BY <1>3, <2>1, <3>1, <3>2, <3>3
  <2> QED
    BY <1>8, <2>3, <2>4
<1>16. made' \in Nat /\ visits' \in Nat /\ \A n \in DOMAIN trips' : trips'[n].scope \in Asked
  BY <1>1, <1>2 DEF AllInv, ConnInv
<1> QED
  BY <1>13, <1>14, <1>15, <1>16 DEF ConnInv

LEMMA StoreTokensKeeps ==
  ASSUME AllInv, NEW c \in Callers, StoreTokens(c)
  PROVE  ConnInv'
<1>1. PICK n, id : visit[c].trip = n /\ visit[c].id = id
  OBVIOUS
<1>2. /\ visit[c].pc = "tokens" /\ made' = made /\ trips' = trips /\ visits' = visits
      /\ rows' = rows /\ stamp' = stamp /\ edit' = edit
      /\ visit' = [visit EXCEPT ![c] = Idle]
      /\ connections' = IF id \in DOMAIN connections
                          THEN [connections EXCEPT ![id].tokens = n, ![id].status = "active"]
                          ELSE connections
  BY <1>1 DEF StoreTokens, Moves
<1>3. /\ n \in DOMAIN trips
      /\ id \in DOMAIN connections =>
           Serves(Held(id).scope, trips[n].scope) /\ Belonging(n, Held(id).dataSourceId)
  BY <1>1, <1>2 DEF AllInv, ConnInv, VisitGood, Chosen
<1>4. \A d \in Callers : visit'[d] = visit[d] \/ VisitGood(d)'
  <2>1. \A d \in Callers : visit'[d] = visit[d] \/ visit'[d].pc = "idle"
    BY <1>2, IdleGood DEF AllInv, IInv, WellFormed
  <2> QED
    BY <2>1, IdleVisit
<1>5. TripsKept /\ Remembered /\ visits' \in Nat
  BY <1>2 DEF TripsKept, Remembered, AllInv, ConnInv
<1>6. \A i \in DOMAIN connections : Held(i) \in Connection
  BY DEF AllInv, ConnInv, ConnectionGood
<1>7. CASE id \notin DOMAIN connections
  <2>1. \A i \in DOMAIN connections : Standing(i) => Standing(i)'
    BY <1>2, <1>7 DEF Standing, Held
  <2> QED
    BY <1>2, <1>4, <1>5, <1>7, <2>1, ApartStep
<1>8. CASE id \in DOMAIN connections
  <2> DEFINE old == Held(id)
             new == [old EXCEPT !.tokens = n, !.status = "active"]
  <2>1. old \in Connection /\ n \in Nat
    <3>1. DOMAIN trips \subseteq Nat
      BY DEF AllInv, IInv, WellFormed, Lined
    <3> QED
      BY <1>3, <1>6, <1>8, <3>1
  <2>2. connections' = [connections EXCEPT ![id] = new]
    BY <1>2, <1>8 DEF Held
  <2> HIDE DEF old
  <2>3. /\ new \in Connection /\ new.tokens = n /\ new.dataSourceId = old.dataSourceId
        /\ new.scope = old.scope /\ new.providerSlug = old.providerSlug
        /\ new.late = old.late /\ new.seen = old.seen
    BY <2>1 DEF Connection
  <2> HIDE DEF new
  <2>4. /\ DOMAIN connections' = DOMAIN connections /\ connections'[id] = new
        /\ \A i \in DOMAIN connections \ {id} : connections'[i] = connections[i]
    BY <1>8, <2>2
  <2>5. TokensGood(id)'
    BY <1>2, <1>3, <1>8, <2>3, <2>4 DEF TokensGood, Belonging, Held, old
  <2>6. \A i \in DOMAIN connections' :
          /\ i \in DOMAIN connections /\ KeepsPlace(i) /\ connections'[i] \in Connection
          /\ connections'[i].tokens = Held(i).tokens \/ TokensGood(i)'
    BY <1>6, <1>8, <2>3, <2>4, <2>5 DEF KeepsPlace, Held, old
  <2>7. \A i \in DOMAIN connections' : Standing(i) => Standing(i)'
    BY <1>2, <1>8, <2>3, <2>4 DEF Standing, Held, old
  <2> QED
    BY <1>2, <1>4, <1>5, <2>6, <2>7, ConnStep
<1> QED
  BY <1>7, <1>8

LEMMA UpdateKeeps ==
  ASSUME AllInv, NEW id \in DOMAIN connections, Update(id)
  PROVE  ConnInv'
<1>1. PICK body \in Bodies :
        /\ Visits
        /\ connections' = [connections EXCEPT
             ![id].apiKey = @ \/ body.apiKey,
             ![id].status = IF body.status # "" THEN body.status
                            ELSE IF body.apiKey THEN "active" ELSE @]
        /\ UNCHANGED <<rows, integrations, edit, edits, stamp, visit, states, configs, made, trips>>
  BY DEF Update
<1> DEFINE old == Held(id)
           status == IF body.status # "" THEN body.status
                     ELSE IF body.apiKey THEN "active" ELSE old.status
           key == old.apiKey \/ body.apiKey
           new == [old EXCEPT !.apiKey = key, !.status = status]
<1>2. \A i \in DOMAIN connections : Held(i) \in Connection
  BY DEF AllInv, ConnInv, ConnectionGood
<1>3. /\ old \in Connection /\ body.apiKey \in BOOLEAN
      /\ body.status \in {"", "active", "pending", "revoked"}
  BY <1>2, ConnectionAssumption DEF ConnectionAssumption
<1>4. key \in BOOLEAN /\ status \in {"active", "pending", "revoked"}
  BY <1>3 DEF Connection
<1>5. connections' = [connections EXCEPT ![id] = new]
  BY <1>1 DEF Held
<1> HIDE DEF old, key, status
<1>6. /\ new \in Connection /\ new.tokens = old.tokens /\ new.dataSourceId = old.dataSourceId
      /\ new.scope = old.scope /\ new.providerSlug = old.providerSlug
      /\ new.late = old.late /\ new.seen = old.seen
  BY <1>3, <1>4 DEF Connection
<1> HIDE DEF new
<1>7. /\ DOMAIN connections' = DOMAIN connections /\ connections'[id] = new
      /\ \A i \in DOMAIN connections \ {id} : connections'[i] = connections[i]
  BY <1>5
<1>8. \A i \in DOMAIN connections' :
        /\ i \in DOMAIN connections /\ KeepsPlace(i) /\ connections'[i] \in Connection
        /\ connections'[i].tokens = Held(i).tokens
  BY <1>2, <1>6, <1>7 DEF KeepsPlace, Held, old
<1>9. \A i \in DOMAIN connections' : Standing(i) => Standing(i)'
  BY <1>1, <1>6, <1>7 DEF Standing, Held, old
<1>10. TripsKept /\ Remembered /\ visits' \in Nat /\ made' = made /\ trips' = trips /\ visit' = visit
  BY <1>1 DEF TripsKept, Remembered, AllInv, ConnInv, Visits
<1> QED
  BY <1>8, <1>9, <1>10, ConnStep

LEMMA RemoveKeeps ==
  ASSUME AllInv, NEW id \in DOMAIN connections, Remove(id)
  PROVE  ConnInv'
<1>1. /\ visits' \in Nat /\ trips' = trips /\ visit' = visit /\ made' = made
      /\ rows' = rows /\ edit' = edit /\ stamp' = stamp
      /\ connections' = Without(connections, id)
  BY DEF Remove, Visits, AllInv, ConnInv
<1>2. TripsKept /\ Remembered
  BY <1>1 DEF TripsKept, Remembered
<1>3. \A i \in DOMAIN connections' : i \in DOMAIN connections /\ connections'[i] = connections[i]
  BY <1>1 DEF Without
<1>4. \A i \in DOMAIN connections' :
        /\ i \in DOMAIN connections /\ KeepsPlace(i) /\ connections'[i] \in Connection
        /\ connections'[i].tokens = Held(i).tokens
        /\ Standing(i) => Standing(i)'
  BY <1>1, <1>3 DEF KeepsPlace, Held, AllInv, ConnInv, ConnectionGood, Standing
<1> QED
  BY <1>1, <1>2, <1>4, ConnStep

LEMMA RestartKeeps ==
  ASSUME AllInv, Restart
  PROVE  ConnInv' /\ SourceInv'
<1>1. /\ visits' \in Nat /\ trips' = trips /\ made' = made /\ connections' = connections
      /\ rows' = rows /\ stamp' = stamp /\ integrations' = integrations /\ edits' = edits
      /\ \A c \in Callers : visit'[c] = Idle
      /\ edit' = [e \in Editors |-> Idle]
  BY DEF Restart, Visits, AllInv, ConnInv
<1>2. TripsKept /\ Remembered
  BY <1>1 DEF TripsKept, Remembered
<1>3. \A c \in Callers : VisitGood(c)'
  BY <1>1, IdleVisit, IdleGood
<1>4. \A id \in DOMAIN connections : Standing(id) => Standing(id)'
  BY <1>1, IdleGood DEF Standing, Held
<1>5. SourceInv'
  BY <1>1, IdleGood DEF AllInv, SourceInv
<1> QED
  BY <1>1, <1>2, <1>3, <1>4, <1>5, ApartStep

\* A data source with connections is not deleted: they were counted, and none
\* has come since but with a mark.
LEMMA SourceStands ==
  ASSUME AllInv, SourceNext, NEW id \in DOMAIN connections, Standing(id)
  PROVE  Standing(id)'
<1>1. connections' = connections
  BY SourceKeeps DEF AllInv
<1>2. SUFFICES ASSUME ~Held(id).late
               PROVE  /\ Held(id).dataSourceId \in DOMAIN rows'
                      /\ \A e \in Editors : edit'[e].pc = "delete" => edit'[e].id # Held(id).dataSourceId
  BY <1>1 DEF Standing, Held
<1>3. /\ Held(id).dataSourceId \in DOMAIN rows
      /\ \A e \in Editors : edit[e].pc = "delete" => edit[e].id # Held(id).dataSourceId
  BY <1>2 DEF Standing
<1>4. edit = [e \in Editors |-> edit[e]]
  BY DEF AllInv, SourceInv
<1>5. ASSUME NEW e \in Editors, EditorLooks(e)
      PROVE  /\ Held(id).dataSourceId \in DOMAIN rows'
             /\ \A d \in Editors : edit'[d].pc = "delete" => edit'[d].id # Held(id).dataSourceId
  <2>1. PICK to : /\ Turns(e, to)
                  /\ to.pc = "delete" => \A c \in DOMAIN connections : connections[c].dataSourceId # to.id
    BY <1>5, LooksTurn DEF AllInv
  <2>2. edit' = [d \in Editors |-> IF d = e THEN to ELSE edit[d]] /\ rows' = rows
    BY <1>4, <2>1 DEF Turns
  <2> QED
    BY <1>3, <2>1, <2>2 DEF Held
<1>6. ASSUME NEW e \in Editors, Insert(e) \/ WriteUpdate(e) \/ WriteCatalogRow(e)
      PROVE  /\ Held(id).dataSourceId \in DOMAIN rows'
             /\ \A d \in Editors : edit'[d].pc = "delete" => edit'[d].id # Held(id).dataSourceId
  <2>1. DOMAIN rows \subseteq DOMAIN rows'
    BY <1>6, InsertKeeps, WriteUpdateKeeps, WriteCatalogRowKeeps DEF AllInv
  <2>2. edit' = [d \in Editors |-> IF d = e THEN Idle ELSE edit[d]]
    BY <1>4, <1>6 DEF Insert, WriteUpdate, WriteCatalogRow, Write, Step
  <2> QED
    BY <1>3, <2>1, <2>2, IdleGood
<1>7. ASSUME NEW e \in Editors, Delete(e)
      PROVE  /\ Held(id).dataSourceId \in DOMAIN rows'
             /\ \A d \in Editors : edit'[d].pc = "delete" => edit'[d].id # Held(id).dataSourceId
  <2>1. DOMAIN rows' = DOMAIN rows \ {edit[e].id} /\ edit[e].pc = "delete"
    BY <1>7, DeleteKeeps DEF AllInv, Delete
  <2>2. edit' = [d \in Editors |-> IF d = e THEN Idle ELSE edit[d]]
    BY <1>4, <1>7 DEF Delete, Step
  <2> QED
    BY <1>3, <2>1, <2>2, IdleGood
<1>8. ASSUME NEW i, Integrate(i) \/ Disintegrate(i)
      PROVE  /\ Held(id).dataSourceId \in DOMAIN rows'
             /\ \A d \in Editors : edit'[d].pc = "delete" => edit'[d].id # Held(id).dataSourceId
  BY <1>3, <1>8 DEF Integrate, Disintegrate
<1> QED
  BY <1>5, <1>6, <1>7, <1>8 DEF SourceNext, EditorLooks

\* A step that leaves everything here alone, or lets a state expire.
LEMMA StillStep ==
  ASSUME AllInv, visits' = visits, made' = made, trips' = trips, visit' = visit,
         connections' = connections, UNCHANGED <<rows, integrations, stamp, edit, edits>>
  PROVE  ConnInv' /\ SourceInv'
<1>1. SourceInv'
  BY DEF AllInv, SourceInv
<1>2. \A id \in DOMAIN connections : Standing(id) => Standing(id)'
  BY DEF Standing, Held
<1>3. TripsKept /\ Remembered /\ visits' \in Nat
  BY DEF TripsKept, Remembered, AllInv, ConnInv
<1> QED
  BY <1>1, <1>2, <1>3, ApartStep

\* The requests leave the rows alone.
LEMMA RowsAlone ==
  ASSUME AllInv, UNCHANGED <<rows, integrations, stamp, edit, edits>>
  PROVE  SourceInv'
BY DEF AllInv, SourceInv

LEMMA ProceedKeeps ==
  ASSUME AllInv, NEW c \in Callers, Proceed(c)
  PROVE  ConnInv' /\ SourceInv'
<1>1. UNCHANGED <<rows, integrations, stamp, edit, edits>>
  BY DEF Proceed, StartFill, Exchange, FindBySlug, FindSource, FindByDataSource, Resolve,
         CheckDuplicate, Conflict, InsertConnection, StoreTokens, InvalidScope, NoSource, QueryFails, Goes, Moves,
         sourceVars
<1>3. SourceInv'
  BY <1>1, RowsAlone
<1>2. CASE Conflict(c) \/ InvalidScope(c) \/ NoSource(c)
  <2>1. \E from : Goes(c, from, Idle)
    BY <1>2 DEF Conflict, InvalidScope, NoSource
  <2> QED
    BY <1>3, <2>1, EndsStep
<1> QED
  BY <1>2, <1>3, StartFillStep, ExchangeKeeps, FindBySlugKeeps, FindSourceKeeps,
     FindByDataSourceKeeps, ResolveKeeps, CheckDuplicateKeeps, InsertConnectionKeeps,
     StoreTokensKeeps, QueryFailsKeeps DEF Proceed

LEMMA AllKept == AllInv /\ [Next]_vars => AllInv'
<1> SUFFICES ASSUME AllInv, [Next]_vars PROVE ConnInv' /\ SourceInv'
  BY Kept DEF AllInv
<1>1. ASSUME NEW c \in Callers, StartCached(c) \/ StartRead(c) \/ Callback(c) \/ CreateResolve(c)
      PROVE  ConnInv' /\ SourceInv'
  <2>1. UNCHANGED <<rows, integrations, stamp, edit, edits>>
    BY <1>1 DEF StartCached, StartRead, Callback, CreateResolve, Arrives, sourceVars
  <2> QED
    BY <1>1, <2>1, RowsAlone, StartCachedStep, StartReadStep, CallbackKeeps, CreateResolveKeeps
<1>2. ASSUME NEW c \in Callers, Proceed(c) PROVE ConnInv' /\ SourceInv'
  BY <1>2, ProceedKeeps
<1>3. ASSUME NEW n \in states, Expire(n) PROVE ConnInv' /\ SourceInv'
  BY <1>3, StillStep DEF Expire, sourceVars
<1>4. ASSUME NEW id \in DOMAIN connections, Update(id) \/ Remove(id)
      PROVE  ConnInv' /\ SourceInv'
  BY <1>4, RowsAlone, UpdateKeeps, RemoveKeeps DEF Update, Remove
<1>5. CASE Restart
  BY <1>5, RestartKeeps
<1>6. CASE SourceNext /\ UNCHANGED oauthVars
  <2>1. /\ SourceInv' /\ Remembered /\ connections' = connections
        /\ \A id \in DOMAIN connections : Standing(id) => Standing(id)'
    BY <1>6, SourceKeeps, SourceStands DEF AllInv
  <2>2. TripsKept /\ visits' \in Nat /\ made' = made /\ trips' = trips /\ visit' = visit
    BY <1>6 DEF oauthVars, TripsKept, AllInv, ConnInv
  <2> QED
    BY <2>1, <2>2, ApartStep
<1>7. CASE UNCHANGED vars
  BY <1>7, StillStep DEF vars, sourceVars, oauthVars
<1> QED
  BY <1>1, <1>2, <1>3, <1>4, <1>5, <1>6, <1>7 DEF Next

LEMMA AllBegun == Init => AllInv
<1> SUFFICES ASSUME Init PROVE AllInv
  OBVIOUS
<1>1. /\ rows \in Seq(Row) /\ connections = <<>> /\ trips = <<>> /\ made = 0 /\ visits = 0
      /\ visit = [c \in Callers |-> Idle] /\ edit = [e \in Editors |-> Idle] /\ edits = 1
      /\ integrations = {}
      /\ stamp = [id \in DOMAIN rows |-> Stamp(1, 1, Unchecked, NamesOf(rows[id]))]
  BY CatalogueAssumption DEF CatalogueAssumption, Init, SourceInit
<1>2. \A id \in DOMAIN rows : rows[id] \in Row /\ stamp[id].names = NamesOf(rows[id])
  BY <1>1 DEF Stamp
<1>3. \E n \in Nat : DOMAIN stamp = 1..n
  BY <1>1
<1>4. stamp = [i \in DOMAIN stamp |-> stamp[i]] /\ DOMAIN stamp = DOMAIN rows
  BY <1>1
<1>5. SourceInv
  BY <1>1, <1>2, <1>3, <1>4, IdleGood DEF SourceInv
<1>6. \A c \in Callers : VisitGood(c)
  BY <1>1, IdleGood DEF VisitGood
<1>7. ConnInv
  BY <1>1, <1>6 DEF ConnInv, NoDuplicates
<1> QED
  BY <1>5, <1>7, Begun DEF AllInv

LEMMA AlwaysAllInv == Spec => []AllInv
BY AllBegun, AllKept, PTL DEF Spec

\* Every document has its type, and every state that can be called back has its
\* round trip and its configuration in the cache.
THEOREM DocumentsAreTyped == Spec => []TypeOK
<1>1. AllInv => TypeOK
  <2> SUFFICES ASSUME AllInv PROVE TypeOK
    OBVIOUS
  <2>1. \A id \in DOMAIN connections : id \in 1..made /\ Held(id) \in Connection
    BY DEF AllInv, ConnInv, ConnectionGood
  <2> QED
    BY <2>1 DEF TypeOK, AllInv, SourceInv, IInv, StatesNew
<1> QED
  BY <1>1, AlwaysAllInv, PTL

\* The tokens of a round trip are in a connection that serves its scope, with
\* the data source whose client got them, or another has answered to the slug.
THEOREM TokensAreAtHome == Spec => []TokensBelong
<1>1. AllInv => TokensBelong
  BY DEF AllInv, ConnInv, ConnectionGood, TokensGood, Belonging, TokensBelong
<1> QED
  BY <1>1, AlwaysAllInv, PTL

(***************************************************************************)
(* A round trip that is alone.  The codes of round trips are with at most  *)
(* one request; their numbers are in no connection as long as they may     *)
(* still be used; so connections that have changed since a callback looked *)
(* at them are never again as they were.                                   *)
(***************************************************************************)
Carried(c) == IF "trip" \in DOMAIN visit[c] THEN visit[c].trip ELSE 0

Open == (states \cup {Carried(c) : c \in Callers}) \ {0}

\* The tokens of this round trip are where they will be.
Past(n) == n \in 0..Len(trips) /\ n \notin Open

CarriedOnce ==
  \A c \in Callers :
    Carried(c) # 0 =>
      /\ Carried(c) \in DOMAIN trips /\ Carried(c) \notin states
      /\ \A d \in Callers \ {c} : Carried(d) # Carried(c)

\* What a callback remembers is of an earlier moment.
Recalls(c) ==
  "since" \in DOMAIN visit[c] =>
    \E v \in Nat, e \in Nat : \E m :
      /\ visit[c].since = <<v, m, e>>
      /\ v <= visits /\ e <= edits
      /\ \A id \in DOMAIN m : id \in 1..made /\ Past(m[id].tokens)

Alone(c) == "since" \in DOMAIN visit[c] /\ visit[c].since = Moment

Nobody(source, scope) ==
  \A id \in DOMAIN connections : Held(id).dataSourceId = source => ~Active(id, scope)

\* What a callback that is alone has found out.
Told(c) ==
  Alone(c) =>
    /\ visit[c].pc = "by id" => visit[c].source \in Matches(visit[c].slug)
    /\ visit[c].pc = "resolve" =>
         \/ Matches(visit[c].slug) = {}
         \/ \E s \in Matches(visit[c].slug) : Nobody(s, Sought(visit[c].user))
    /\ visit[c].pc = "duplicate" =>
         /\ visit[c].source \in Matches(visit[c].slug)
         /\ \E s \in Matches(visit[c].slug) : Nobody(s, Sought(visit[c].user))

OpenInv ==
  /\ CarriedOnce
  /\ \A id \in DOMAIN connections : Past(Held(id).tokens)
  /\ \A c \in Callers : Recalls(c) /\ Told(c)

\* No trip is opened again.
Opens ==
  /\ Len(trips) <= Len(trips')
  /\ states' \subseteq states \cup (DOMAIN trips' \ DOMAIN trips)

LEMMA TripNumbers ==
  ASSUME AllInv
  PROVE  Len(trips) \in Nat /\ DOMAIN trips = 1..Len(trips) /\ states \subseteq 1..Len(trips)
BY DEF AllInv, IInv, WellFormed, Lined, StatesNew

LEMMA OpensPast ==
  ASSUME AllInv, AllInv', OpenInv, Opens, \A c \in Callers : Carried(c)' \in {0, Carried(c)}
  PROVE  CarriedOnce' /\ \A n : Past(n) => Past(n)'
<1>1. /\ Len(trips) \in Nat /\ DOMAIN trips = 1..Len(trips)
      /\ Len(trips') \in Nat /\ DOMAIN trips' = 1..Len(trips')
  BY TripNumbers
<1>2. CarriedOnce'
  BY <1>1 DEF CarriedOnce, OpenInv, Opens
<1>3. \A n \in 0..Len(trips) : n \in Open' => n \in Open
  BY <1>1 DEF Open, Opens
<1> QED
  BY <1>1, <1>2, <1>3 DEF Past, Opens

\* A request that stays where it is, while something else happens.
LEMMA Quiet ==
  ASSUME NEW c, Recalls(c), visit'[c] = visit[c], Alone(c)', visits \in Nat, edits \in Nat
  PROVE  /\ "since" \in DOMAIN visit[c]
         /\ visits' <= visits /\ edits' <= edits
         /\ \A id \in DOMAIN connections' : id \in 1..made /\ Past(connections'[id].tokens)
<1>1. "since" \in DOMAIN visit[c] /\ visit[c].since = <<visits', connections', edits'>>
  BY DEF Alone, Moment
<1>2. PICK v, e, m :
        /\ v \in Nat /\ e \in Nat
        /\ visit[c].since = <<v, m, e>>
        /\ v <= visits /\ e <= edits
        /\ \A id \in DOMAIN m : id \in 1..made /\ Past(m[id].tokens)
  BY <1>1 DEF Recalls
<1>3. v = visits' /\ m = connections' /\ e = edits'
  BY <1>1, <1>2
<1> QED
  BY <1>1, <1>2, <1>3

LEMMA ToldStays ==
  ASSUME NEW c, Told(c), visit'[c] = visit[c], rows' = rows, connections' = connections,
         Alone(c)' => visits' = visits /\ edits' = edits
  PROVE  Told(c)'
<1>1. \A slug : Matches(slug)' = Matches(slug)
  BY DEF Matches
<1>2. \A source, scope : Nobody(source, scope) => Nobody(source, scope)'
  BY DEF Nobody, Active, Held
<1>3. Alone(c)' => Alone(c)
  BY DEF Alone, Moment
<1> QED
  BY <1>1, <1>2, <1>3 DEF Told

\* What happened did change something, or it has not touched what the request
\* knows.
Undisturbed(c) ==
  visit'[c] = visit[c] /\ Alone(c)' =>
    rows' = rows /\ connections' = connections /\ visits' = visits /\ edits' = edits

LEMMA RecallsStays ==
  ASSUME NEW c, Recalls(c), \A n : Past(n) => Past(n)',
         "since" \in DOMAIN visit'[c] =>
           "since" \in DOMAIN visit[c] /\ visit'[c].since = visit[c].since,
         visits \in Nat, edits \in Nat, made \in Nat, visits' \in Nat, edits' \in Nat, made' \in Nat,
         visits <= visits', edits <= edits', made <= made'
  PROVE  Recalls(c)'
<1> SUFFICES ASSUME "since" \in DOMAIN visit'[c]
             PROVE  \E v \in Nat, e \in Nat : \E m :
                      /\ visit'[c].since = <<v, m, e>>
                      /\ v <= visits' /\ e <= edits'
                      /\ \A id \in DOMAIN m : id \in 1..made' /\ Past(m[id].tokens)'
  BY DEF Recalls
<1>1. PICK v, e, m :
        /\ v \in Nat /\ e \in Nat
        /\ visit[c].since = <<v, m, e>>
        /\ v <= visits /\ e <= edits
        /\ \A id \in DOMAIN m : id \in 1..made /\ Past(m[id].tokens)
  BY DEF Recalls
<1>2. v <= visits' /\ e <= edits'
  BY <1>1
<1>3. \A id \in DOMAIN m : id \in 1..made' /\ Past(m[id].tokens)'
  BY <1>1
<1> QED
  BY <1>1, <1>2, <1>3

LEMMA OpenStep ==
  ASSUME AllInv, AllInv', OpenInv, Opens,
         visits <= visits', edits <= edits', made <= made',
         \A c \in Callers : Carried(c)' \in {0, Carried(c)},
         \A c \in Callers : visit'[c] = visit[c] \/ (Recalls(c)' /\ Told(c)'),
         \A c \in Callers : Undisturbed(c),
         \A id \in DOMAIN connections' :
           \/ id \in DOMAIN connections /\ connections'[id].tokens = Held(id).tokens
           \/ \E n : connections'[id].tokens = n /\ Past(n)'
  PROVE  OpenInv'
<1>1. CarriedOnce' /\ \A n : Past(n) => Past(n)'
  BY OpensPast
<1>2. /\ visits \in Nat /\ edits \in Nat /\ made \in Nat
      /\ visits' \in Nat /\ edits' \in Nat /\ made' \in Nat
  BY DEF AllInv, ConnInv, SourceInv
<1>3. ASSUME NEW id \in DOMAIN connections' PROVE Past(Held(id).tokens)'
  <2>1. PICK n : n = connections'[id].tokens
    OBVIOUS
  <2>2. Past(n)'
    BY <1>1, <2>1 DEF OpenInv, Held
  <2> QED
    BY <2>1, <2>2 DEF Held
<1>4. ASSUME NEW c \in Callers, visit'[c] = visit[c] PROVE Recalls(c)' /\ Told(c)'
  <2>1. Recalls(c) /\ Told(c)
    BY DEF OpenInv
  <2>2. Recalls(c)'
    BY <1>1, <1>2, <1>4, <2>1, RecallsStays
  <2>3. ASSUME Alone(c)' PROVE Told(c)'
    <3>1. /\ rows' = rows /\ connections' = connections
          /\ visits' = visits /\ edits' = edits
      BY <1>4, <2>3 DEF Undisturbed
    <3> QED
      BY <1>4, <2>1, <3>1, ToldStays
  <2>4. ~Alone(c)' => Told(c)'
    BY DEF Told
  <2> QED
    BY <2>2, <2>3, <2>4
<1> QED
  BY <1>1, <1>3, <1>4 DEF OpenInv

(*****************************************************************************)
(* Every step, for round trips that are alone.                               *)
(*****************************************************************************)
LEMMA Unremembered ==
  ASSUME NEW c, "since" \notin DOMAIN visit'[c]
  PROVE  Recalls(c)' /\ Told(c)'
BY DEF Recalls, Told, Alone

LEMMA Disturbs ==
  ASSUME AllInv, OpenInv, NEW c \in Callers,
         \/ visits' = visits + 1 \/ edits' = edits + 1 \/ made + 1 \in DOMAIN connections'
         \/ \E id \in DOMAIN connections' : connections'[id].tokens \in Open
  PROVE  Undisturbed(c)
<1> SUFFICES ASSUME visit'[c] = visit[c], Alone(c)' PROVE FALSE
  BY DEF Undisturbed
<1>1. Recalls(c) /\ visits \in Nat /\ edits \in Nat /\ made \in Nat
  BY DEF OpenInv, AllInv, ConnInv, SourceInv
<1>2. /\ visits' <= visits /\ edits' <= edits
      /\ \A id \in DOMAIN connections' : id \in 1..made /\ Past(connections'[id].tokens)
  BY <1>1, Quiet
<1> QED
  BY <1>1, <1>2 DEF Past

LEMMA NothingElse ==
  ASSUME rows' = rows, connections' = connections, visits' = visits, edits' = edits, NEW c
  PROVE  Undisturbed(c)
BY DEF Undisturbed

\* A request goes on, or ends.
LEMMA GoOpen ==
  ASSUME AllInv, AllInv', OpenInv, NEW c \in Callers, NEW from, NEW to, Goes(c, from, to),
         "trip" \in DOMAIN to => "trip" \in DOMAIN visit[c] /\ to.trip = visit[c].trip,
         "since" \in DOMAIN to => "since" \in DOMAIN visit[c] /\ to.since = visit[c].since,
         Told(c)'
  PROVE  OpenInv'
<1>1. /\ rows' = rows /\ connections' = connections /\ visits' = visits /\ edits' = edits
      /\ made' = made /\ trips' = trips /\ states' = states /\ visit' = [visit EXCEPT ![c] = to]
  BY DEF Goes, Moves
<1>2. visit' = [d \in Callers |-> IF d = c THEN to ELSE visit[d]]
  BY <1>1 DEF AllInv, IInv, WellFormed
<1>3. visits \in Nat /\ edits \in Nat /\ made \in Nat
  BY DEF AllInv, ConnInv, SourceInv
<1>4. Opens
  BY <1>1, TripNumbers DEF Opens
<1>5. \A d \in Callers : Carried(d)' \in {0, Carried(d)}
  BY <1>2 DEF Carried
<1>6. Recalls(c)'
  <2>1. \A n : Past(n) => Past(n)'
    BY <1>4, <1>5, OpensPast
  <2>2. Recalls(c)
    BY DEF OpenInv
  <2> QED
    BY <1>1, <1>2, <1>3, <2>1, <2>2, RecallsStays
<1>7. \A d \in Callers : visit'[d] = visit[d] \/ (Recalls(d)' /\ Told(d)')
  BY <1>2, <1>6
<1>8. \A d \in Callers : Undisturbed(d)
  BY <1>1, NothingElse
<1>9. \A id \in DOMAIN connections' :
        id \in DOMAIN connections /\ connections'[id].tokens = Held(id).tokens
  BY <1>1 DEF Held
<1>10. visits <= visits' /\ edits <= edits' /\ made <= made'
  BY <1>1, <1>3
<1> QED
  BY <1>4, <1>5, <1>7, <1>8, <1>9, <1>10, OpenStep

\* What it has found out stays.
LEMMA StillTold ==
  ASSUME NEW from, NEW c, NEW to, Goes(c, from, to)
  PROVE  /\ \A slug : Matches(slug)' = Matches(slug)
         /\ \A source, scope : Nobody(source, scope) => Nobody(source, scope)'
         /\ Moment' = Moment
<1>1. rows' = rows /\ connections' = connections /\ visits' = visits /\ edits' = edits
  BY DEF Goes, Moves
<1> QED
  BY <1>1 DEF Matches, Nobody, Active, Held, Moment

LEMMA CarriedOn ==
  ASSUME AllInv, NEW c \in Callers, NEW to, Carries(c, to)
  PROVE  /\ "trip" \in DOMAIN visit[c] => to.trip = visit[c].trip
         /\ "since" \in DOMAIN visit[c] => to.since = visit[c].since
         /\ "slug" \in DOMAIN visit[c] => to.slug = visit[c].slug
         /\ "user" \in DOMAIN visit[c] => to.user = visit[c].user
BY DEF Carries

\* A request that has no more to tell.
LEMMA EndsOpen ==
  ASSUME AllInv, AllInv', OpenInv, NEW c \in Callers, NEW from, NEW to, Goes(c, from, to),
         "trip" \in DOMAIN to => "trip" \in DOMAIN visit[c] /\ to.trip = visit[c].trip,
         "since" \in DOMAIN to => "since" \in DOMAIN visit[c] /\ to.since = visit[c].since,
         to.pc \notin {"by id", "resolve", "duplicate"}
  PROVE  OpenInv'
<1>1. visit'[c] = to
  BY Going2
<1>2. Told(c)'
  BY <1>1 DEF Told
<1> QED
  BY <1>2, GoOpen

LEMMA FoundOpen ==
  ASSUME AllInv, AllInv', OpenInv, NEW c \in Callers, NEW from, NEW id, Goes(c, from, Found(c, id)),
         "trip" \in DOMAIN visit[c]
  PROVE  OpenInv'
<1> DEFINE to == Found(c, id)
<1>1. DOMAIN to = {"pc", "trip", "id"} /\ to.trip = visit[c].trip /\ to.pc = "tokens"
  BY DEF Found
<1> HIDE DEF to
<1>2. Goes(c, from, to)
  BY DEF to
<1> QED
  BY <1>1, <1>2, EndsOpen

LEMMA FindBySlugOpen ==
  ASSUME AllInv, AllInv', OpenInv, NEW c \in Callers, FindBySlug(c)
  PROVE  OpenInv'
<1>1. OnTrip(c) /\ {"pc", "trip", "since"} \subseteq DOMAIN visit[c]
  BY DEF FindBySlug, AllInv, ConnInv, VisitGood, OnTrip
<1>2. CASE Goes(c, "find", To(c, "source"))
  <2>1. PICK to : to = To(c, "source")
    OBVIOUS
  <2>2. DOMAIN to = DOMAIN visit[c] /\ Carries(c, to) /\ to.pc = "source"
    BY <1>1, <2>1, ToCarries
  <2>3. to.trip = visit[c].trip /\ to.since = visit[c].since
    BY <1>1, <2>2 DEF Carries
  <2> QED
    BY <1>1, <1>2, <2>1, <2>2, <2>3, EndsOpen
<1>3. ASSUME NEW id, Goes(c, "find", Found(c, id)) PROVE OpenInv'
  BY <1>1, <1>3, FoundOpen
<1> QED
  BY <1>2, <1>3 DEF FindBySlug

LEMMA FindSourceOpen ==
  ASSUME AllInv, AllInv', OpenInv, NEW c \in Callers, FindSource(c)
  PROVE  OpenInv'
<1>1. OnTrip(c) /\ {"pc", "trip", "slug", "since"} \subseteq DOMAIN visit[c]
  BY DEF FindSource, AllInv, ConnInv, VisitGood, OnTrip
<1>2. CASE Matches(visit[c].slug) = {} /\ Goes(c, "source", To(c, "resolve"))
  <2>1. PICK to : to = To(c, "resolve")
    OBVIOUS
  <2>2. DOMAIN to = DOMAIN visit[c] /\ Carries(c, to) /\ to.pc = "resolve"
    BY <1>1, <2>1, ToCarries
  <2>3. to.trip = visit[c].trip /\ to.since = visit[c].since /\ to.slug = visit[c].slug
    BY <1>1, <2>2 DEF Carries
  <2>4. Goes(c, "source", to)
    BY <1>2, <2>1
  <2>5. visit'[c] = to /\ Matches(to.slug)' = {}
    BY <1>2, <2>3, <2>4, StillTold, Going2
  <2>6. Told(c)'
    BY <2>2, <2>5 DEF Told
  <2> QED
    BY <1>1, <2>2, <2>3, <2>4, <2>6, GoOpen
<1>3. ASSUME NEW id \in Matches(visit[c].slug), Goes(c, "source", Add(To(c, "by id"), "source", id))
      PROVE  OpenInv'
  <2>1. PICK w : w = To(c, "by id")
    OBVIOUS
  <2>2. DOMAIN w = DOMAIN visit[c] /\ Carries(c, w) /\ w.pc = "by id"
    BY <1>1, <2>1, ToCarries
  <2>3. PICK to : to = Add(w, "source", id)
    OBVIOUS
  <2>4. /\ DOMAIN to = DOMAIN visit[c] \cup {"source"} /\ to.pc = "by id" /\ to.source = id
        /\ to.trip = visit[c].trip /\ to.since = visit[c].since /\ to.slug = visit[c].slug
    BY <1>1, <2>2, <2>3 DEF Carries, Add
  <2>5. Goes(c, "source", to)
    BY <1>3, <2>1, <2>3
  <2>6. visit'[c] = to
    BY <2>5, Going2
  <2>7. id \in Matches(to.slug)'
    BY <1>3, <2>4, <2>5, StillTold
  <2>8. Told(c)'
    BY <2>4, <2>6, <2>7 DEF Told
  <2> QED
    BY <1>1, <2>4, <2>5, <2>8, GoOpen
<1> QED
  BY <1>2, <1>3 DEF FindSource

LEMMA FindByDataSourceOpen ==
  ASSUME AllInv, AllInv', OpenInv, NEW c \in Callers, FindByDataSource(c)
  PROVE  OpenInv'
<1>1. OnTrip(c) /\ {"pc", "trip", "slug", "user", "since"} \subseteq DOMAIN visit[c]
      /\ visit[c].pc = "by id"
  BY DEF FindByDataSource, AllInv, ConnInv, VisitGood, OnTrip
<1>2. CASE Nobody(visit[c].source, Sought(visit[c].user)) /\ Goes(c, "by id", To(c, "resolve"))
  <2>1. PICK to : to = To(c, "resolve")
    OBVIOUS
  <2>2. DOMAIN to = DOMAIN visit[c] /\ Carries(c, to) /\ to.pc = "resolve"
    BY <1>1, <2>1, ToCarries
  <2>3. /\ to.trip = visit[c].trip /\ to.since = visit[c].since /\ to.slug = visit[c].slug
        /\ to.user = visit[c].user
    BY <1>1, <2>2 DEF Carries
  <2>4. Goes(c, "by id", to)
    BY <1>2, <2>1
  <2>5. PICK s : s = visit[c].source
    OBVIOUS
  <2>6. visit'[c] = to /\ Moment' = Moment /\ Nobody(s, Sought(to.user))'
    BY <1>2, <2>3, <2>4, <2>5, StillTold, Going2
  <2>7. Alone(c)' => s \in Matches(to.slug)'
    <3>1. Alone(c)' => Alone(c)
      BY <1>1, <2>3, <2>6 DEF Alone
    <3>2. Alone(c) => s \in Matches(visit[c].slug)
      BY <1>1, <2>5 DEF OpenInv, Told
    <3> QED
      BY <2>3, <2>4, <3>1, <3>2, StillTold
  <2>8. Told(c)'
    BY <2>2, <2>6, <2>7 DEF Told
  <2> QED
    BY <1>1, <2>2, <2>3, <2>4, <2>8, GoOpen
<1>3. ASSUME NEW id, Goes(c, "by id", Found(c, id)) PROVE OpenInv'
  BY <1>1, <1>3, FoundOpen
<1> QED
  BY <1>2, <1>3 DEF FindByDataSource, Nobody

LEMMA ResolveOpen ==
  ASSUME AllInv, AllInv', OpenInv, NEW c \in Callers, Resolve(c)
  PROVE  OpenInv'
<1>1. OnTrip(c) /\ {"pc", "trip", "slug", "user", "since"} \subseteq DOMAIN visit[c]
      /\ visit[c].pc = "resolve"
  BY DEF Resolve, AllInv, ConnInv, VisitGood, OnTrip
<1>2. PICK id \in Matches(visit[c].slug) : Goes(c, "resolve", Resolved(visit[c], id))
  BY DEF Resolve
<1>3. PICK v, to : v = visit[c] /\ to = Resolved(v, id)
  OBVIOUS
<1>4. /\ DOMAIN to = DOMAIN v \cup {"source", "copied"}
      /\ to.pc = "duplicate" /\ to.source = id
      /\ \A f \in DOMAIN v \ {"pc", "source", "copied"} : to[f] = v[f]
  <2>1. "pc" \in DOMAIN v
    BY <1>1, <1>3
  <2>2. LET x == Resolved(v, id)
        IN /\ DOMAIN x = DOMAIN v \cup {"source", "copied"}
           /\ x.pc = "duplicate" /\ x.source = id
           /\ \A f \in DOMAIN v \ {"pc", "source", "copied"} : x[f] = v[f]
    BY <2>1, ResolvedFields
  <2> QED
    BY <1>3, <2>2
<1>5. /\ to.trip = visit[c].trip /\ to.since = visit[c].since /\ to.slug = visit[c].slug
      /\ to.user = visit[c].user
  BY <1>1, <1>3, <1>4
<1>6. Goes(c, "resolve", to)
  BY <1>2, <1>3
<1>7. visit'[c] = to
  BY <1>6, Going2
<1>8. Moment' = Moment /\ id \in Matches(to.slug)'
  BY <1>2, <1>5, <1>6, StillTold
<1>9. Alone(c)' => \E s \in Matches(to.slug)' : Nobody(s, Sought(to.user))'
  <2>1. Alone(c)' => Alone(c)
    BY <1>1, <1>5, <1>7, <1>8 DEF Alone
  <2>2. Alone(c) => \E s \in Matches(visit[c].slug) : Nobody(s, Sought(visit[c].user))
    BY <1>1, <1>2 DEF OpenInv, Told
  <2>3. \A s : Nobody(s, Sought(visit[c].user)) => Nobody(s, Sought(to.user))'
    BY <1>5, <1>6, StillTold
  <2>4. Matches(to.slug)' = Matches(visit[c].slug)
    BY <1>5, <1>6, StillTold
  <2> QED
    BY <2>1, <2>2, <2>3, <2>4
<1>10. Told(c)'
  BY <1>4, <1>7, <1>8, <1>9 DEF Told
<1> QED
  BY <1>1, <1>3, <1>4, <1>5, <1>6, <1>10, GoOpen

LEMMA CheckDuplicateOpen ==
  ASSUME AllInv, AllInv', OpenInv, NEW c \in Callers, CheckDuplicate(c)
  PROVE  OpenInv'
<1>1. {"pc", "trip"} \subseteq DOMAIN visit[c]
  BY DEF CheckDuplicate, AllInv, ConnInv, VisitGood, Creating
<1>2. PICK w : w = To(c, "insert")
  OBVIOUS
<1>3. DOMAIN w = DOMAIN visit[c] /\ Carries(c, w) /\ w.pc = "insert"
  BY <1>1, <1>2, ToCarries
<1>4. PICK to : to = Add(w, "seen", made)
  OBVIOUS
<1>5. /\ DOMAIN to = DOMAIN visit[c] \cup {"seen"} /\ to.pc = "insert"
      /\ to.trip = visit[c].trip
      /\ "since" \in DOMAIN visit[c] => to.since = visit[c].since
  BY <1>1, <1>3, <1>4 DEF Carries, Add
<1>6. Goes(c, "duplicate", to)
  BY <1>2, <1>4 DEF CheckDuplicate
<1> QED
  BY <1>1, <1>5, <1>6, EndsOpen

LEMMA IdleOpen ==
  ASSUME AllInv, AllInv', OpenInv, NEW c \in Callers, NEW from, Goes(c, from, Idle)
  PROVE  OpenInv'
<1>1. DOMAIN Idle = {"pc"} /\ Idle.pc = "idle"
  BY DEF Idle
<1> QED
  BY <1>1, EndsOpen

\* A request that comes or is broken off, and everything else that is counted
\* as a visit or an edit.
LEMMA BetweenOpen ==
  ASSUME AllInv, AllInv', OpenInv, Opens, made' = made,
         \/ visits' = visits + 1 /\ edits <= edits'
         \/ visits' = visits /\ edits' = edits + 1,
         \A c \in Callers :
           \/ visit'[c] = visit[c]
           \/ /\ "since" \notin DOMAIN visit'[c]
              /\ "trip" \in DOMAIN visit'[c] => visit'[c].trip = 0,
         \A id \in DOMAIN connections' :
           id \in DOMAIN connections /\ connections'[id].tokens = Held(id).tokens
  PROVE  OpenInv'
<1>1. visits \in Nat /\ edits \in Nat /\ made \in Nat /\ visits' \in Nat /\ edits' \in Nat
  BY DEF AllInv, ConnInv, SourceInv
<1>2. \A c \in Callers : Carried(c)' \in {0, Carried(c)}
  BY DEF Carried
<1>3. \A c \in Callers : visit'[c] = visit[c] \/ (Recalls(c)' /\ Told(c)')
  BY Unremembered
<1>4. \A c \in Callers : Undisturbed(c)
  BY Disturbs
<1>5. visits <= visits' /\ edits <= edits' /\ made <= made'
  BY <1>1
<1> QED
  BY <1>2, <1>3, <1>4, <1>5, OpenStep

LEMMA ArrivesOpen ==
  ASSUME AllInv, AllInv', OpenInv, Opens, NEW c \in Callers, NEW to, Arrives(c, to), Visits,
         "since" \notin DOMAIN to, "trip" \in DOMAIN to => to.trip = 0
  PROVE  OpenInv'
<1>1. visit' = [d \in Callers |-> IF d = c THEN to ELSE visit[d]]
  BY DEF Arrives, AllInv, IInv, WellFormed
<1>2. /\ visits' = visits + 1 /\ edits' = edits /\ made' = made /\ connections' = connections
  BY DEF Visits, Arrives, sourceVars
<1>3. edits <= edits'
  BY <1>2 DEF AllInv, SourceInv
<1>4. \A id \in DOMAIN connections' :
        id \in DOMAIN connections /\ connections'[id].tokens = Held(id).tokens
  BY <1>2 DEF Held
<1>5. \A d \in Callers :
        \/ visit'[d] = visit[d]
        \/ /\ "since" \notin DOMAIN visit'[d]
           /\ "trip" \in DOMAIN visit'[d] => visit'[d].trip = 0
  BY <1>1
<1> QED
  BY <1>2, <1>3, <1>4, <1>5, BetweenOpen

LEMMA IssueOpens ==
  ASSUME AllInv, NEW slug, NEW scope, NEW config, Issue(slug, scope, config)
  PROVE  Opens
<1>1. Len(trips') = Len(trips) + 1 /\ DOMAIN trips' = 1..(Len(trips) + 1)
  BY Appended, TripNumbers DEF Issue, AllInv, IInv, WellFormed, Lined
<1>2. Len(trips) + 1 \in DOMAIN trips' \ DOMAIN trips
  BY <1>1, TripNumbers
<1> QED
  BY <1>1, <1>2, TripNumbers DEF Opens, Issue

LEMMA StartCachedOpen ==
  ASSUME AllInv, AllInv', OpenInv, NEW c \in Callers, StartCached(c)
  PROVE  OpenInv'
<1>1. PICK slug, scope : Issue(slug, scope, configs[slug]) /\ Arrives(c, Idle) /\ Visits
  BY DEF StartCached
<1>2. Opens
  BY <1>1, IssueOpens
<1>3. DOMAIN Idle = {"pc"}
  BY DEF Idle
<1> QED
  BY <1>1, <1>2, <1>3, ArrivesOpen

LEMMA StartReadOpen ==
  ASSUME AllInv, AllInv', OpenInv, NEW c \in Callers, StartRead(c)
  PROVE  OpenInv'
<1>1. PICK slug, scope, config :
        /\ Arrives(c, [pc |-> "fill", slug |-> slug, scope |-> scope, config |-> config])
        /\ Visits /\ trips' = trips /\ states' = states
  BY DEF StartRead
<1> DEFINE to == [pc |-> "fill", slug |-> slug, scope |-> scope, config |-> config]
<1>2. DOMAIN to = {"pc", "slug", "scope", "config"}
  OBVIOUS
<1> HIDE DEF to
<1>3. Opens
  BY <1>1, TripNumbers DEF Opens
<1>4. Arrives(c, to)
  BY <1>1 DEF to
<1> QED
  BY <1>1, <1>2, <1>3, <1>4, ArrivesOpen

LEMMA CreateResolveOpen ==
  ASSUME AllInv, AllInv', OpenInv, NEW c \in Callers, CreateResolve(c)
  PROVE  OpenInv'
<1>1. PICK body, id :
        /\ Visits /\ trips' = trips /\ states' = states
        /\ Arrives(c, Resolved([pc |-> "create", trip |-> 0, scope |-> body.scope,
                                user |-> body.user, apiKey |-> body.apiKey], id))
  BY DEF CreateResolve
<1>2. PICK v : v = [pc |-> "create", trip |-> 0, scope |-> body.scope, user |-> body.user,
                    apiKey |-> body.apiKey]
  OBVIOUS
<1>3. DOMAIN v = {"pc", "trip", "scope", "user", "apiKey"} /\ v.trip = 0
  BY <1>2
<1>4. PICK to : to = Resolved(v, id)
  OBVIOUS
<1>5. /\ DOMAIN to = {"pc", "trip", "scope", "user", "apiKey", "source", "copied"} /\ to.trip = 0
  <2>1. "pc" \in DOMAIN v
    BY <1>3
  <2>2. LET x == Resolved(v, id)
        IN /\ DOMAIN x = DOMAIN v \cup {"source", "copied"}
           /\ \A f \in DOMAIN v \ {"pc", "source", "copied"} : x[f] = v[f]
    BY <2>1, ResolvedFields
  <2>3. /\ DOMAIN to = DOMAIN v \cup {"source", "copied"}
        /\ \A f \in DOMAIN v \ {"pc", "source", "copied"} : to[f] = v[f]
    BY <1>4, <2>2
  <2> QED
    BY <1>3, <2>3
<1>6. Opens
  BY <1>1, TripNumbers DEF Opens
<1>7. Arrives(c, to)
  BY <1>1, <1>2, <1>4
<1> QED
  BY <1>1, <1>5, <1>6, <1>7, ArrivesOpen

\* A request that writes nothing but trips or the cache, and comes or ends.
LEMMA AsideOpen ==
  ASSUME AllInv, AllInv', OpenInv, NEW c \in Callers, NEW to, visit' = [visit EXCEPT ![c] = to],
         rows' = rows, connections' = connections, visits' = visits, edits' = edits, made' = made,
         Opens, "since" \in DOMAIN to => to.since = Moment /\ to.pc = "find",
         "trip" \in DOMAIN to => to.trip = Carried(c)
  PROVE  OpenInv'
<1>1. visit' = [d \in Callers |-> IF d = c THEN to ELSE visit[d]]
  BY DEF AllInv, IInv, WellFormed
<1>2. visits \in Nat /\ edits \in Nat /\ made \in Nat
  BY DEF AllInv, ConnInv, SourceInv
<1>3. \A d \in Callers : Carried(d)' \in {0, Carried(d)}
  BY <1>1 DEF Carried
<1>4. \A n : Past(n) => Past(n)'
  BY <1>3, OpensPast
<1>5. Recalls(c)' /\ Told(c)'
  <2>1. CASE "since" \notin DOMAIN to
    BY <1>1, <2>1, Unremembered
  <2>2. CASE "since" \in DOMAIN to
    <3>1. visit'[c] = to /\ to.since = <<visits, connections, edits>> /\ to.pc = "find"
      BY <1>1, <2>2 DEF Moment
    <3>2. \A id \in DOMAIN connections : id \in 1..made /\ Past(Held(id).tokens)
      BY DEF OpenInv, AllInv, ConnInv, ConnectionGood
    <3>3. \A id \in DOMAIN connections : id \in 1..made' /\ Past(connections[id].tokens)'
      <4> SUFFICES ASSUME NEW id \in DOMAIN connections
                   PROVE  id \in 1..made' /\ Past(connections[id].tokens)'
        OBVIOUS
      <4>1. PICK n : n = connections[id].tokens
        OBVIOUS
      <4>2. Past(n)'
        BY <1>4, <3>2, <4>1 DEF Held
      <4>3. n = connections'[id].tokens
        BY <4>1
      <4> QED
        BY <3>2, <4>1, <4>2
    <3>4. Recalls(c)'
      BY <1>2, <3>1, <3>3 DEF Recalls
    <3>5. Told(c)'
      BY <3>1 DEF Told
    <3> QED
      BY <3>4, <3>5
  <2> QED
    BY <2>1, <2>2
<1>6. \A d \in Callers : visit'[d] = visit[d] \/ (Recalls(d)' /\ Told(d)')
  BY <1>1, <1>5
<1>7. \A d \in Callers : Undisturbed(d)
  BY NothingElse
<1>8. \A id \in DOMAIN connections' :
        id \in DOMAIN connections /\ connections'[id].tokens = Held(id).tokens
  BY DEF Held
<1>9. visits <= visits' /\ edits <= edits' /\ made <= made'
  BY <1>2
<1> QED
  BY <1>3, <1>6, <1>7, <1>8, <1>9, OpenStep

LEMMA StartFillOpen ==
  ASSUME AllInv, AllInv', OpenInv, NEW c \in Callers, StartFill(c)
  PROVE  OpenInv'
<1>1. PICK slug, scope, config : Issue(slug, scope, config)
  BY DEF StartFill
<1>2. Opens
  BY <1>1, IssueOpens
<1>3. DOMAIN Idle = {"pc"}
  BY DEF Idle
<1>4. /\ visit' = [visit EXCEPT ![c] = Idle] /\ rows' = rows /\ connections' = connections
      /\ visits' = visits /\ edits' = edits /\ made' = made
  BY DEF StartFill, sourceVars
<1> QED
  BY <1>2, <1>3, <1>4, AsideOpen

LEMMA ExchangeOpen ==
  ASSUME AllInv, AllInv', OpenInv, NEW c \in Callers, Exchange(c)
  PROVE  OpenInv'
<1>1. Opens
  <2>1. DOMAIN trips' = DOMAIN trips /\ states' = states
    BY ExchangeTrips DEF AllInv, Exchange, Moves
  <2>2. Len(trips') \in Nat /\ DOMAIN trips' = 1..Len(trips')
    BY TripNumbers
  <2>3. Len(trips') = Len(trips)
    BY <2>1, <2>2, TripNumbers
  <2> QED
    BY <2>1, <2>3, TripNumbers DEF Opens
<1>2. /\ visit[c].pc = "exchange" /\ rows' = rows /\ connections' = connections
      /\ visits' = visits /\ edits' = edits /\ made' = made
  BY DEF Exchange, Moves
<1>3. PICK to : /\ to = [pc |-> "find", trip |-> visit[c].trip, slug |-> visit[c].slug,
                         scope |-> visit[c].scope, user |-> visit[c].scope = "user",
                         apiKey |-> FALSE, since |-> Moment]
  OBVIOUS
<1>4. /\ "trip" \in DOMAIN to /\ to.trip = visit[c].trip /\ to.pc = "find" /\ to.since = Moment
  BY <1>3
<1>5. CASE visit' = [visit EXCEPT ![c] = to]
  <2>1. to.trip = Carried(c)
    <3>1. "trip" \in DOMAIN visit[c]
      BY <1>2 DEF AllInv, ConnInv, VisitGood
    <3> QED
      BY <1>4, <3>1 DEF Carried
  <2> QED
    BY <1>1, <1>2, <1>4, <1>5, <2>1, AsideOpen
<1>6. CASE visit' = [visit EXCEPT ![c] = Idle]
  <2>1. DOMAIN Idle = {"pc"}
    BY DEF Idle
  <2> QED
    BY <1>1, <1>2, <1>6, <2>1, AsideOpen
<1> QED
  BY <1>3, <1>5, <1>6 DEF Exchange, Moves

LEMMA CallbackOpen ==
  ASSUME AllInv, AllInv', OpenInv, NEW c \in Callers, Callback(c)
  PROVE  OpenInv'
<1>1. PICK n \in states :
        /\ Arrives(c, [pc |-> "exchange", trip |-> n, slug |-> trips[n].slug,
                       scope |-> trips[n].scope, config |-> configs[trips[n].slug]])
        /\ visits' = visits /\ trips' = trips /\ states' = states \ {n}
  BY DEF Callback
<1>2. PICK to : to = [pc |-> "exchange", trip |-> n, slug |-> trips[n].slug,
                      scope |-> trips[n].scope, config |-> configs[trips[n].slug]]
  OBVIOUS
<1>3. /\ DOMAIN to = {"pc", "trip", "slug", "scope", "config"} /\ to.trip = n
      /\ n \in DOMAIN trips /\ n # 0
  BY <1>2, TripNumbers
<1>4. visit' = [d \in Callers |-> IF d = c THEN to ELSE visit[d]]
  BY <1>1, <1>2 DEF Arrives, AllInv, IInv, WellFormed
<1>5. visit[c] = Idle /\ DOMAIN Idle = {"pc"}
  BY <1>1 DEF Arrives, Idle
<1>6. /\ rows' = rows /\ connections' = connections /\ edits' = edits /\ made' = made
  BY <1>1 DEF Arrives, sourceVars
<1>7. Carried(c)' = n /\ Carried(c) = 0 /\ \A d \in Callers \ {c} : Carried(d)' = Carried(d)
  BY <1>3, <1>4, <1>5 DEF Carried
<1>8. CarriedOnce'
  <2>1. \A d \in Callers \ {c} : Carried(d) # n
    BY <1>3 DEF OpenInv, CarriedOnce
  <2> QED
    BY <1>1, <1>3, <1>7, <2>1 DEF OpenInv, CarriedOnce
<1>9. Open' \subseteq Open
  BY <1>1, <1>3, <1>7 DEF Open
<1>10. \A m : Past(m) => Past(m)'
  BY <1>1, <1>9 DEF Past
<1>11. visits \in Nat /\ edits \in Nat /\ made \in Nat
  BY DEF AllInv, ConnInv, SourceInv
<1>12. ASSUME NEW d \in Callers PROVE Recalls(d)' /\ Told(d)'
  <2>1. CASE d = c
    BY <1>3, <1>4, <2>1, Unremembered
  <2>2. CASE d # c
    <3>1. visit'[d] = visit[d] /\ Recalls(d) /\ Told(d)
      BY <1>4, <2>2 DEF OpenInv
    <3>2. Recalls(d)'
      BY <1>1, <1>6, <1>10, <1>11, <3>1, RecallsStays
    <3>3. Told(d)'
      BY <1>1, <1>6, <3>1, ToldStays
    <3> QED
      BY <3>2, <3>3
  <2> QED
    BY <2>1, <2>2
<1>13. ASSUME NEW id \in DOMAIN connections' PROVE Past(Held(id).tokens)'
  <2>1. PICK m : m = connections[id].tokens
    OBVIOUS
  <2>2. Past(m)'
    BY <1>6, <1>10, <2>1 DEF OpenInv, Held
  <2> QED
    BY <1>6, <2>1, <2>2 DEF Held
<1> QED
  BY <1>8, <1>12, <1>13 DEF OpenInv

\* A new connection was not there before.
LEMMA InsertConnectionOpen ==
  ASSUME AllInv, AllInv', OpenInv, NEW c \in Callers, InsertConnection(c)
  PROVE  OpenInv'
<1>1. PICK v, new :
        /\ v = visit[c] /\ new.tokens = 0 /\ connections' = Add(connections, made + 1, new)
  BY DEF InsertConnection
<1>2. /\ visit[c].pc = "insert" /\ made' = made + 1
      /\ trips' = trips /\ visits' = visits /\ edits' = edits /\ states' = states
      /\ \/ visit' = [visit EXCEPT ![c] = Idle]
         \/ visit' = [visit EXCEPT ![c] = Found(c, made + 1)]
  BY DEF InsertConnection, Moves
<1>3. /\ DOMAIN connections' = DOMAIN connections \cup {made + 1}
      /\ connections'[made + 1] = new
      /\ \A id \in DOMAIN connections \ {made + 1} : connections'[id] = connections[id]
  BY <1>1 DEF Add
<1>4. Opens
  BY <1>2, TripNumbers DEF Opens
<1>5. "trip" \in DOMAIN visit[c]
  BY <1>2 DEF AllInv, ConnInv, VisitGood, Creating
<1>6. PICK to :
        /\ visit' = [d \in Callers |-> IF d = c THEN to ELSE visit[d]]
        /\ "since" \notin DOMAIN to
        /\ "trip" \in DOMAIN to => to.trip = visit[c].trip
  <2>1. /\ DOMAIN Idle = {"pc"}
        /\ DOMAIN Found(c, made + 1) = {"pc", "trip", "id"} /\ Found(c, made + 1).trip = visit[c].trip
    BY DEF Idle, Found
  <2>2. CASE visit' = [visit EXCEPT ![c] = Idle]
    BY <2>1, <2>2 DEF AllInv, IInv, WellFormed
  <2>3. CASE visit' = [visit EXCEPT ![c] = Found(c, made + 1)]
    <3>1. PICK to : to = Found(c, made + 1)
      OBVIOUS
    <3>2. visit' = [d \in Callers |-> IF d = c THEN to ELSE visit[d]]
      BY <2>3, <3>1 DEF AllInv, IInv, WellFormed
    <3> QED
      BY <2>1, <3>1, <3>2
  <2> QED
    BY <1>2, <2>2, <2>3
<1>7. \A d \in Callers : Carried(d)' \in {0, Carried(d)}
  BY <1>5, <1>6 DEF Carried
<1>8. \A d \in Callers : visit'[d] = visit[d] \/ (Recalls(d)' /\ Told(d)')
  BY <1>6, Unremembered
<1>9. \A d \in Callers : Undisturbed(d)
  BY <1>3, Disturbs
<1>10. visits <= visits' /\ edits <= edits' /\ made <= made'
  BY <1>2 DEF AllInv, ConnInv, SourceInv
<1>11. ASSUME NEW id \in DOMAIN connections'
       PROVE  \/ id \in DOMAIN connections /\ connections'[id].tokens = Held(id).tokens
              \/ \E n : connections'[id].tokens = n /\ Past(n)'
  <2>1. CASE id = made + 1
    <3>1. connections'[id].tokens = 0
      BY <1>1, <1>3, <2>1
    <3>2. Past(0)'
      <4>1. 0 \notin Open'
        BY DEF Open
      <4> QED
        BY <1>2, <4>1, TripNumbers DEF Past
    <3> QED
      BY <3>1, <3>2
  <2>2. CASE id # made + 1
    BY <1>3, <2>2 DEF Held
  <2> QED
    BY <2>1, <2>2
<1> QED
  BY <1>4, <1>7, <1>8, <1>9, <1>10, <1>11, OpenStep

\* Nobody has seen these tokens before.
LEMMA StoreTokensOpen ==
  ASSUME AllInv, AllInv', OpenInv, NEW c \in Callers, StoreTokens(c)
  PROVE  OpenInv'
<1>1. PICK n, id : visit[c].trip = n /\ visit[c].id = id
  OBVIOUS
<1>2. /\ visit[c].pc = "tokens" /\ made' = made /\ trips' = trips /\ visits' = visits
      /\ rows' = rows /\ edits' = edits /\ states' = states
      /\ visit' = [visit EXCEPT ![c] = Idle]
      /\ connections' = IF id \in DOMAIN connections
                          THEN [connections EXCEPT ![id].tokens = n, ![id].status = "active"]
                          ELSE connections
  BY <1>1 DEF StoreTokens, Moves
<1>3. visit' = [d \in Callers |-> IF d = c THEN Idle ELSE visit[d]] /\ DOMAIN Idle = {"pc"}
  BY <1>2 DEF AllInv, IInv, WellFormed, Idle
<1>4. n \in DOMAIN trips /\ n # 0 /\ "trip" \in DOMAIN visit[c]
  <2>1. Chosen(c)
    BY <1>2 DEF AllInv, ConnInv, VisitGood
  <2> QED
    BY <1>1, <2>1, TripNumbers DEF Chosen
<1>5. Opens
  BY <1>2, TripNumbers DEF Opens
<1>6. \A d \in Callers : Carried(d)' \in {0, Carried(d)}
  BY <1>3 DEF Carried
<1>7. \A d \in Callers : visit'[d] = visit[d] \/ (Recalls(d)' /\ Told(d)')
  BY <1>3, Unremembered
<1>8. Carried(c) = n /\ n \in Open /\ Carried(c)' = 0 /\ \A d \in Callers \ {c} : Carried(d)' = Carried(d)
  BY <1>1, <1>3, <1>4 DEF Carried, Open
<1>9. Past(n)'
  <2>1. n \notin Open'
    BY <1>2, <1>4, <1>8 DEF Open, OpenInv, CarriedOnce
  <2> QED
    BY <1>2, <1>4, <2>1, TripNumbers DEF Past
<1>10. visits <= visits' /\ edits <= edits' /\ made <= made'
  BY <1>2 DEF AllInv, ConnInv, SourceInv
<1>11. CASE id \notin DOMAIN connections
  <2>1. connections' = connections
    BY <1>2, <1>11
  <2>2. \A d \in Callers : Undisturbed(d)
    BY <1>2, <2>1, NothingElse
  <2>3. \A i \in DOMAIN connections' :
          i \in DOMAIN connections /\ connections'[i].tokens = Held(i).tokens
    BY <2>1 DEF Held
  <2> QED
    BY <1>5, <1>6, <1>7, <1>10, <2>2, <2>3, OpenStep
<1>12. CASE id \in DOMAIN connections
  <2>1. Held(id) \in Connection
    BY <1>12 DEF AllInv, ConnInv, ConnectionGood
  <2>2. /\ DOMAIN connections' = DOMAIN connections /\ connections'[id].tokens = n
        /\ \A i \in DOMAIN connections \ {id} : connections'[i] = connections[i]
    BY <1>2, <1>12, <2>1 DEF Held, Connection
  <2>3. \A d \in Callers : Undisturbed(d)
    BY <1>8, <1>12, <2>2, Disturbs
  <2>4. \A i \in DOMAIN connections' :
          \/ i \in DOMAIN connections /\ connections'[i].tokens = Held(i).tokens
          \/ \E m : connections'[i].tokens = m /\ Past(m)'
    BY <1>9, <2>2 DEF Held
  <2> QED
    BY <1>5, <1>6, <1>7, <1>10, <2>3, <2>4, OpenStep
<1> QED
  BY <1>11, <1>12

LEMMA ProceedOpen ==
  ASSUME AllInv, AllInv', OpenInv, NEW c \in Callers, Proceed(c)
  PROVE  OpenInv'
<1>1. CASE Conflict(c) \/ InvalidScope(c) \/ NoSource(c)
  <2>1. \E from : Goes(c, from, Idle)
    BY <1>1 DEF Conflict, InvalidScope, NoSource
  <2> QED
    BY <2>1, IdleOpen
<1>2. CASE QueryFails(c)
  <2>1. /\ visits' = visits + 1 /\ edits' = edits /\ made' = made /\ connections' = connections
        /\ trips' = trips /\ states' = states
    BY <1>2 DEF QueryFails, Visits, sourceVars
  <2>2. visit' = [d \in Callers |-> IF d = c THEN Idle ELSE visit[d]] /\ DOMAIN Idle = {"pc"}
    BY <1>2 DEF QueryFails, AllInv, IInv, WellFormed, Idle
  <2>3. Opens
    BY <2>1, TripNumbers DEF Opens
  <2>4. edits <= edits'
    BY <2>1 DEF AllInv, SourceInv
  <2>5. \A id \in DOMAIN connections' :
          id \in DOMAIN connections /\ connections'[id].tokens = Held(id).tokens
    BY <2>1 DEF Held
  <2>6. \A d \in Callers :
          \/ visit'[d] = visit[d]
          \/ /\ "since" \notin DOMAIN visit'[d]
             /\ "trip" \in DOMAIN visit'[d] => visit'[d].trip = 0
    BY <2>2
  <2> QED
    BY <2>1, <2>3, <2>4, <2>5, <2>6, BetweenOpen
<1> QED
  BY <1>1, <1>2, StartFillOpen, ExchangeOpen, FindBySlugOpen, FindSourceOpen, FindByDataSourceOpen,
     ResolveOpen, CheckDuplicateOpen, InsertConnectionOpen, StoreTokensOpen DEF Proceed

LEMMA UpdateOpen ==
  ASSUME AllInv, AllInv', OpenInv, NEW id \in DOMAIN connections, Update(id)
  PROVE  OpenInv'
<1>1. PICK body :
        /\ Visits
        /\ connections' = [connections EXCEPT
             ![id].apiKey = @ \/ body.apiKey,
             ![id].status = IF body.status # "" THEN body.status ELSE IF body.apiKey THEN "active" ELSE @]
        /\ UNCHANGED <<rows, integrations, edit, edits, stamp, visit, states, configs, made, trips>>
  BY DEF Update
<1>2. /\ visits' = visits + 1 /\ edits' = edits /\ made' = made /\ visit' = visit
      /\ trips' = trips /\ states' = states
  BY <1>1 DEF Visits
<1>3. \A i \in DOMAIN connections : Held(i) \in Connection
  BY DEF AllInv, ConnInv, ConnectionGood
<1>4. \A i \in DOMAIN connections' :
        i \in DOMAIN connections /\ connections'[i].tokens = Held(i).tokens
  BY <1>1, <1>3 DEF Held, Connection
<1>5. Opens
  BY <1>2, TripNumbers DEF Opens
<1>6. edits <= edits'
  BY <1>2 DEF AllInv, SourceInv
<1> QED
  BY <1>2, <1>4, <1>5, <1>6, BetweenOpen

LEMMA RemoveOpen ==
  ASSUME AllInv, AllInv', OpenInv, NEW id \in DOMAIN connections, Remove(id)
  PROVE  OpenInv'
<1>1. /\ visits' = visits + 1 /\ edits' = edits /\ made' = made /\ visit' = visit
      /\ trips' = trips /\ states' = states
  BY DEF Remove, Visits
<1>2. \A i \in DOMAIN connections' :
        i \in DOMAIN connections /\ connections'[i].tokens = Held(i).tokens
  BY DEF Remove, Without, Held
<1>3. Opens
  BY <1>1, TripNumbers DEF Opens
<1>4. edits <= edits'
  BY <1>1 DEF AllInv, SourceInv
<1> QED
  BY <1>1, <1>2, <1>3, <1>4, BetweenOpen

LEMMA RestartOpen ==
  ASSUME AllInv, AllInv', OpenInv, Restart
  PROVE  OpenInv'
<1>1. /\ visits' = visits + 1 /\ edits' = edits /\ made' = made /\ connections' = connections
      /\ trips' = trips /\ states' = {} /\ visit' = [c \in Callers |-> Idle]
  BY DEF Restart, Visits
<1>2. \A c \in Callers :
        /\ "since" \notin DOMAIN visit'[c]
        /\ "trip" \in DOMAIN visit'[c] => visit'[c].trip = 0
  BY <1>1 DEF Idle
<1>3. \A i \in DOMAIN connections' :
        i \in DOMAIN connections /\ connections'[i].tokens = Held(i).tokens
  BY <1>1 DEF Held
<1>4. Opens
  BY <1>1, TripNumbers DEF Opens
<1>5. edits <= edits'
  BY <1>1 DEF AllInv, SourceInv
<1> QED
  BY <1>1, <1>2, <1>3, <1>4, <1>5, BetweenOpen

LEMMA SourceOpen ==
  ASSUME AllInv, AllInv', OpenInv, SourceNext, UNCHANGED oauthVars
  PROVE  OpenInv'
<1>1. /\ edits' = edits + 1 /\ connections' = connections /\ visits' = visits /\ made' = made
      /\ trips' = trips /\ states' = states /\ visit' = visit
  BY SourceKeeps DEF AllInv, oauthVars
<1>2. \A i \in DOMAIN connections' :
        i \in DOMAIN connections /\ connections'[i].tokens = Held(i).tokens
  BY <1>1 DEF Held
<1>3. Opens
  BY <1>1, TripNumbers DEF Opens
<1> QED
  BY <1>1, <1>2, <1>3, BetweenOpen

\* The timer of a state, and steps of nobody.
LEMMA NothingOpen ==
  ASSUME AllInv, AllInv', OpenInv, states' \subseteq states, trips' = trips, visit' = visit,
         rows' = rows, connections' = connections, visits' = visits, edits' = edits, made' = made
  PROVE  OpenInv'
<1>1. Opens
  BY TripNumbers DEF Opens
<1>2. \A c \in Callers : Carried(c)' \in {0, Carried(c)}
  BY DEF Carried
<1>3. \A c \in Callers : Undisturbed(c)
  BY NothingElse
<1>4. \A i \in DOMAIN connections' :
        i \in DOMAIN connections /\ connections'[i].tokens = Held(i).tokens
  BY DEF Held
<1>5. visits <= visits' /\ edits <= edits' /\ made <= made'
  BY DEF AllInv, ConnInv, SourceInv
<1> QED
  BY <1>1, <1>2, <1>3, <1>4, <1>5, OpenStep

LEMMA OpenKept == AllInv /\ OpenInv /\ [Next]_vars => OpenInv'
<1> SUFFICES ASSUME AllInv, OpenInv, [Next]_vars PROVE OpenInv'
  OBVIOUS
<1> AllInv'
  BY AllKept
<1>1. ASSUME NEW n \in states, Expire(n) PROVE OpenInv'
  BY <1>1, NothingOpen DEF Expire, sourceVars
<1>2. CASE UNCHANGED vars
  BY <1>2, NothingOpen DEF vars, sourceVars, oauthVars
<1> QED
  BY <1>1, <1>2, StartCachedOpen, StartReadOpen, CallbackOpen, CreateResolveOpen, ProceedOpen,
     UpdateOpen, RemoveOpen, RestartOpen, SourceOpen DEF Next

LEMMA OpenBegun == Init => OpenInv
<1> SUFFICES ASSUME Init PROVE OpenInv
  OBVIOUS
<1>1. /\ connections = <<>> /\ visit = [c \in Callers |-> Idle] /\ DOMAIN Idle = {"pc"}
  BY DEF Init, Idle
<1> QED
  BY <1>1 DEF OpenInv, CarriedOnce, Carried, Recalls, Told, Alone

LEMMA AlwaysOpen == Spec => [](AllInv /\ OpenInv)
BY AllBegun, AllKept, OpenBegun, OpenKept, PTL DEF Spec

\* There are finitely many data sources.
LEMMA RowsFinite ==
  ASSUME SourceInv, NEW slug
  PROVE  IsFiniteSet(Matches(slug))
<1>1. PICK n \in Nat : DOMAIN stamp = 1..n
  BY DEF SourceInv
<1>2. Matches(slug) \subseteq 1..n
  BY <1>1 DEF SourceInv, Matches
<1>3. IsFiniteSet(1..n)
  BY FS_Interval
<1> QED
  BY <1>2, <1>3, FS_Subset

LEMMA AloneBlocked == AllInv /\ OpenInv => ReconnectBlocked
<1> SUFFICES ASSUME AllInv, OpenInv, NEW c \in Callers, visit[c].pc = "duplicate", visit[c].trip # 0,
                    visit[c].since = Moment, Cardinality(Matches(visit[c].slug)) = 1,
                    NEW id \in Duplicates(visit[c])
             PROVE  Held(id).status # "active" /\ Serves(Held(id).scope, visit[c].scope)
  BY DEF ReconnectBlocked
<1>1. OnTrip(c)
  BY DEF AllInv, ConnInv, VisitGood, Creating
<1>2. Held(id).dataSourceId = visit[c].source /\ Held(id).scope = Sought(visit[c].user)
  BY DEF Duplicates
<1>3. Serves(Held(id).scope, visit[c].scope)
  BY <1>1, <1>2, SoughtServes
<1>4. Alone(c)
  BY <1>1 DEF Alone, OnTrip
<1>5. PICK s \in Matches(visit[c].slug) : Nobody(s, Sought(visit[c].user))
  BY <1>4 DEF OpenInv, Told
<1>6. visit[c].source \in Matches(visit[c].slug)
  BY <1>4 DEF OpenInv, Told
<1>7. s = visit[c].source
  <2>1. IsFiniteSet(Matches(visit[c].slug))
    BY RowsFinite DEF AllInv
  <2>2. \E x : Matches(visit[c].slug) = {x}
    BY <2>1, FS_Singleton
  <2> QED
    BY <1>5, <1>6, <2>2
<1>8. id \in DOMAIN connections
  BY DEF Duplicates
<1> QED
  BY <1>2, <1>3, <1>5, <1>7, <1>8 DEF Nobody, Active

\* Two connections of a data source, a connection without one, and a callback
\* that is told to disconnect first are explained by what the property says.
THEOREM LeftoversAreExplained == Spec => []LeftoverExplained
<1>1. AllInv => NoDuplicates /\ NoneDangling
  BY DEF AllInv, ConnInv, Standing, NoneDangling
<1>2. AllInv /\ OpenInv => LeftoverExplained
  BY <1>1, AloneBlocked DEF LeftoverExplained
<1> QED
  BY <1>2, AlwaysOpen, PTL

===============================================================================
