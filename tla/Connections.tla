----------------------------- MODULE Connections -----------------------------
(***************************************************************************)
(* The connections of an organization, which hold its credentials with the *)
(* data sources, and the OAuth round trips that fill them: OAuthService    *)
(* and OAuthConfigRegistry over ConnectionsService, beside the edits of    *)
(* the catalogue in DataSources.                                           *)
(*                                                                         *)
(* The state of a round trip and the providers' configurations are kept in *)
(* the memory of the one API process and are gone when it restarts.        *)
(* A request that is refused at its first query has changed nothing and is *)
(* not a step, like a callback with an error or without its parameters.    *)
(***************************************************************************)
EXTENDS DataSources

CONSTANTS
  Callers,    \* requests for connections that can be in progress at once
  Slugs,      \* provider slugs in requests
  NewConnections,  \* bodies of create: scope, userId (or none) and apiKey
  Scopes,     \* what starts are asked for as scope; "other" is no scope
  Bodies,     \* bodies of update: apiKey and status
  SlugOrder,  \* the slugs of rows in ascending order
  MaxTrips,   \* bound: round trips
  MaxVisits   \* bound: data sources, requests for connections but callbacks,
              \* failures and restarts

Owners == {"organization", "user", "system"}

\* Who a connection is for is its scope; one user of the organization will do.
\* A userId beside the scope system is compared by create and then never looked
\* for.
Connection ==
  [dataSourceId : Nat, providerSlug : STRING, scope : Owners,
   status : {"active", "pending", "revoked"}, apiKey : BOOLEAN, tokens : Nat,
   seen : Nat, late : BOOLEAN]

\* create takes no userId with the scope organization, and needs one with user.
ASSUME ConnectionAssumption ==
  /\ NewConnections \subseteq [scope : Owners, user : BOOLEAN, apiKey : BOOLEAN]
  /\ \A body \in NewConnections : body.scope # "system" => body.user = (body.scope = "user")
  /\ Scopes \subseteq Owners \cup {"other"}
  /\ Bodies \subseteq [apiKey : BOOLEAN, status : {"", "active", "pending", "revoked"}]

VARIABLES
  visit,    \* the request each caller is in
  visits,   \* how many requests, failures and restarts there have been
  states,   \* stateStore: the round trips that may be called back
  configs,  \* OAuthConfigRegistry.configs: provider slug -> row and client
  made,     \* connections made so far; their ids are numbered
  trips     \* history: the round trips, with the clients that codes went to

oauthVars == <<visit, visits, states, configs, made, trips>>
vars == <<sourceVars, oauthVars>>

Init ==
  /\ SourceInit
  /\ connections = <<>>
  /\ visit = [c \in Callers |-> Idle]
  /\ visits = 0 /\ made = 0
  /\ states = {}
  /\ configs = <<>>
  /\ trips = <<>>

Arrives(c, to) ==
  /\ visit[c] = Idle
  /\ visit' = [visit EXCEPT ![c] = to]
  /\ UNCHANGED <<sourceVars, made>>

\* Something other than a callback happens.
Visits == visits + Cardinality(DOMAIN stamp) < MaxVisits /\ visits' = visits + 1

Moves(c, from, to) ==
  /\ visit[c].pc = from
  /\ visit' = [visit EXCEPT ![c] = to]
  /\ UNCHANGED <<rows, integrations, edit, edits, stamp, visits, states, configs>>

Goes(c, from, to) ==
  Moves(c, from, to) /\ UNCHANGED <<connections, made, trips>>

\* What changes when anything happens to connections or data sources.
Moment == <<visits, connections, edits>>

\* The rows that answer to a slug; findOne takes one of them.
Matches(slug) == {id \in DOMAIN rows : rows[id].isActive /\ slug \in NamesOf(rows[id])}

Held(id) == connections[id]

\* The scope of the connections that are looked for: it depends on whether
\* there is a userId, and not on the scope that was asked for.
Sought(user) == IF user THEN "user" ELSE "organization"

-------------------------------------------------------------------------------
\* buildAuthorizationUrl: without a configuration in the cache the row is read,
\* and the configuration made of it goes into the cache when the answer is
\* here, whatever is there by then.
Issue(slug, scope, config) ==
  /\ trips' = Append(trips, [slug |-> slug, scope |-> scope, url |-> config, used |-> <<>>])
  /\ states' = states \cup {Len(trips) + 1}

\* The start by POST refuses the scope system; the one by GET takes its scope
\* from the query as it is.
StartCached(c) ==
  \E slug \in DOMAIN configs, scope \in Scopes :
    /\ Visits /\ Len(trips) < MaxTrips
    /\ Issue(slug, scope, configs[slug])
    /\ Arrives(c, Idle)
    /\ UNCHANGED configs

Rank(id) == CHOOSE i \in DOMAIN SlugOrder : SlugOrder[i] = rows[id].slug

\* The first of the rows with a configuration, in the order of their slugs.
Configured(slug) ==
  LET found == {id \in DOMAIN rows : /\ rows[id].providerSlug = slug
                                     /\ rows[id].isActive /\ rows[id].oauth # "none"}
  IN {id \in found : \A other \in found : Rank(id) <= Rank(other)}

StartRead(c) ==
  \E slug \in Slugs \ DOMAIN configs, scope \in Scopes :
    \E id \in Configured(slug) :
      /\ Visits /\ Len(trips) < MaxTrips
      /\ Arrives(c, [pc |-> "fill", slug |-> slug, scope |-> scope,
                     config |-> [row |-> id, client |-> rows[id].oauth]])
      /\ UNCHANGED <<states, configs, trips>>

\* Mutant of StartFill: the configuration does not go into the cache.
StartFillUncached(c) ==
  /\ visit[c].pc = "fill"
  /\ visit' = [visit EXCEPT ![c] = Idle]
  /\ Issue(visit[c].slug, visit[c].scope, visit[c].config)
  /\ UNCHANGED <<sourceVars, visits, configs, made>>

StartFill(c) ==
  /\ visit[c].pc = "fill"
  /\ visit' = [visit EXCEPT ![c] = Idle]
  /\ configs' = Add(configs, visit[c].slug, visit[c].config)
  /\ Issue(visit[c].slug, visit[c].scope, visit[c].config)
  /\ UNCHANGED <<sourceVars, visits, made>>

\* The timer of ten minutes.
Expire(n) ==
  /\ n \in states
  /\ states' = states \ {n}
  /\ UNCHANGED <<sourceVars, visit, visits, configs, made, trips>>

\* Mutant of Callback: the state is kept for the timer to remove.
CallbackKeeping(c) ==
  \E n \in states :
    /\ Arrives(c, [pc |-> "exchange", trip |-> n, slug |-> trips[n].slug, scope |-> trips[n].scope,
                   config |-> configs[trips[n].slug]])
    /\ UNCHANGED <<visits, states, configs, trips>>

\* handleCallback: the state is deleted, and the configuration is in the cache
\* since the start of the round trip.
Callback(c) ==
  \E n \in states :
    /\ states' = states \ {n}
    /\ Arrives(c, [pc |-> "exchange", trip |-> n, slug |-> trips[n].slug, scope |-> trips[n].scope,
                   config |-> configs[trips[n].slug]])
    /\ UNCHANGED <<visits, configs, trips>>

\* The provider has given tokens for the code, or has not.  The state of the
\* round trip has a userId if its scope is user.
Exchange(c) ==
  LET v == visit[c]
  IN /\ \/ Moves(c, "exchange", [pc |-> "find", trip |-> v.trip, slug |-> v.slug, scope |-> v.scope,
                                 user |-> v.scope = "user", apiKey |-> FALSE, since |-> Moment])
        \/ Moves(c, "exchange", Idle)
     /\ trips' = [trips EXCEPT ![v.trip].used = Append(@, v.config)]
     /\ UNCHANGED <<connections, made>>

-------------------------------------------------------------------------------
Active(id, scope) == Held(id).status = "active" /\ Held(id).scope = scope

Found(c, id) == [pc |-> "tokens", trip |-> visit[c].trip, id |-> id]

To(c, pc) == [visit[c] EXCEPT !.pc = pc]

\* Mutant of FindBySlug: the scope is not looked at.
FindBySlugOnly(c) ==
  /\ visit[c].pc = "find"
  /\ LET found == {id \in DOMAIN connections : /\ Held(id).providerSlug = visit[c].slug
                                               /\ Held(id).status = "active"}
     IN IF found = {} THEN Goes(c, "find", To(c, "source"))
        ELSE \E id \in found : Goes(c, "find", Found(c, id))

\* findByProvider: by the slug that was copied into the connection, or else by
\* the row that answers to it now.
FindBySlug(c) ==
  /\ visit[c].pc = "find"
  /\ LET found == {id \in DOMAIN connections : /\ Held(id).providerSlug = visit[c].slug
                                               /\ Active(id, Sought(visit[c].user))}
     IN IF found = {} THEN Goes(c, "find", To(c, "source"))
        ELSE \E id \in found : Goes(c, "find", Found(c, id))

FindSource(c) ==
  /\ visit[c].pc = "source"
  /\ IF Matches(visit[c].slug) = {} THEN Goes(c, "source", To(c, "resolve"))
     ELSE \E id \in Matches(visit[c].slug) :
            Goes(c, "source", Add(To(c, "by id"), "source", id))

FindByDataSource(c) ==
  /\ visit[c].pc = "by id"
  /\ LET found == {id \in DOMAIN connections : /\ Held(id).dataSourceId = visit[c].source
                                               /\ Active(id, Sought(visit[c].user))}
     IN IF found = {} THEN Goes(c, "by id", To(c, "resolve"))
        ELSE \E id \in found : Goes(c, "by id", Found(c, id))

-------------------------------------------------------------------------------
Resolved(v, id) ==
  Add(Add([v EXCEPT !.pc = "duplicate"], "source", id), "copied", rows[id].providerSlug)

\* create, from a request: by the id of an active row or by a slug it answers
\* to.
CreateResolve(c) ==
  \E body \in NewConnections, id \in {i \in DOMAIN rows : rows[i].isActive} :
    /\ Visits
    /\ Arrives(c, Resolved([pc |-> "create", trip |-> 0, scope |-> body.scope, user |-> body.user,
                            apiKey |-> body.apiKey], id))
    /\ UNCHANGED <<states, configs, trips>>

\* create, from a callback.
Resolve(c) ==
  /\ visit[c].pc = "resolve"
  /\ \E id \in Matches(visit[c].slug) : Goes(c, "resolve", Resolved(visit[c], id))

\* Mutant of Duplicates: only connections that work are in the way.
DuplicatesActive(v) ==
  {id \in DOMAIN connections : Held(id).dataSourceId = v.source /\ Active(id, Sought(v.user))}

Duplicates(v) ==
  {id \in DOMAIN connections :
     Held(id).dataSourceId = v.source /\ Held(id).scope = Sought(v.user)}

CheckDuplicate(c) ==
  /\ visit[c].pc = "duplicate"
  /\ Duplicates(visit[c]) = {}
  /\ Goes(c, "duplicate", Add(To(c, "insert"), "seen", made))

Conflict(c) ==
  /\ visit[c].pc = "duplicate"
  /\ Duplicates(visit[c]) # {}
  /\ Goes(c, "duplicate", Idle)

\* Nothing looks for the row of the data source again, and no index keeps a
\* second connection out.
InsertConnection(c) ==
  LET v == visit[c]
  IN /\ v.pc = "insert" /\ v.scope \in Owners
     /\ IF v.trip = 0 THEN Moves(c, "insert", Idle) ELSE Moves(c, "insert", Found(c, made + 1))
     /\ made' = made + 1
     /\ connections' = Add(connections, made + 1,
          [dataSourceId |-> v.source, providerSlug |-> v.copied, scope |-> v.scope,
           status |-> IF v.apiKey THEN "active" ELSE "pending", apiKey |-> v.apiKey, tokens |-> 0,
           seen |-> v.seen,
           late |-> v.source \notin DOMAIN rows
                    \/ \E e \in Editors : edit[e].pc = "delete" /\ edit[e].id = v.source])
     /\ UNCHANGED trips

\* The schema of connections knows no other scopes.
InvalidScope(c) ==
  /\ visit[c].pc = "insert" /\ visit[c].scope \notin Owners
  /\ Goes(c, "insert", Idle)

\* updateOAuthTokens, unless the connection is gone.
StoreTokens(c) ==
  LET v == visit[c]
      there == v.id \in DOMAIN connections
  IN /\ v.pc = "tokens"
     /\ Moves(c, "tokens", Idle)
     /\ connections' = IF there THEN [connections EXCEPT ![v.id].tokens = v.trip, ![v.id].status = "active"]
                       ELSE connections
     /\ UNCHANGED <<made, trips>>

\* No active row answers to the slug any more.
NoSource(c) ==
  /\ visit[c].pc = "resolve" /\ Matches(visit[c].slug) = {}
  /\ Goes(c, "resolve", Idle)

\* Any query may fail.  All a callback shows then is that the exchange failed;
\* what it has written stays.
QueryFails(c) ==
  /\ visit[c].pc \in {"find", "source", "by id", "resolve", "duplicate", "insert", "tokens"}
  /\ Visits
  /\ visit' = [visit EXCEPT ![c] = Idle]
  /\ UNCHANGED <<sourceVars, states, configs, made, trips>>

-------------------------------------------------------------------------------
\* update: an apiKey makes the connection active, unless the body says
\* otherwise; a status is taken as it is.
Update(id) ==
  \E body \in Bodies :
    /\ Visits
    /\ connections' = [connections EXCEPT
         ![id].apiKey = @ \/ body.apiKey,
         ![id].status = IF body.status # "" THEN body.status ELSE IF body.apiKey THEN "active" ELSE @]
    /\ UNCHANGED <<rows, integrations, edit, edits, stamp, visit, states, configs, made, trips>>

Remove(id) ==
  /\ Visits
  /\ connections' = Without(connections, id)
  /\ UNCHANGED <<rows, integrations, edit, edits, stamp, visit, states, configs, made, trips>>

\* The process stops in the middle of whatever it does, and starts again.
Restart ==
  /\ Visits
  /\ visit' = [c \in Callers |-> Idle]
  /\ edit' = [e \in Editors |-> Idle]
  /\ states' = {}
  /\ configs' = <<>>
  /\ UNCHANGED <<rows, integrations, connections, edits, stamp, made, trips>>

Proceed(c) ==
  \/ StartFill(c) \/ Exchange(c) \/ FindBySlug(c) \/ FindSource(c) \/ FindByDataSource(c)
  \/ Resolve(c) \/ CheckDuplicate(c) \/ Conflict(c) \/ InsertConnection(c) \/ StoreTokens(c)
  \/ InvalidScope(c) \/ NoSource(c) \/ QueryFails(c)

Next ==
  \/ \E c \in Callers :
       StartCached(c) \/ StartRead(c) \/ Callback(c) \/ CreateResolve(c) \/ Proceed(c)
  \/ \E n \in states : Expire(n)
  \/ \E id \in DOMAIN connections : Update(id) \/ Remove(id)
  \/ Restart
  \/ SourceNext /\ UNCHANGED oauthVars

Spec == Init /\ [][Next]_vars

-------------------------------------------------------------------------------
TypeOK ==
  /\ \A id \in DOMAIN rows : rows[id] \in Row
  /\ DOMAIN rows \subseteq DOMAIN stamp /\ integrations \subseteq DOMAIN stamp
  /\ DOMAIN connections \subseteq 1..made
  /\ \A id \in DOMAIN connections : Held(id) \in Connection
  /\ states \subseteq DOMAIN trips
  /\ \A n \in states : trips[n].slug \in DOMAIN configs

\* A code is exchanged at most once, however often the provider's redirect is
\* followed, and by the OAuth client that it was asked for, whatever has
\* happened to the data source in between; unless another start has read the
\* configuration at the same time, and put what it found in its place.
RoundTripSound ==
  \A n \in DOMAIN trips :
    /\ Len(trips[n].used) <= 1
    /\ \A i \in DOMAIN trips[n].used :
         trips[n].used[i] # trips[n].url =>
           \E m \in DOMAIN trips \ {n} :
             trips[m].slug = trips[n].slug /\ trips[m].url = trips[n].used[i]

\* "OAuth connection does not support system scope" is said by one of the two
\* starts only: a round trip with any scope but user may get to the connection
\* of the whole organization.
Serves(scope, asked) ==
  scope = asked \/ (scope = "organization" /\ asked \in {"system", "other"})

\* The tokens of a round trip are in a connection that serves the scope it was
\* started with, and of the data source whose client got them, as long as no
\* other data source has ever answered to the slug.
TokensBelong ==
  \A id \in DOMAIN connections :
    LET n == Held(id).tokens
    IN n # 0 =>
         /\ Serves(Held(id).scope, trips[n].scope)
         /\ \/ Held(id).dataSourceId = trips[n].url.row
            \/ \E row \in DOMAIN stamp \ {trips[n].url.row} : trips[n].slug \in stamp[row].names

\* "A connection already exists for this data source": there are two only if
\* the second was looked for before the first was there, or if they are of
\* scope system, which create never looks for.
NoDuplicates ==
  \A c, d \in DOMAIN connections :
    c < d /\ Held(c).dataSourceId = Held(d).dataSourceId /\ Held(c).scope = Held(d).scope
      => c > Held(d).seen \/ Held(c).scope = "system"

\* "Cannot delete: n connection(s) still reference this data source": a
\* connection is without its data source only if it came after they had been
\* counted.
NoneDangling ==
  \A id \in DOMAIN connections : Held(id).dataSourceId \notin DOMAIN rows => Held(id).late

\* "Disconnect it first to reconnect": a round trip that has got its tokens and
\* is alone is told so only by a connection that does not work, as one that an
\* earlier round trip has left without tokens, and that serves its scope: then
\* none gets through before it is removed.
ReconnectBlocked ==
  \A c \in {d \in Callers : visit[d].pc = "duplicate" /\ visit[d].trip # 0} :
    visit[c].since = Moment /\ Cardinality(Matches(visit[c].slug)) = 1 =>
      \A id \in Duplicates(visit[c]) :
        /\ Held(id).status # "active"
        /\ Serves(Held(id).scope, visit[c].scope)

\* What removals, races and half-done round trips leave behind is no more than
\* this.
LeftoverExplained == NoDuplicates /\ NoneDangling /\ ReconnectBlocked

===============================================================================
