--------------------------- MODULE SourceProviders ---------------------------
(***************************************************************************)
(* The providers behind data source nodes, and the registry that finds     *)
(* them.  A call of a provider fills a bucket; what it may leave there is  *)
(* a set of outcomes, one for each way its requests may end.               *)
(***************************************************************************)
EXTENDS LogoPicker

\* The values that flow along connections.  Objects are references into a
\* heap, the others have no identity that matters.
Undefined == [is |-> "undefined"]
Text(word) == [is |-> "text", of |-> word]
List(items) == [is |-> "list", items |-> items]
Ref(address) == [is |-> "object", at |-> address]

No == [is |-> "no"]   \* false

Nothing == <<>>     \* the object without keys

\* The object {...base, ...more}.
Spread(base, more) ==
  [key \in DOMAIN base \cup DOMAIN more |-> IF key \in DOMAIN more THEN more[key] ELSE base[key]]

\* connectorClass of a catalogue row, and the slug that its connector is
\* registered under.
ConnectorSlug ==
  [WebScraper |-> "web-scraper", Browserless |-> "browserless", Semrush |-> "semrush",
   OpenAI |-> "openai", Google |-> "google", Instagram |-> "instagram",
   LogoPicker |-> "logo-picker", Pravatar |-> "pravatar"]

\* dataSourceSlug of nodes older than providerKey.  These are names of
\* classes, not slugs.
LegacyProvider ==
  [x \in {"web-scraper", "logo-picker", "semrush-keywords", "openai-research"} |->
     CASE x = "web-scraper" -> "WebScraper" [] x = "logo-picker" -> "LogoPicker"
       [] x = "semrush-keywords" -> "Semrush" [] x = "openai-research" -> "OpenAI"]

\* The slugs with a connector, from the classes of the active catalogue rows at
\* start-up.  Without any such row every connector is registered.
Registered(rows) ==
  {ConnectorSlug[class] : class \in
     IF rows = {} THEN DOMAIN ConnectorSlug ELSE rows \cap DOMAIN ConnectorSlug}

\* The provider a node names by its providerKey or, without one, by its legacy
\* slug; {} if it names none.
ProviderSlug(node) ==
  IF node.provider # "none"
    THEN {IF node.provider \in DOMAIN ConnectorSlug
            THEN ConnectorSlug[node.provider] ELSE node.provider}
    ELSE {LegacyProvider[x] : x \in {node.legacy} \cap DOMAIN LegacyProvider}

-------------------------------------------------------------------------------
\* The connection contracts: the inputs a provider requires, its outputs and
\* what each of them is.  Inputs it may do without need no text.
Contract(required, outputs) ==
  [required |-> required, outputs |-> Spread([payload |-> "object"], outputs)]

WebScraperContract  == Contract({"websiteUrl"}, [html |-> "text"])
BrowserlessContract == Contract({"websiteUrl"}, [html |-> "text"])
SemrushContract     == Contract({"websiteUrl"}, <<>>)
LogoPickerContract  == Contract({"pageHtml"}, <<>>)
PravatarContract    == Contract({"seed"}, <<>>)
OpenAiContract      == Contract({"websiteUrl"}, <<>>)
GoogleContract      == Contract({}, <<>>)
InstagramContract   == Contract({}, [profile |-> "object", insights |-> "object", recentMedia |-> "list"])

\* provider-connection-contracts.registry.ts, by the slug of the connector.
Contracts ==
  [slug \in {ConnectorSlug[class] : class \in DOMAIN ConnectorSlug} |->
     CASE slug = "web-scraper" -> WebScraperContract [] slug = "browserless" -> BrowserlessContract
       [] slug = "semrush" -> SemrushContract        [] slug = "logo-picker" -> LogoPickerContract
       [] slug = "pravatar" -> PravatarContract      [] slug = "openai" -> OpenAiContract
       [] slug = "google" -> GoogleContract          [] slug = "instagram" -> InstagramContract]

-------------------------------------------------------------------------------
\* A call is a record: the values at the node's ports, whether its definition
\* declares required inputs, whether the node is required, the credentials of
\* the organization's connection ("none", "bare", "key", "unreadable" or
\* "token"), and what the page it looks at contains.  An outcome is the objects the provider made,
\* the bucket first, to be placed in the heap after address `base`; a call that
\* throws leaves none.
Throws == [ok |-> FALSE, objects |-> <<>>]
Fills(objects) == [ok |-> TRUE, objects |-> objects]

TextAt(call, port) ==
  /\ port \in DOMAIN call.inputs
  /\ call.inputs[port].is = "text"
  /\ call.inputs[port].of # ""

\* getRequiredInputPortKeysFromBuilderAsset and requireTrimmedStringAtPort.
Ready(call, port) == call.declared /\ TextAt(call, port)

\* decrypt throws: the key was encrypted under another ENCRYPTION_KEY, or is not
\* an encrypted text.  One that decrypts to something else is a key that the
\* services refuse.
Unreadable(call) == call.connection = "unreadable"

\* The services of the scraper and of Semrush let no error of a request through:
\* without a key, or if the request fails, what comes back is a page without
\* text, or figures that are not available.
Answered(call, without, answer) == {without} \cup (IF call.connection = "key" THEN {answer} ELSE {})

Scraped(call) == Answered(call, Text(""), Text("html"))

WebScraper(call, base) ==
  IF ~Ready(call, "websiteUrl") \/ Unreadable(call) THEN {Throws}
  ELSE {Fills(<<[payload |-> Ref(base + 2), html |-> text], [url |-> Text("url"), text |-> text]>>) :
          text \in Scraped(call)}

DomainOverview(call) ==
  Answered(call, [domain |-> Text("url"), traffic |-> Text("N/A")],
           [domain |-> Text("url"), raw |-> Text("figures")])

Keywords(call) == Answered(call, List(<<>>), Text("figures"))

\* Two requests, each of which may fail alone.
Semrush(call, base) ==
  IF ~Ready(call, "websiteUrl") \/ Unreadable(call) THEN {Throws}
  ELSE {Fills(<<[domainOverview |-> Ref(base + 2), keywords |-> Ref(base + 3)], overview,
                [domain |-> Text("url"), keywords |-> found]>>) :
          overview \in DomainOverview(call), found \in Keywords(call)}

\* BROWSERLESS_TOKEN may stand in for the key of the connection, and the page
\* may be empty.
Browserless(call, base) ==
  IF ~Ready(call, "websiteUrl") \/ Unreadable(call) THEN {Throws}
  ELSE {Throws} \cup {Fills(<<[payload |-> html, html |-> html]>>) : html \in {Text("html"), Text("")}}

Pravatar(call, base) ==
  IF ~Ready(call, "seed") THEN {Throws}
  ELSE {Fills(<<[payload |-> Text("avatar")]>>)}

\* Two stubs decrypt the key and gather nothing; only the second reads an input
\* it needs.
Google(call, base) == {IF Unreadable(call) THEN Throws ELSE Fills(<<Nothing>>)}

OpenAi(call, base) ==
  IF ~Ready(call, "websiteUrl") \/ Unreadable(call) THEN {Throws} ELSE {Fills(<<Nothing>>)}

\* Each of the requests may fail but those for the insights of single media,
\* for which there is no request if includeMedia is false; an optional node
\* keeps what it has so far.
Instagram(call, base) ==
  LET profile  == [profile |-> Ref(base + 2)]
      insights == Spread(profile, [insights |-> Ref(base + 3)])
      media    == List(<<Text("media")>>)
      top      == Spread(insights, [recentMedia |-> media, topMediaWithInsights |-> media])
      brief    == "includeMedia" \in DOMAIN call.inputs /\ call.inputs.includeMedia = No
      gathered == CASE call.connection # "token" -> {Nothing} [] brief -> {Nothing, profile}
                    [] OTHER -> {Nothing, profile, insights}
      Made(bucket) ==
        Fills(<<bucket, [username |-> Text("profile")], [reach |-> Text("figures")]>>)
  IN (IF call.connection = "token" THEN {Made(IF brief THEN insights ELSE top)} ELSE {})
     \cup (IF call.required THEN {Throws}
           ELSE {Made(Spread(b, [error |-> Text("error")])) : b \in gathered})

\* Mutant of LogoProvider: an optional node fails as a required one does.
LogoProviderStrict(call, base) ==
  LET uploads(logo) ==
        IF "malformed" \in logo.words THEN {Throws}
        ELSE {Fills(<<[logoUrl |-> Text("stored")]>>), Throws}
  IN IF ~TextAt(call, "pageHtml") THEN {Throws}
     ELSE IF Pick(call.page) = {} THEN {Throws}
     ELSE UNION {uploads(logo) : logo \in Pick(call.page)}

\* extractHtml: config.htmlInputKey may name another port, for optional nodes.
PageHtml(call) ==
  TextAt(call, "pageHtml") \/ (~call.required /\ TextAt(call, call.htmlKey))

\* resolveLogoForUpload.
Resolvable(logo) == logo.kind = "svg" \/ "malformed" \notin logo.words

\* The image is fetched and put into S3 under a new key, or one of the two fails.
Uploaded == {{Text("stored")}, {}}

\* A required node fails with whatever fails; an optional one returns an empty
\* bucket or, if only the upload failed, the logo as it was found.
LogoProvider(call, base) ==
  LET otherwise(outcome) == IF call.required THEN Throws ELSE outcome
      Logo(url) == Fills(<<[logoUrl |-> url]>>)
      Plausible(logo) == Resolvable(logo) /\ (logo.kind = "url" => ~ClearlyNotLogo(logo.words))
      Made(logo) ==
        IF ~Plausible(logo) THEN {otherwise(Fills(<<Nothing>>))}
        ELSE {IF stored = {} THEN otherwise(Logo(Text(logo.kind)))
              ELSE Logo(CHOOSE url \in stored : TRUE) : stored \in Uploaded}
  IN IF ~PageHtml(call) \/ Pick(call.page) = {} THEN {otherwise(Fills(<<Nothing>>))}
     ELSE UNION {Made(logo) : logo \in Pick(call.page)}

Outcomes(slug, call, base) ==
  CASE slug = "web-scraper" -> WebScraper(call, base)
    [] slug = "browserless" -> Browserless(call, base)
    [] slug = "semrush"     -> Semrush(call, base)
    [] slug = "openai"      -> OpenAi(call, base)
    [] slug = "google"      -> Google(call, base)
    [] slug = "instagram"   -> Instagram(call, base)
    [] slug = "logo-picker" -> LogoProvider(call, base)
    [] slug = "pravatar"    -> Pravatar(call, base)

===============================================================================
