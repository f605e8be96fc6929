-------------------------- MODULE NodeExecution_proofs --------------------------
(***************************************************************************)
(* Proofs about NodeExecution, for any designs.                            *)
(***************************************************************************)
EXTENDS NodeExecution, FlowExecution_proofs

\* The flow is the one of the design, whatever its nodes compute.
Designed == design \in Designs /\ graph = design.graph

LEMMA DesignedKept ==
  ASSUME Designed, [NodeNext]_<<vars, nodeVars>>
  PROVE  Designed'
<1>1. UNCHANGED <<design, graph>>
  BY DEF NodeNext, vars, nodeVars, SortNode, SortRest, LoadConnections, Refuse, Propagate, At,
         ExecuteInput, ExecuteSource, ExecuteMapper, ExecuteMerger, ExecuteSchema, ExecuteAi,
         ExecuteTerminal, ExecutePassthrough, Runs, ConcludeReport
<1> QED
  BY <1>1 DEF Designed

\* An executor's node completes or fails by itself.
LEMMA ExecutorStep ==
  ASSUME NEW n \in Nodes,
         \/ ExecuteInput(n) \/ ExecuteSource(n) \/ ExecuteMapper(n) \/ ExecuteMerger(n)
         \/ ExecuteSchema(n) \/ ExecuteAi(n) \/ ExecuteTerminal(n) \/ ExecutePassthrough(n)
  PROVE  Execute(n)
<1>1. Record(n, "completed", FALSE) \/ Record(n, "failed", TRUE)
  BY DEF ExecuteInput, ExecuteSource, ExecuteMapper, ExecuteMerger, ExecuteSchema, ExecuteAi,
         ExecuteTerminal, ExecutePassthrough, Completes, Fails
<1>2. At(n) /\ ~Blocked(n) /\ UNCHANGED pc
  BY DEF ExecuteInput, ExecuteSource, ExecuteMapper, ExecuteMerger, ExecuteSchema, ExecuteAi,
         ExecuteTerminal, ExecutePassthrough, Runs
<1> QED
  BY <1>1, <1>2 DEF Execute

\* Two wires with a value at one port of a mapper are two connections.
LEMMA RefuseStep ==
  ASSUME Designed, NEW n \in Nodes, Refuse(n)
  PROVE  ClashThrows(n)
<1>1. PICK v, w \in ToSet(design.wires) :
        /\ v # w /\ v.link.port = w.link.port
        /\ v.link.target = n /\ w.link.target = n
        /\ Carries(v) /\ Carries(w)
  BY DEF Refuse, ClashAt
<1>2. PICK i \in DOMAIN design.wires, j \in DOMAIN design.wires :
        v = design.wires[i] /\ w = design.wires[j]
  BY <1>1 DEF ToSet
<1>3. /\ graph.links = {design.wires[k].link : k \in DOMAIN design.wires}
      /\ v.link # w.link
  BY <1>1, <1>2, DesignAssumption DEF Designed, Configured
<1>4. v.link \in Into(n) /\ w.link \in Into(n)
  BY <1>1, <1>2, <1>3 DEF Into
<1>5. Clash(n)
  BY <1>1, <1>3, <1>4 DEF Clash, Carries, Refuse, ClashAt, IsMapper
<1> QED
  BY <1>5 DEF Refuse, ClashThrows

\* Which data are returned is one of the choices that FlowExecution leaves.
LEMMA ConcludeStep == ConcludeReport => Conclude
<1> SUFFICES ASSUME ConcludeReport PROVE Conclude
  OBVIOUS
<1>1. CASE failures # {}
  BY <1>1 DEF ConcludeReport, Conclude
<1>2. CASE failures = {} /\ CompletedOf("terminal") # {}
  BY <1>2 DEF ConcludeReport, Conclude, Data
<1>3. CASE failures = {} /\ CompletedOf("terminal") = {}
  <2> DEFINE S == {n \in CompletedOf("ai") : Truthy(Key(outputs[n], "result"))}
  <2>1. data' = First(S) /\ S \in SUBSET CompletedOf("ai")
    BY <1>3 DEF ConcludeReport, Answering
  <2> HIDE DEF S
  <2>2. data' \in Data
    BY <1>3, <2>1 DEF Data
  <2> QED
    BY <1>3, <2>2 DEF ConcludeReport, Conclude
<1> QED
  BY <1>1, <1>2, <1>3

\* Each step of the run with values is a step of the run without them.
LEMMA StepMaps ==
  ASSUME Designed, [NodeNext]_<<vars, nodeVars>>
  PROVE  [Next]_vars
<1>1. CASE (SortNode \/ SortRest \/ LoadConnections) /\ UNCHANGED nodeVars
  BY <1>1 DEF Next
<1>2. ASSUME NEW n \in Nodes, Refuse(n) PROVE Next
  BY <1>2, RefuseStep DEF Next
<1>3. ASSUME NEW n \in Nodes, Propagate(n) PROVE Next
  BY <1>3 DEF Next
<1>4. ASSUME NEW n \in Nodes,
             \/ ExecuteInput(n) \/ ExecuteSource(n) \/ ExecuteMapper(n) \/ ExecuteMerger(n)
             \/ ExecuteSchema(n) \/ ExecuteAi(n) \/ ExecuteTerminal(n) \/ ExecutePassthrough(n)
      PROVE  Next
  BY <1>4, ExecutorStep DEF Next
<1>5. CASE ConcludeReport
  BY <1>5, ConcludeStep DEF Next
<1>6. CASE UNCHANGED <<vars, nodeVars>>
  BY <1>6
<1> QED
  BY <1>1, <1>2, <1>3, <1>4, <1>5, <1>6 DEF NodeNext

LEMMA DesignedInit == NodeInit => Designed /\ Init
BY DEF NodeInit, Designed

(***************************************************************************)
(* The run with values implements the run without them, for all designs:   *)
(* what runPublishedFlow does to nodes, tries and failures never depends   *)
(* on values but for the choice of a step.                                 *)
(***************************************************************************)
THEOREM ValuesFollowFlow == NodeSpec => FlowSpec
<1>1. Designed /\ [NodeNext]_<<vars, nodeVars>> => Designed' /\ [Next]_vars
  BY DesignedKept, StepMaps
<1> QED
  BY <1>1, DesignedInit, PTL DEF NodeSpec, FlowSpec, Spec

-------------------------------------------------------------------------------
(***************************************************************************)
(* The scores of logo candidates: no image and no SVG gets as many points  *)
(* as a logo that the page names in JSON-LD.                               *)
(***************************************************************************)
LEMMA PointsRange ==
  ASSUME NEW holds, NEW n \in Nat
  PROVE  Points(holds, n) \in 0..n
BY DEF Points

LEMMA ImageScoreBound ==
  ASSUME NEW image
  PROVE  ImageScore(image) \in Int /\ ImageScore(image) < JsonLdScore
<1> DEFINE href == image.href
           strong == Strong(href) \/ Strong(image.tag)
           region == CASE InHeader(image.inside)           -> 35
                       [] Region(image.inside) = "nav"     -> 28
                       [] Region(image.inside) = "footer"  -> 8
                       [] Region(image.inside) = "other"   -> 0
           named == IF Strong(image.tag) THEN 55 ELSE Points(Strong(href), 50)
           a == Points("mild" \in image.tag, 12)
           b == Points("mild" \in href /\ strong, 8)
           c == Points("svg" \in href, 6)
           d == Points("sprite" \in href /\ ~Strong(href), 25)
           e == Points("hero" \in href, 20)
           f == Points("favicon" \in href /\ ~strong, 15)
           g == Points("small" \in href, 25)
           h == Points("touch" \in href /\ ~Strong(image.tag), 10)
           i == Points("user" \in href /\ ~strong, 30)
<1>1. region \in 0..35
  BY DEF Region, InHeader
<1>2. named \in 0..55
  BY PointsRange, Points(Strong(href), 50) \in 0..50
<1>3. /\ a \in 0..12 /\ b \in 0..8 /\ c \in 0..6 /\ d \in 0..25 /\ e \in 0..20
      /\ f \in 0..15 /\ g \in 0..25 /\ h \in 0..10 /\ i \in 0..30
  BY PointsRange
<1>4. ImageScore(image) \in {-200, -40, region + named + a + b + c - d - e - f - g - h - i}
  BY DEF ImageScore
<1> HIDE DEF region, named, a, b, c, d, e, f, g, h, i
<1> QED
  BY <1>1, <1>2, <1>3, <1>4 DEF JsonLdScore

LEMMA SvgScoreBound ==
  ASSUME NEW svg, SvgScore(svg) >= 5
  PROVE  LET score == SvgScore(svg) + Points(InHeader(svg.inside), 10)
         IN score \in Int /\ score < JsonLdScore
<1> DEFINE a == Points("header" \in svg.before, 30)
           b == Points("nav" \in svg.before, 20)
           c == Points("mark" \in svg.code \cup svg.before, 50)
           d == Points("short" \in svg.code, 5)
           e == Points(InHeader(svg.inside), 10)
<1>1. a \in 0..30 /\ b \in 0..20 /\ c \in 0..50 /\ d \in 0..5 /\ e \in 0..10
  BY PointsRange
<1>2. SvgScore(svg) \in {-20, a + b + c - d}
  BY DEF SvgScore
<1> HIDE DEF a, b, c, d
<1>3. SvgScore(svg) \in Int /\ SvgScore(svg) <= 100
  BY <1>1, <1>2
<1> QED
  BY <1>1, <1>3 DEF JsonLdScore

LEMMA CandidateScores ==
  ASSUME NEW page, NEW c \in Candidates(page)
  PROVE  /\ c.score \in Int
         /\ IF c.from = "jsonLd" THEN c.score = JsonLdScore ELSE c.score < JsonLdScore
<1>1. CASE c \in JsonLdCandidates(page)
  BY <1>1 DEF JsonLdCandidates, JsonLdScore
<1>2. CASE c \in ImageCandidates(page)
  <2>1. PICK i \in DOMAIN page.images :
          c.from = "img" /\ c.score = ImageScore(page.images[i])
    BY <1>2 DEF ImageCandidates
  <2> QED
    BY <2>1, ImageScoreBound
<1>3. CASE c \in SvgCandidates(page)
  <2> DEFINE Score(k) == SvgScore(page.svgs[k]) + Points(InHeader(page.svgs[k].inside), 10)
  <2>1. PICK i \in {k \in DOMAIN page.svgs : SvgScore(page.svgs[k]) >= 5} :
          c = [kind |-> "svg", words |-> page.svgs[i].code, from |-> "svg", score |-> Score(i),
               place |-> Len(page.jsonLd) + Len(page.images) + i]
    BY <1>3, Zenon DEF SvgCandidates
  <2> QED
    BY <2>1, SvgScoreBound
<1> QED
  BY <1>1, <1>2, <1>3 DEF Candidates

LEMMA LogoIsRight == LogoRight
<1> SUFFICES ASSUME NEW logo \in Pick(design.page)
             PROVE  LET named == {words \in ToSet(design.page.jsonLd) : ~ClearlyNotLogo(words)}
                    IN /\ named # {} => logo.from = "jsonLd"
                       /\ logo.score < 8 => design.page.jsonLd # <<>> /\ named = {}
  BY DEF LogoRight
<1> DEFINE page == design.page
           named == {words \in ToSet(page.jsonLd) : ~ClearlyNotLogo(words)}
<1>1. /\ logo \in Candidates(page)
      /\ \A d \in Candidates(page) : d.score < logo.score \/ d.score = logo.score
      /\ logo.score >= 8 \/ page.jsonLd # <<>>
  BY DEF Pick
<1>2. ASSUME named # {} PROVE logo.from = "jsonLd" /\ logo.score = JsonLdScore
  <2>1. PICK i \in DOMAIN page.jsonLd : ~ClearlyNotLogo(page.jsonLd[i])
    BY <1>2 DEF ToSet
  <2>2. PICK d \in Candidates(page) : d.score = JsonLdScore
    <3>1. [kind |-> "url", words |-> page.jsonLd[i], from |-> "jsonLd",
           score |-> JsonLdScore, place |-> i] \in Candidates(page)
      BY <2>1 DEF Candidates, JsonLdCandidates
    <3> QED
      BY <3>1
  <2>3. logo.score \in Int /\ ~(logo.score < JsonLdScore)
    BY <1>1, <2>2, CandidateScores DEF JsonLdScore
  <2> QED
    BY <1>1, <2>3, CandidateScores
<1>3. logo.score \in Int
  BY <1>1, CandidateScores
<1> QED
  BY <1>1, <1>2, <1>3 DEF JsonLdScore

(***************************************************************************)
(* Whatever a page shows, a plausible logo that it names in JSON-LD is     *)
(* preferred, and only a page that names implausible ones gets by with few *)
(* points.                                                                 *)
(***************************************************************************)
THEOREM NamedLogosFirst == NodeSpec => []LogoRight
BY LogoIsRight, PTL

-------------------------------------------------------------------------------
(***************************************************************************)
(* The elements at some places of a sequence, in their order.              *)
(***************************************************************************)
LEMMA Ranked ==
  ASSUME NEW m \in Nat, NEW I \in SUBSET (1..m)
  PROVE  /\ IsFiniteSet(I) /\ Cardinality(I) \in Nat
         /\ \A k \in 1..Cardinality(I) : Nth(I, k) \in I /\ Rank(I, Nth(I, k)) = k
         /\ \A i \in I : \E k \in 1..Cardinality(I) : Nth(I, k) = i
<1> DEFINE N == Cardinality(I)
           Upto(i) == {j \in I : j <= i}
           rank == [i \in I |-> Cardinality(Upto(i))]
<1>1. IsFiniteSet(I) /\ N \in Nat
  <2>1. IsFiniteSet(1..m)
    BY FS_Interval
  <2>2. IsFiniteSet(I)
    BY <2>1, FS_Subset
  <2> QED
    BY <2>2, FS_CardinalityType
<1>2. ASSUME NEW i \in I PROVE rank[i] \in 1..N
  <2>1. /\ Upto(i) \in SUBSET I /\ {i} \in SUBSET Upto(i)
    OBVIOUS
  <2>2. IsFiniteSet(Upto(i)) /\ Cardinality(Upto(i)) \in Nat /\ Cardinality(Upto(i)) <= N
    BY <1>1, <2>1, FS_Subset, FS_CardinalityType
  <2>3. Cardinality({i}) <= Cardinality(Upto(i)) /\ Cardinality({i}) = 1
    BY <2>1, <2>2, FS_Subset, FS_Singleton
  <2> HIDE DEF Upto, N
  <2> QED
    BY <1>1, <2>2, <2>3
<1>3. ASSUME NEW i \in I, NEW j \in I, i < j PROVE rank[i] # rank[j]
  <2>1. i \in Int /\ j \in Int /\ \A k \in I : k \in Int /\ (k <= i => k <= j)
    BY <1>3
  <2>2. Upto(i) \subseteq Upto(j)
    BY <2>1
  <2>4. j \in Upto(j)
    BY <2>1
  <2>5. j \notin Upto(i)
    BY <1>3, <2>1
  <2>3. IsFiniteSet(Upto(j))
    BY <1>1, FS_Subset
  <2> HIDE DEF Upto
  <2> QED
    BY <2>2, <2>3, <2>4, <2>5, FS_Subset
<1>4. rank \in Injection(I, 1..N)
  <2>1. \A i, j \in I : rank[i] = rank[j] => i = j
    <3> HIDE DEF rank
    <3> QED
      BY <1>3
  <2>2. rank \in [I -> 1..N]
    BY <1>2
  <2> HIDE DEF rank, N
  <2> QED
    BY <2>1, <2>2 DEF Injection, IsInjective
<1>5. rank \in Surjection(I, 1..N)
  <2>1. IsFiniteSet(1..N) /\ Cardinality(1..N) = N
    BY <1>1, FS_Interval
  <2> HIDE DEF rank
  <2> QED
    BY <1>4, <2>1, FS_Injection
<1>6. ASSUME NEW k \in 1..N PROVE Nth(I, k) \in I /\ rank[Nth(I, k)] = k
  <2>1. \E i \in I : rank[i] = k
    BY <1>5 DEF Surjection
  <2> QED
    BY <2>1 DEF Nth, Rank
<1>7. ASSUME NEW i \in I PROVE \E k \in 1..N : Nth(I, k) = i
  <2>1. rank[i] \in 1..N /\ Nth(I, rank[i]) \in I /\ rank[Nth(I, rank[i])] = rank[i]
    BY <1>2, <1>6
  <2> HIDE DEF rank
  <2> QED
    BY <1>4, <2>1 DEF Injection, IsInjective
<1>8. \A i \in I : Rank(I, i) = rank[i]
  BY DEF Rank
<1> QED
  BY <1>1, <1>6, <1>7, <1>8

LEMMA ChosenFrom ==
  ASSUME NEW s, Len(s) \in Nat, DOMAIN s = 1..Len(s), NEW I \in SUBSET DOMAIN s
  PROVE  /\ DOMAIN Chosen(s, I) = 1..Cardinality(I) /\ Cardinality(I) \in Nat
         /\ Len(Chosen(s, I)) = Cardinality(I)
         /\ \A k \in DOMAIN Chosen(s, I) : \E i \in I : Chosen(s, I)[k] = s[i]
         /\ \A i \in I : \E k \in DOMAIN Chosen(s, I) : Chosen(s, I)[k] = s[i]
<1> DEFINE c == Chosen(s, I)
           N == Cardinality(I)
           S == {s[i] : i \in I}
<1>1. /\ N \in Nat
      /\ \A k \in 1..N : Nth(I, k) \in I
      /\ \A i \in I : \E k \in 1..N : Nth(I, k) = i
  BY Ranked
<1>2. c = [k \in 1..N |-> s[Nth(I, k)]]
  BY DEF Chosen
<1> HIDE DEF N, c
<1>3. c \in [1..N -> S]
  BY <1>1, <1>2
<1>4. c \in Seq(S) /\ Len(c) = N
  BY <1>1, <1>3, LenProperties
<1> QED
  BY <1>1, <1>2, <1>4 DEF N, c

-------------------------------------------------------------------------------
(***************************************************************************)
(* The providers: what a call needs to be answered, and what an answer     *)
(* holds.                                                                  *)
(***************************************************************************)
Providers ==
  {"web-scraper", "browserless", "semrush", "openai", "google", "instagram", "logo-picker", "pravatar"}

LEMMA Connectors ==
  {ConnectorSlug[class] : class \in DOMAIN ConnectorSlug} = Providers
<1>1. DOMAIN ConnectorSlug =
        {"WebScraper", "Browserless", "Semrush", "OpenAI", "Google", "Instagram", "LogoPicker", "Pravatar"}
  BY DEF ConnectorSlug
<1>2. /\ ConnectorSlug["WebScraper"] = "web-scraper" /\ ConnectorSlug["Browserless"] = "browserless"
      /\ ConnectorSlug["Semrush"] = "semrush"        /\ ConnectorSlug["OpenAI"] = "openai"
      /\ ConnectorSlug["Google"] = "google"          /\ ConnectorSlug["Instagram"] = "instagram"
      /\ ConnectorSlug["LogoPicker"] = "logo-picker" /\ ConnectorSlug["Pravatar"] = "pravatar"
  BY DEF ConnectorSlug
<1> QED
  BY <1>1, <1>2 DEF Providers

LEMMA KnownSlugs ==
  ASSUME NEW rows
  PROVE  Registered(rows) \subseteq Providers
BY Connectors DEF Registered

\* A node names at most one provider; in the old way, none that is registered.
LEMMA OneProvider ==
  ASSUME NEW node, NEW a \in ProviderSlug(node), NEW b \in ProviderSlug(node)
  PROVE  a = b
BY DEF ProviderSlug

LEMMA LegacyUnknown ==
  ASSUME NEW node, node.provider = "none"
  PROVE  ProviderSlug(node) \cap Providers = {}
BY DEF ProviderSlug, LegacyProvider, Providers

LEMMA ContractOf ==
  /\ Contracts["web-scraper"] = WebScraperContract /\ Contracts["browserless"] = BrowserlessContract
  /\ Contracts["semrush"] = SemrushContract        /\ Contracts["logo-picker"] = LogoPickerContract
  /\ Contracts["pravatar"] = PravatarContract      /\ Contracts["openai"] = OpenAiContract
  /\ Contracts["google"] = GoogleContract          /\ Contracts["instagram"] = InstagramContract
<1>1. \A slug \in Providers : Contracts[slug] =
        CASE slug = "web-scraper" -> WebScraperContract [] slug = "browserless" -> BrowserlessContract
          [] slug = "semrush" -> SemrushContract        [] slug = "logo-picker" -> LogoPickerContract
          [] slug = "pravatar" -> PravatarContract      [] slug = "openai" -> OpenAiContract
          [] slug = "google" -> GoogleContract          [] slug = "instagram" -> InstagramContract
  BY Connectors DEF Contracts
<1> QED
  BY <1>1 DEF Providers

\* What each provider requires and promises.
LEMMA Required ==
  /\ \A slug \in {"web-scraper", "browserless", "semrush", "openai"} :
       Contracts[slug].required = {"websiteUrl"}
  /\ Contracts["pravatar"].required = {"seed"}
BY ContractOf DEF WebScraperContract, BrowserlessContract, SemrushContract, OpenAiContract,
   PravatarContract, Contract

LEMMA Promised ==
  /\ \A slug \in Providers : Contracts[slug].outputs["payload"] = "object"
  /\ \A slug \in {"web-scraper", "browserless"} :
       DOMAIN Contracts[slug].outputs = {"payload", "html"} /\ Contracts[slug].outputs["html"] = "text"
  /\ \A slug \in {"semrush", "logo-picker", "pravatar", "openai", "google"} :
       DOMAIN Contracts[slug].outputs = {"payload"}
  /\ DOMAIN Contracts["instagram"].outputs = {"payload", "profile", "insights", "recentMedia"}
  /\ Contracts["instagram"].outputs["profile"] = "object"
  /\ Contracts["instagram"].outputs["insights"] = "object"
  /\ Contracts["instagram"].outputs["recentMedia"] = "list"
<1>1. DOMAIN <<>> = {}
  BY EmptySeq, LenProperties
<1>2. ASSUME NEW slug \in {"semrush", "logo-picker", "pravatar", "openai", "google"}
      PROVE  Contracts[slug].outputs = Spread([payload |-> "object"], <<>>)
  BY ContractOf DEF SemrushContract, LogoPickerContract, PravatarContract, OpenAiContract,
     GoogleContract, Contract
<1>3. ASSUME NEW slug \in {"web-scraper", "browserless"}
      PROVE  Contracts[slug].outputs = Spread([payload |-> "object"], [html |-> "text"])
  BY ContractOf DEF WebScraperContract, BrowserlessContract, Contract
<1>4. Contracts["instagram"].outputs =
        Spread([payload |-> "object"], [profile |-> "object", insights |-> "object", recentMedia |-> "list"])
  BY ContractOf DEF InstagramContract, Contract
<1>5. /\ DOMAIN Spread([payload |-> "object"], <<>>) = {"payload"}
      /\ Spread([payload |-> "object"], <<>>)["payload"] = "object"
  BY <1>1 DEF Spread
<1>6. LET o == Spread([payload |-> "object"], [html |-> "text"])
      IN DOMAIN o = {"payload", "html"} /\ o["payload"] = "object" /\ o["html"] = "text"
  BY DEF Spread
<1>7. LET o == Spread([payload |-> "object"], [profile |-> "object", insights |-> "object", recentMedia |-> "list"])
      IN /\ DOMAIN o = {"payload", "profile", "insights", "recentMedia"}
         /\ o["payload"] = "object" /\ o["profile"] = "object" /\ o["insights"] = "object" /\ o["recentMedia"] = "list"
  BY DEF Spread
<1> QED
  BY <1>2, <1>3, <1>4, <1>5, <1>6, <1>7 DEF Providers

\* What excuses a call without an answer.
Excuse(slug, call) ==
  \/ call.required \/ slug = "browserless"
  \/ slug # "logo-picker" /\ \E port \in Contracts[slug].required : ~Ready(call, port)
  \/ slug \in Decrypting /\ Unreadable(call)

LEMMA Filled == \A objects : Fills(objects).ok /\ Fills(objects).objects = objects
BY DEF Fills

LEMMA OutcomesOf ==
  ASSUME NEW call, NEW base
  PROVE  /\ Outcomes("web-scraper", call, base) = WebScraper(call, base)
         /\ Outcomes("browserless", call, base) = Browserless(call, base)
         /\ Outcomes("semrush", call, base) = Semrush(call, base)
         /\ Outcomes("openai", call, base) = OpenAi(call, base)
         /\ Outcomes("google", call, base) = Google(call, base)
         /\ Outcomes("instagram", call, base) = Instagram(call, base)
         /\ Outcomes("logo-picker", call, base) = LogoProvider(call, base)
         /\ Outcomes("pravatar", call, base) = Pravatar(call, base)
BY DEF Outcomes

\* The image that an optional node picked, uploaded or not.
LEMMA LogoAnswers ==
  ASSUME NEW call, NEW base, ~call.required
  PROVE  /\ LogoProvider(call, base) # {}
         /\ \A made \in LogoProvider(call, base) : made.ok
<1> DEFINE otherwise(outcome) == IF call.required THEN Throws ELSE outcome
           Logo(url) == Fills(<<[logoUrl |-> url]>>)
           Plausible(logo) == Resolvable(logo) /\ (logo.kind = "url" => ~ClearlyNotLogo(logo.words))
           Made(logo) ==
             IF ~Plausible(logo) THEN {otherwise(Fills(<<Nothing>>))}
             ELSE {IF stored = {} THEN otherwise(Logo(Text(logo.kind)))
                   ELSE Logo(CHOOSE url \in stored : TRUE) : stored \in Uploaded}
<1>1. ASSUME NEW logo PROVE Made(logo) # {} /\ \A made \in Made(logo) : made.ok
  BY Filled DEF Uploaded
<1>2. LogoProvider(call, base) =
        IF ~PageHtml(call) \/ Pick(call.page) = {} THEN {otherwise(Fills(<<Nothing>>))}
        ELSE UNION {Made(logo) : logo \in Pick(call.page)}
  BY DEF LogoProvider
<1>3. otherwise(Fills(<<Nothing>>)).ok
  BY Filled
<1> HIDE DEF otherwise, Made
<1> QED
  BY <1>1, <1>2, <1>3

LEMMA FailureExcused ==
  ASSUME NEW slug \in Providers, NEW call, NEW base,
         Outcomes(slug, call, base) = {} \/ \E made \in Outcomes(slug, call, base) : ~made.ok
  PROVE  Excuse(slug, call)
<1> SUFFICES ASSUME ~Excuse(slug, call)
             PROVE  /\ Outcomes(slug, call, base) # {}
                    /\ \A made \in Outcomes(slug, call, base) : made.ok
  OBVIOUS
<1>1. ~call.required /\ slug # "browserless"
  BY DEF Excuse
<1>2. CASE slug \in {"web-scraper", "semrush", "openai"}
  <2>1. Ready(call, "websiteUrl") /\ ~Unreadable(call)
    BY <1>2, Required DEF Excuse, Decrypting
  <2>2. Scraped(call) # {} /\ DomainOverview(call) # {} /\ Keywords(call) # {}
    BY DEF Scraped, DomainOverview, Keywords, Answered
  <2>3. CASE slug = "web-scraper"
    <3> DEFINE Made(text) ==
                 Fills(<<[payload |-> Ref(base + 2), html |-> text], [url |-> Text("url"), text |-> text]>>)
    <3>1. Outcomes(slug, call, base) = {Made(text) : text \in Scraped(call)}
      BY <2>1, <2>3, OutcomesOf DEF WebScraper
    <3>2. \A text : Made(text).ok
      BY Filled
    <3> HIDE DEF Made
    <3> QED
      BY <2>2, <3>1, <3>2
  <2>4. CASE slug = "semrush"
    <3> DEFINE Made(overview, found) ==
                 Fills(<<[domainOverview |-> Ref(base + 2), keywords |-> Ref(base + 3)], overview,
                         [domain |-> Text("url"), keywords |-> found]>>)
    <3>1. Outcomes(slug, call, base) = Semrush(call, base)
      BY <2>4, OutcomesOf
    <3>2. ASSUME NEW made \in Semrush(call, base)
          PROVE  \E overview \in DomainOverview(call), found \in Keywords(call) : made = Made(overview, found)
      BY <2>1 DEF Semrush
    <3>4. ASSUME NEW overview \in DomainOverview(call), NEW found \in Keywords(call)
          PROVE  Made(overview, found) \in Semrush(call, base)
      BY <2>1 DEF Semrush
    <3>3. \A overview, found : Made(overview, found).ok
      BY Filled
    <3> HIDE DEF Made
    <3>5. Semrush(call, base) # {}
      BY <2>2, <3>4
    <3>6. ASSUME NEW made \in Semrush(call, base) PROVE made.ok
      <4>1. PICK overview \in DomainOverview(call), found \in Keywords(call) : made = Made(overview, found)
        BY <3>2
      <4> QED
        BY <3>3, <4>1
    <3> QED
      BY <3>1, <3>5, <3>6
  <2>5. CASE slug = "openai"
    BY <2>1, <2>5, OutcomesOf, Filled DEF OpenAi
  <2> QED
    BY <1>2, <2>3, <2>4, <2>5
<1>3. CASE slug = "google"
  <2>1. ~Unreadable(call)
    BY <1>3 DEF Excuse, Decrypting
  <2> QED
    BY <1>3, <2>1, OutcomesOf, Filled DEF Google
<1>4. CASE slug = "pravatar"
  <2>1. Ready(call, "seed")
    BY <1>4, Required DEF Excuse
  <2> QED
    BY <1>4, <2>1, OutcomesOf, Filled DEF Pravatar
<1>5. CASE slug = "logo-picker"
  BY <1>1, <1>5, LogoAnswers, OutcomesOf
<1>6. CASE slug = "instagram"
  <2> DEFINE first == [profile |-> Ref(base + 2)]
             insights == Spread(first, [insights |-> Ref(base + 3)])
             media == List(<<Text("media")>>)
             top == Spread(insights, [recentMedia |-> media, topMediaWithInsights |-> media])
             brief == "includeMedia" \in DOMAIN call.inputs /\ call.inputs.includeMedia = No
             gathered == CASE call.connection # "token" -> {Nothing} [] brief -> {Nothing, first}
                           [] OTHER -> {Nothing, first, insights}
             Made(bucket) ==
               Fills(<<bucket, [username |-> Text("profile")], [reach |-> Text("figures")]>>)
  <2>1. Instagram(call, base) =
          (IF call.connection = "token" THEN {Made(IF brief THEN insights ELSE top)} ELSE {})
          \cup {Made(Spread(b, [error |-> Text("error")])) : b \in gathered}
    BY <1>1 DEF Instagram
  <2>2. Nothing \in gathered
    OBVIOUS
  <2>3. \A b : Made(b).ok
    BY Filled
  <2> HIDE DEF gathered, Made
  <2> QED
    BY <1>6, <2>1, <2>2, <2>3, OutcomesOf
<1> QED
  BY <1>1, <1>2, <1>3, <1>4, <1>5, <1>6 DEF Providers

LEMMA ValueKinds ==
  ASSUME NEW x
  PROVE  Ref(x).is = "object" /\ List(x).is = "list" /\ Text(x).is = "text"
BY DEF Ref, List, Text

\* A port of an answer is what the contract promises.
Matching(slug, left) ==
  \A port \in (DOMAIN Contracts[slug].outputs \cap DOMAIN left) \ {"payload"} :
    left[port].is = Contracts[slug].outputs[port]

LEMMA ScrapedPage ==
  ASSUME NEW base, NEW call, NEW made \in WebScraper(call, base) \cup Browserless(call, base), made.ok
  PROVE  LET left == made.objects[1]
         IN DOMAIN left = {"payload", "html"} /\ left["html"].is = "text"
<1>1. ASSUME NEW x, NEW text, text.is = "text", NEW rest,
             made.objects = <<[payload |-> x, html |-> text]>>
             \/ made.objects = <<[payload |-> x, html |-> text], rest>>
      PROVE  LET left == made.objects[1]
             IN DOMAIN left = {"payload", "html"} /\ left["html"].is = "text"
  <2>1. made.objects[1] = [payload |-> x, html |-> text]
    BY <1>1
  <2> QED
    BY <1>1, <2>1
<1>2. ~Throws.ok
  BY DEF Throws
<1>3. CASE made \in WebScraper(call, base)
  <2>1. PICK text \in Scraped(call) :
          made = Fills(<<[payload |-> Ref(base + 2), html |-> text], [url |-> Text("url"), text |-> text]>>)
    BY <1>2, <1>3 DEF WebScraper
  <2>2. text.is = "text"
    BY ValueKinds DEF Scraped, Answered
  <2> QED
    BY <1>1, <2>1, <2>2, Filled
<1>4. CASE made \in Browserless(call, base)
  <2>1. PICK html \in {Text("html"), Text("")} : made = Fills(<<[payload |-> html, html |-> html]>>)
    BY <1>2, <1>4 DEF Browserless
  <2>2. html.is = "text"
    BY <2>1, ValueKinds
  <2>3. made.objects = <<[payload |-> html, html |-> html]>>
    BY <2>1, Filled
  <2> QED
    BY <1>1, <2>2, <2>3
<1> QED
  BY <1>3, <1>4

LEMMA MediaGathered ==
  ASSUME NEW base, NEW call, NEW made \in Instagram(call, base), made.ok
  PROVE  LET left == made.objects[1]
         IN /\ "profile" \in DOMAIN left => left["profile"].is = "object"
            /\ "insights" \in DOMAIN left => left["insights"].is = "object"
            /\ "recentMedia" \in DOMAIN left => left["recentMedia"].is = "list"
<1> DEFINE first == [profile |-> Ref(base + 2)]
           insights == Spread(first, [insights |-> Ref(base + 3)])
           media == List(<<Text("media")>>)
           top == Spread(insights, [recentMedia |-> media, topMediaWithInsights |-> media])
           Made(bucket) ==
             Fills(<<bucket, [username |-> Text("profile")], [reach |-> Text("figures")]>>)
           Good(left) ==
             /\ "profile" \in DOMAIN left => left["profile"].is = "object"
             /\ "insights" \in DOMAIN left => left["insights"].is = "object"
             /\ "recentMedia" \in DOMAIN left => left["recentMedia"].is = "list"
             /\ DOMAIN left \subseteq {"profile", "insights", "recentMedia", "topMediaWithInsights"}
<1>1. Good(Nothing)
  <2>1. DOMAIN Nothing = {}
    BY EmptySeq, LenProperties DEF Nothing
  <2> QED
    BY <2>1
<1>2. Good(first)
  BY ValueKinds
<1>3. DOMAIN insights = {"profile", "insights"} /\ Good(insights)
  BY ValueKinds DEF Spread
<1>4. Good(top)
  <2> HIDE DEF insights, media
  <2>1. media.is = "list"
    BY ValueKinds DEF media
  <2> QED
    BY <1>3, <2>1 DEF Spread
<1>5. \A b : Made(b).objects[1] = b
  BY Filled
<1>6. \/ \E b \in {insights, top} : made = Made(b)
      \/ \E b \in {Nothing, first, insights} : made = Made(Spread(b, [error |-> Text("error")]))
  <2>1. ~Throws.ok
    BY DEF Throws
  <2> DEFINE brief == "includeMedia" \in DOMAIN call.inputs /\ call.inputs.includeMedia = No
             gathered == CASE call.connection # "token" -> {Nothing} [] brief -> {Nothing, first}
                           [] OTHER -> {Nothing, first, insights}
  <2>2. Instagram(call, base) =
          (IF call.connection = "token" THEN {Made(IF brief THEN insights ELSE top)} ELSE {})
          \cup (IF call.required THEN {Throws}
                ELSE {Made(Spread(b, [error |-> Text("error")])) : b \in gathered})
    BY DEF Instagram
  <2>3. gathered \subseteq {Nothing, first, insights}
    BY Zenon
  <2> HIDE DEF Made, gathered, insights, top, first, brief
  <2> QED
    BY <2>1, <2>2, <2>3
<1>7. CASE \E b \in {insights, top} : made = Made(b)
  <2> HIDE DEF Made, insights, top
  <2> QED
    BY <1>3, <1>4, <1>5, <1>7
<1>8. CASE \E b \in {Nothing, first, insights} : made = Made(Spread(b, [error |-> Text("error")]))
  <2>1. PICK b \in {Nothing, first, insights} : made = Made(Spread(b, [error |-> Text("error")]))
    BY <1>8
  <2>2. Good(b) /\ made.objects[1] = Spread(b, [error |-> Text("error")])
    BY <1>1, <1>2, <1>3, <1>5, <2>1
  <2> HIDE DEF Made, insights, first
  <2> QED
    BY <2>2 DEF Spread
<1> QED
  BY <1>6, <1>7, <1>8

LEMMA AnswersMatch ==
  ASSUME NEW slug \in Providers, NEW call, NEW base, NEW made \in Outcomes(slug, call, base), made.ok
  PROVE  Matching(slug, made.objects[1])
<1>1. CASE slug \in {"web-scraper", "browserless"}
  BY <1>1, ScrapedPage, Promised, OutcomesOf DEF Matching
<1>2. CASE slug = "instagram"
  BY <1>2, MediaGathered, Promised, OutcomesOf DEF Matching
<1>3. CASE slug \in {"semrush", "logo-picker", "pravatar", "openai", "google"}
  BY <1>3, Promised DEF Matching
<1> QED
  BY <1>1, <1>2, <1>3 DEF Providers

\* The call that PortsMatchExecution compares with: other credentials, and the
\* media are not left out.
LEMMA CallChanged ==
  ASSUME NEW n, NEW slug, NEW held
  PROVE  LET call == Call(n, slug)
             other == [call EXCEPT !.connection = held, !.inputs = Without(@, "includeMedia")]
         IN /\ other.connection = held /\ other.inputs = Without(call.inputs, "includeMedia")
            /\ other.declared = call.declared /\ other.required = call.required
            /\ other.htmlKey = call.htmlKey /\ other.page = call.page
BY DEF Call

\* Whatever made a provider answer, each port of its contract can be there.
LEMMA PortsCanCome ==
  ASSUME NEW slug \in Providers, NEW call, NEW base, NEW first \in Outcomes(slug, call, base), first.ok,
         NEW other,
         \A held \in {"bare", "key", "token"} :
                   /\ other[held].connection = held
                   /\ other[held].inputs = Without(call.inputs, "includeMedia")
                   /\ other[held].declared = call.declared /\ other[held].required = call.required
                   /\ other[held].htmlKey = call.htmlKey /\ other[held].page = call.page,
         NEW port \in DOMAIN Contracts[slug].outputs
  PROVE  \E held \in {"bare", "key", "token"} : \E made \in Outcomes(slug, other[held], 0) :
           made.ok /\ port \in {"payload"} \cup DOMAIN made.objects[1]
<1> DEFINE bare == other["bare"]
<1>1. ASSUME NEW held \in {"bare", "key", "token"}, NEW name, name # "includeMedia", TextAt(call, name)
      PROVE  TextAt(other[held], name)
  <2>1. other[held].inputs = Without(call.inputs, "includeMedia") /\ name \in DOMAIN call.inputs
    BY <1>1 DEF TextAt
  <2>2. name \in DOMAIN other[held].inputs /\ other[held].inputs[name] = call.inputs[name]
    BY <1>1, <2>1 DEF Without
  <2> QED
    BY <1>1, <2>2 DEF TextAt
<1>2. ASSUME NEW name, name # "includeMedia", Ready(call, name)
      PROVE  Ready(bare, name)
  BY <1>1, <1>2 DEF Ready
<1>3. ~Throws.ok /\ ~Unreadable(bare)
  BY DEF Throws, Unreadable
<1>4. CASE slug \in {"web-scraper", "browserless"}
  <2>1. Ready(bare, "websiteUrl") /\ ~Unreadable(bare)
    <3>1. Ready(call, "websiteUrl")
      BY <1>3, <1>4, OutcomesOf DEF WebScraper, Browserless
    <3> QED
      BY <1>2, <1>3, <3>1
  <2>2. \E made \in Outcomes(slug, bare, 0) : made.ok
    <3>1. CASE slug = "web-scraper"
      <4> DEFINE Made(text) ==
                   Fills(<<[payload |-> Ref(0 + 2), html |-> text], [url |-> Text("url"), text |-> text]>>)
      <4>1. Text("") \in Scraped(bare)
        BY DEF Scraped, Answered
      <4>2. WebScraper(bare, 0) = {Made(text) : text \in Scraped(bare)}
        BY <2>1 DEF WebScraper
      <4>3. \A text : Made(text).ok
        BY Filled
      <4> HIDE DEF Made
      <4>4. \E made \in WebScraper(bare, 0) : made.ok
        BY <4>1, <4>2, <4>3
      <4> QED
        BY <3>1, <4>4, OutcomesOf
    <3>2. CASE slug = "browserless"
      <4> DEFINE Made(html) == Fills(<<[payload |-> html, html |-> html]>>)
      <4>1. Outcomes(slug, bare, 0) = {Throws} \cup {Made(html) : html \in {Text("html"), Text("")}}
        BY <2>1, <3>2, OutcomesOf DEF Browserless
      <4>2. \A html : Made(html).ok
        BY Filled
      <4> HIDE DEF Made
      <4> QED
        BY <4>1, <4>2
    <3> QED
      BY <1>4, <3>1, <3>2
  <2>3. PICK made \in Outcomes(slug, bare, 0) : made.ok
    BY <2>2
  <2>4. DOMAIN made.objects[1] = {"payload", "html"}
    BY <1>4, <2>3, OutcomesOf, ScrapedPage
  <2>5. port \in {"payload", "html"}
    BY <1>4, Promised
  <2> QED
    BY <2>3, <2>4, <2>5
<1>5. ASSUME slug \in {"semrush", "logo-picker", "pravatar", "openai", "google"},
             \E held \in {"bare", "key", "token"} : \E made \in Outcomes(slug, other[held], 0) : made.ok
      PROVE  \E held \in {"bare", "key", "token"} : \E made \in Outcomes(slug, other[held], 0) :
               made.ok /\ port \in {"payload"} \cup DOMAIN made.objects[1]
  <2>1. port = "payload"
    BY <1>5, Promised
  <2> QED
    BY <1>5, <2>1
<1>6. CASE slug \in {"semrush", "openai"}
  <2>1. Ready(call, "websiteUrl")
    BY <1>3, <1>6, OutcomesOf DEF Semrush, OpenAi
  <2>2. Ready(bare, "websiteUrl") /\ ~Unreadable(bare)
    BY <1>2, <1>3, <2>1
  <2>3. CASE slug = "openai"
    BY <1>5, <2>2, <2>3, OutcomesOf, Filled DEF OpenAi
  <2>4. CASE slug = "semrush"
    <3>1. ~bare.required \/ bare.required
      OBVIOUS
    <3> DEFINE Made(overview, found) ==
                 Fills(<<[domainOverview |-> Ref(0 + 2), keywords |-> Ref(0 + 3)], overview,
                         [domain |-> Text("url"), keywords |-> found]>>)
    <3>2. PICK overview \in DomainOverview(bare), found \in Keywords(bare) : TRUE
      BY DEF DomainOverview, Keywords, Answered
    <3>3. Made(overview, found) \in Semrush(bare, 0)
      BY <2>2, <3>2 DEF Semrush
    <3>4. Made(overview, found).ok
      BY Filled
    <3> HIDE DEF Made
    <3> QED
      BY <1>5, <2>4, <3>3, <3>4, OutcomesOf
  <2> QED
    BY <1>6, <2>3, <2>4
<1>7. CASE slug = "google"
  BY <1>3, <1>5, <1>7, OutcomesOf, Filled DEF Google
<1>8. CASE slug = "pravatar"
  <2>1. Ready(call, "seed")
    BY <1>3, <1>8, OutcomesOf DEF Pravatar
  <2>2. Ready(bare, "seed")
    BY <1>2, <2>1
  <2> QED
    BY <1>5, <1>8, <2>2, OutcomesOf, Filled DEF Pravatar
<1>9. CASE slug = "logo-picker"
  <2>1. CASE ~call.required
    <3>1. LogoProvider(bare, 0) # {} /\ \A made \in LogoProvider(bare, 0) : made.ok
      BY <2>1, LogoAnswers
    <3> QED
      BY <1>5, <1>9, <3>1, OutcomesOf
  <2>2. CASE call.required
    <3> DEFINE Made(required, html, page) ==
                 LET otherwise(outcome) == IF required THEN Throws ELSE outcome
                     Logo(url) == Fills(<<[logoUrl |-> url]>>)
                     Plausible(logo) == Resolvable(logo) /\ (logo.kind = "url" => ~ClearlyNotLogo(logo.words))
                     Stored(logo) ==
                       IF ~Plausible(logo) THEN {otherwise(Fills(<<Nothing>>))}
                       ELSE {IF stored = {} THEN otherwise(Logo(Text(logo.kind)))
                             ELSE Logo(CHOOSE url \in stored : TRUE) : stored \in Uploaded}
                 IN IF ~html \/ Pick(page) = {} THEN {otherwise(Fills(<<Nothing>>))}
                    ELSE UNION {Stored(logo) : logo \in Pick(page)}
    <3>1. /\ LogoProvider(call, base) = Made(call.required, PageHtml(call), call.page)
          /\ LogoProvider(bare, 0) = Made(bare.required, PageHtml(bare), bare.page)
      BY Zenon DEF LogoProvider
    <3>2. TextAt(call, "pageHtml") => TextAt(bare, "pageHtml")
      BY <1>1
    <3>3. TextAt(bare, "pageHtml") => TextAt(call, "pageHtml")
      BY DEF TextAt, Without
    <3>4. PageHtml(bare) <=> PageHtml(call)
      BY <2>2, <3>2, <3>3 DEF PageHtml
    <3>5. PageHtml(bare) = PageHtml(call)
      BY <3>4 DEF PageHtml
    <3> HIDE DEF Made
    <3>6. LogoProvider(bare, 0) = LogoProvider(call, base)
      BY <2>2, <3>1, <3>5
    <3> QED
      BY <1>5, <1>9, <3>6, OutcomesOf
  <2> QED
    BY <2>1, <2>2
<1>10. CASE slug = "instagram"
  <2> DEFINE call2 == other["token"]
             profile == [profile |-> Ref(0 + 2)]
             insights == Spread(profile, [insights |-> Ref(0 + 3)])
             media == List(<<Text("media")>>)
             top == Spread(insights, [recentMedia |-> media, topMediaWithInsights |-> media])
             made == Fills(<<top, [username |-> Text("profile")], [reach |-> Text("figures")]>>)
  <2>1. "includeMedia" \notin DOMAIN call2.inputs /\ call2.connection = "token"
    BY DEF Without
  <2>2. made \in Instagram(call2, 0)
    BY <2>1 DEF Instagram
  <2>3. made.ok /\ made.objects[1] = top
    BY Filled
  <2>4. {"profile", "insights", "recentMedia"} \subseteq DOMAIN top
    BY DEF Spread
  <2>5. port \in {"payload", "profile", "insights", "recentMedia"}
    BY <1>10, Promised
  <2> HIDE DEF made, top, call2
  <2>6. made \in Outcomes(slug, other["token"], 0)
    BY <1>10, <2>2, OutcomesOf DEF call2
  <2> QED
    BY <2>3, <2>4, <2>5, <2>6
<1> QED
  BY <1>4, <1>6, <1>7, <1>8, <1>9, <1>10 DEF Providers

-------------------------------------------------------------------------------
\* A wire of a design, and what arrives at a node, are connections of the flow.
LEMMA Wired ==
  ASSUME Designed
  PROVE  /\ Len(design.wires) \in Nat /\ DOMAIN design.wires = 1..Len(design.wires)
         /\ \A i \in DOMAIN design.wires : design.wires[i].link \in graph.links
<1>1. Configured(design)
  BY DesignAssumption DEF Designed
<1>2. /\ design.wires \in Seq([from : STRING, link : Link])
      /\ graph.links = {design.wires[i].link : i \in DOMAIN design.wires}
  BY <1>1 DEF Configured, Designed
<1>3. Len(design.wires) \in Nat /\ DOMAIN design.wires = 1..Len(design.wires)
  BY <1>2, LenProperties
<1> QED
  BY <1>2, <1>3

LEMMA Arrived ==
  ASSUME Designed, NEW n
  PROVE  LET came == Arrivals(n)
         IN /\ Len(came) \in Nat /\ DOMAIN came = 1..Len(came)
            /\ \A k \in DOMAIN came : came[k].link \in Into(n)
<1> DEFINE I == {i \in DOMAIN design.wires :
                   design.wires[i].link.target = n /\ Carries(design.wires[i])}
<1>1. I \in SUBSET DOMAIN design.wires /\ Arrivals(n) = Chosen(design.wires, I)
  BY DEF Arrivals
<1>2. \A i \in I : design.wires[i].link \in Into(n)
  BY Wired DEF Into
<1> HIDE DEF I
<1> QED
  BY <1>1, <1>2, Wired, ChosenFrom

\* Nothing new is recorded for the nodes that feed node n, and their outputs stay.
FeedersKept(n) ==
  \A l \in Into(n) : /\ Dealt(l.source, {"completed"})' = Dealt(l.source, {"completed"})
                     /\ outputs'[l.source] = outputs[l.source]

LEMMA CallKept ==
  ASSUME Designed, UNCHANGED <<design, graph>>, NEW n, FeedersKept(n)
  PROVE  \A slug : Call(n, slug)' = Call(n, slug)
<1> DEFINE I == {i \in DOMAIN design.wires :
                   design.wires[i].link.target = n /\ Carries(design.wires[i])}
<1>1. ASSUME NEW i \in DOMAIN design.wires, design.wires[i].link.target = n
      PROVE  Carries(design.wires[i])' <=> Carries(design.wires[i])
  <2>1. design.wires[i].link \in Into(n)
    BY <1>1, Wired DEF Into
  <2>2. /\ Dealt(design.wires[i].link.source, {"completed"})'
             = Dealt(design.wires[i].link.source, {"completed"})
        /\ outputs'[design.wires[i].link.source] = outputs[design.wires[i].link.source]
    BY <2>1 DEF FeedersKept
  <2> QED
    BY <2>2 DEF Carries
<1>2. I' = I
  BY <1>1
<1>3. Arrivals(n)' = Arrivals(n)
  <2>1. Arrivals(n) = Chosen(design.wires, I) /\ Arrivals(n)' = Chosen(design'.wires, I')
    BY DEF Arrivals
  <2> QED
    BY <1>2, <2>1
<1>4. Ports(n)' = Ports(n)
  BY <1>3 DEF Ports
<1>5. ASSUME NEW port PROVE ValuesAt(n, port)' = ValuesAt(n, port)
  <2> DEFINE came == Arrivals(n)
             here == Chosen(came, {i \in DOMAIN came : came[i].link.port = port})
  <2>1. /\ ValuesAt(n, port) = [i \in DOMAIN here |-> outputs[here[i].link.source][here[i].from]]
        /\ ValuesAt(n, port)' = [i \in DOMAIN here |-> outputs'[here[i].link.source][here[i].from]]
    BY <1>3 DEF ValuesAt, Values, Value
  <2>2. \A i \in DOMAIN here : here[i].link \in Into(n)
    <3> DEFINE J == {i \in DOMAIN came : came[i].link.port = port}
    <3>1. J \in SUBSET DOMAIN came /\ here = Chosen(came, J)
      OBVIOUS
    <3> HIDE DEF J
    <3> QED
      BY <3>1, Arrived, ChosenFrom
  <2>3. \A i \in DOMAIN here : outputs'[here[i].link.source] = outputs[here[i].link.source]
    BY <2>2 DEF FeedersKept
  <2> HIDE DEF here
  <2> QED
    BY <2>1, <2>3
<1>6. Config(n)' = Config(n)
  BY DEF Config
<1> QED
  BY <1>4, <1>5, <1>6 DEF Call

-------------------------------------------------------------------------------
(***************************************************************************)
(* What excused the failure of a source node, and what it answered with.   *)
(***************************************************************************)
Slugs(n) == ProviderSlug(Config(n)) \cap Registered(design.rows)

Excused(n) == Slugs(n) = {} \/ \E slug \in Slugs(n) : Excuse(slug, Call(n, slug))

Delivered(n) ==
  \E slug \in Slugs(n) : \E base, made :
    /\ made \in Outcomes(slug, Call(n, slug), base) /\ made.ok
    /\ outputs[n] = Bucket(base, made.objects[1])

SourceTry(i) ==
  LET n == tries[i].node
  IN Executor(n) = "source" =>
       (tries[i].own => Excused(n)) /\ (tries[i].status = "completed" => Delivered(n))

(***************************************************************************)
(* In a flow without cycles, what was true of a source when it was dealt   *)
(* with is true ever after: the nodes that feed it are dealt with before,  *)
(* and only once.                                                          *)
(***************************************************************************)
SourceInv ==
  /\ DOMAIN outputs = Nodes
  /\ Acyclic => \A i \in DOMAIN tries : SourceTry(i)

LEMMA TryExplained ==
  ASSUME IInv, SourceInv, Acyclic
  PROVE  FailureExplained /\ PortsMatchExecution
<1> SUFFICES ASSUME NEW i \in DOMAIN tries, Executor(tries[i].node) = "source"
             PROVE  LET n == tries[i].node
                    IN /\ tries[i].own =>
                            \/ Slugs(n) = {} \/ graph.required[n] \/ Slugs(n) = {"browserless"}
                            \/ \E slug \in Slugs(n) \ {"logo-picker"} : \E port \in Contracts[slug].required :
                                 ~Ready(Call(n, slug), port)
                            \/ \E slug \in Slugs(n) \cap Decrypting : Unreadable(Call(n, slug))
                       /\ tries[i].status = "completed" =>
                            /\ Config(n).provider # "none"
                            /\ \A slug \in ProviderSlug(Config(n)) :
                                 LET declared == Contracts[slug].outputs
                                 IN /\ outputs[n].payload.is = "object"
                                    /\ \A port \in DOMAIN declared \cap DOMAIN outputs[n] :
                                         outputs[n][port].is = declared[port]
                                    /\ \A port \in DOMAIN declared :
                                         \E held \in {"bare", "key", "token"} :
                                           \E made \in Outcomes(slug, [Call(n, slug) EXCEPT !.connection = held,
                                                                        !.inputs = Without(@, "includeMedia")], 0) :
                                             made.ok /\ port \in {"payload"} \cup DOMAIN made.objects[1]
  BY Zenon DEF FailureExplained, PortsMatchExecution, Slugs
<1> DEFINE n == tries[i].node
<1>1. SourceTry(i)
  BY DEF SourceInv
<1>2. \A slug \in Slugs(n) : slug \in Providers /\ Slugs(n) = {slug} /\ ProviderSlug(Config(n)) = {slug}
  BY OneProvider, KnownSlugs DEF Slugs
<1>3. ASSUME tries[i].own, Slugs(n) # {}
      PROVE  \/ graph.required[n] \/ Slugs(n) = {"browserless"}
             \/ \E slug \in Slugs(n) \ {"logo-picker"} : \E port \in Contracts[slug].required :
                  ~Ready(Call(n, slug), port)
             \/ \E slug \in Slugs(n) \cap Decrypting : Unreadable(Call(n, slug))
  <2>1. PICK slug \in Slugs(n) : Excuse(slug, Call(n, slug))
    BY <1>1, <1>3 DEF SourceTry, Excused
  <2>2. Call(n, slug).required = graph.required[n]
    BY DEF Call
  <2> QED
    BY <1>2, <2>1, <2>2 DEF Excuse
<1>4. ASSUME tries[i].status = "completed"
      PROVE  /\ Config(n).provider # "none"
             /\ \A slug \in ProviderSlug(Config(n)) :
                  LET declared == Contracts[slug].outputs
                  IN /\ outputs[n].payload.is = "object"
                     /\ \A port \in DOMAIN declared \cap DOMAIN outputs[n] :
                          outputs[n][port].is = declared[port]
                     /\ \A port \in DOMAIN declared :
                          \E held \in {"bare", "key", "token"} :
                            \E made \in Outcomes(slug, [Call(n, slug) EXCEPT !.connection = held,
                                                         !.inputs = Without(@, "includeMedia")], 0) :
                              made.ok /\ port \in {"payload"} \cup DOMAIN made.objects[1]
  <2>1. PICK slug \in Slugs(n) : \E base, made :
          /\ made \in Outcomes(slug, Call(n, slug), base) /\ made.ok
          /\ outputs[n] = Bucket(base, made.objects[1])
    BY <1>1, <1>4 DEF SourceTry, Delivered
  <2>2. PICK base, first :
          /\ first \in Outcomes(slug, Call(n, slug), base) /\ first.ok
          /\ outputs[n] = Bucket(base, first.objects[1])
    BY <2>1
  <2>3. slug \in Providers /\ ProviderSlug(Config(n)) = {slug}
    BY <1>2
  <2>4. Config(n).provider # "none"
    BY <2>3, LegacyUnknown
  <2> DEFINE declared == Contracts[slug].outputs
             left == first.objects[1]
             call == Call(n, slug)
             other == [held \in {"bare", "key", "token"} |->
                         [call EXCEPT !.connection = held, !.inputs = Without(@, "includeMedia")]]
  <2>5. /\ DOMAIN outputs[n] = DOMAIN left \cup {"payload"}
        /\ outputs[n]["payload"] = Ref(base + 1)
        /\ \A port \in DOMAIN left \ {"payload"} : outputs[n][port] = left[port]
    <3>1. outputs[n] = Bucket(base, left)
      BY <2>2
    <3> HIDE DEF left, n
    <3> QED
      BY <3>1 DEF Bucket, With, Spread
  <2>6. outputs[n].payload.is = "object"
    BY <2>5, ValueKinds
  <2>7. ASSUME NEW port \in DOMAIN declared \cap DOMAIN outputs[n]
        PROVE  outputs[n][port].is = declared[port]
    <3>1. CASE port = "payload"
      BY <2>3, <2>6, <3>1, Promised
    <3>2. CASE port # "payload"
      <4>1. Matching(slug, left)
        BY <2>2, <2>3, AnswersMatch
      <4>2. port \in (DOMAIN declared \cap DOMAIN left) \ {"payload"}
        BY <2>5, <3>2
      <4> QED
        BY <2>5, <4>1, <4>2 DEF Matching
    <3> QED
      BY <3>1, <3>2
  <2>8. ASSUME NEW port \in DOMAIN declared
        PROVE  \E held \in {"bare", "key", "token"} : \E made \in Outcomes(slug, other[held], 0) :
                 made.ok /\ port \in {"payload"} \cup DOMAIN made.objects[1]
    <3>1. ASSUME NEW held \in {"bare", "key", "token"}
          PROVE  /\ other[held].connection = held
                 /\ other[held].inputs = Without(call.inputs, "includeMedia")
                 /\ other[held].declared = call.declared /\ other[held].required = call.required
                 /\ other[held].htmlKey = call.htmlKey /\ other[held].page = call.page
      <4>1. other[held] = [call EXCEPT !.connection = held, !.inputs = Without(@, "includeMedia")]
        OBVIOUS
      <4> HIDE DEF other
      <4> QED
        BY <4>1, CallChanged
    <3> HIDE DEF other, call
    <3>2. first \in Outcomes(slug, call, base) /\ first.ok
      BY <2>2 DEF call
    <3> QED
      BY <2>3, <3>1, <3>2, PortsCanCome
  <2> QED
    BY <2>3, <2>4, <2>6, <2>7, <2>8
<1> QED
  BY <1>3, <1>4

\* The outcome recorded for the node whose turn it is does not touch those
\* before it, and no node that feeds one of them.
LEMMA RecordSource ==
  ASSUME Designed, IInv, SourceInv, Acyclic, pc = "run", UNCHANGED <<design, graph, order>>,
         NEW n \in Nodes, n = Current, Len(tries) < Len(order), NEW status, NEW own, Record(n, status, own),
         \A m \in Nodes \ {n} : outputs'[m] = outputs[m],
         Executor(n) = "source" /\ own => Excused(n),
         Executor(n) = "source" /\ status = "completed" =>
           \E slug \in Slugs(n) : \E base, made :
             /\ made \in Outcomes(slug, Call(n, slug), base) /\ made.ok
             /\ outputs'[n] = Bucket(base, made.objects[1])
  PROVE  \A i \in DOMAIN tries' : SourceTry(i)'
<1>0. PICK k : k = Len(tries) + 1
  OBVIOUS
<1> DEFINE e == [node |-> n, status |-> status, own |-> own]
<1>1. /\ Len(tries) \in Nat /\ DOMAIN tries = 1..Len(tries) /\ DOMAIN order = 1..Len(order)
      /\ Len(order) \in Nat /\ IsInjective(order) /\ n = order[k]
      /\ \A i \in DOMAIN tries : tries[i].node = order[i] /\ tries[i].node \in Nodes /\ i \in DOMAIN order
  BY <1>0, TriesInOrder DEF Current
<1>2. tries' = Append(tries, e) /\ tries \in Seq(NodeTry)
  BY DEF Record, IInv, TypeOK
<1>3. /\ DOMAIN tries' = 1..k /\ tries'[k] = e
      /\ \A i \in DOMAIN tries : tries'[i] = tries[i]
  BY <1>0, <1>1, <1>2, AppendProperties
<1>4. k \in DOMAIN order /\ k \notin DOMAIN tries /\ \A i \in DOMAIN tries : i <= k /\ i # k
  BY <1>0, <1>1
<1>5. \A i \in DOMAIN tries : tries[i].node # n
  BY <1>1, <1>4 DEF IsInjective
<1>6. ASSUME NEW m \in Nodes \ {n} PROVE Dealt(m, {"completed"})' = Dealt(m, {"completed"})
  <2>1. \A i \in DOMAIN tries' : i = k \/ i \in DOMAIN tries
    BY <1>0, <1>1, <1>3
  <2>2. DOMAIN tries \subseteq DOMAIN tries'
    BY <1>0, <1>1, <1>3
  <2>3. tries'[k].node # m
    BY <1>3
  <2> HIDE DEF e
  <2>4. Dealt(m, {"completed"})' <=> Dealt(m, {"completed"})
    BY <1>3, <2>1, <2>2, <2>3 DEF Dealt
  <2> QED
    BY <2>4 DEF Dealt
<1>7. ASSUME NEW i \in DOMAIN order, i <= k PROVE FeedersKept(order[i])
  <2> SUFFICES ASSUME NEW l \in Into(order[i])
               PROVE  l.source \in Nodes \ {n}
    BY <1>6 DEF FeedersKept
  <2>1. PICK j \in 1..(i - 1) : order[j] = l.source
    BY DEF IInv, OrderInv, FedBefore
  <2>2. j \in DOMAIN order /\ j # k /\ j \in DOMAIN tries
    BY <1>0, <1>1, <1>4, <1>7, <2>1
  <2> QED
    BY <1>1, <1>4, <2>1, <2>2 DEF IsInjective
<1>8. ASSUME NEW i \in DOMAIN order, i <= k
      PROVE  \A slug : Call(order[i], slug)' = Call(order[i], slug)
  BY <1>7, <1>8, CallKept
<1>9. \A m : Config(m)' = Config(m) /\ Slugs(m)' = Slugs(m) /\ Executor(m)' = Executor(m)
  BY DEF Config, Slugs, Executor
<1>10. ASSUME NEW i \in DOMAIN tries PROVE SourceTry(i)'
  <2>1. SourceTry(i) /\ tries'[i] = tries[i]
    BY <1>3, <1>10 DEF SourceInv
  <2>6. PICK m : m = tries[i].node
    OBVIOUS
  <2>2. \A slug : Call(m, slug)' = Call(m, slug)
    BY <1>1, <1>4, <1>8, <2>6
  <2>3. outputs'[m] = outputs[m]
    BY <1>1, <1>5, <2>6
  <2>4. Excused(m)' <=> Excused(m)
    BY <1>9, <2>2 DEF Excused
  <2>5. Delivered(m)' <=> Delivered(m)
    BY <1>9, <2>2, <2>3 DEF Delivered
  <2> QED
    BY <1>9, <2>1, <2>4, <2>5, <2>6 DEF SourceTry
<1>11. SourceTry(k)'
  <2>1. \A slug : Call(n, slug)' = Call(n, slug)
    BY <1>1, <1>4, <1>8
  <2>2. Excused(n)' <=> Excused(n)
    BY <1>9, <2>1 DEF Excused
  <2>3. ASSUME Executor(n) = "source", status = "completed" PROVE Delivered(n)'
    BY <1>9, <2>1, <2>3 DEF Delivered
  <2>4. tries'[k].node = n /\ tries'[k].status = status /\ tries'[k].own = own
    BY <1>3
  <2> HIDE DEF e
  <2> QED
    BY <1>9, <2>2, <2>3, <2>4 DEF SourceTry
<1> HIDE DEF e
<1>12. \A i \in DOMAIN tries' : i = k \/ i \in DOMAIN tries
  BY <1>0, <1>1, <1>3
<1> QED
  BY <1>10, <1>11, <1>12

\* A source node fails for want of an answer that is one.
LEMMA SourceStep ==
  ASSUME NEW n \in Nodes, DOMAIN outputs = Nodes, ExecuteSource(n)
  PROVE  \/ Record(n, "failed", TRUE) /\ outputs' = outputs /\ Excused(n)
         \/ /\ Record(n, "completed", FALSE) /\ \A m \in Nodes \ {n} : outputs'[m] = outputs[m]
            /\ \E slug \in Slugs(n) : \E base, made :
                 /\ made \in Outcomes(slug, Call(n, slug), base) /\ made.ok
                 /\ outputs'[n] = Bucket(base, made.objects[1])
<1>1. /\ \A slug \in Slugs(n) : slug \in Providers
      /\ SourceOutcomes(n) = UNION {Outcomes(slug, Call(n, slug), Len(heap)) : slug \in Slugs(n)}
  BY KnownSlugs DEF SourceOutcomes, Slugs
<1>2. CASE SourceOutcomes(n) = {}
  <2>1. \A slug \in Slugs(n) : Outcomes(slug, Call(n, slug), Len(heap)) = {}
    BY <1>1, <1>2
  <2>2. \A slug \in Slugs(n) : Excuse(slug, Call(n, slug))
    BY <1>1, <2>1, FailureExcused
  <2> QED
    BY <1>2, <2>2 DEF ExecuteSource, Fails, Excused
<1>3. CASE SourceOutcomes(n) # {}
  <2>1. PICK made \in SourceOutcomes(n) :
          IF made.ok THEN Completes(n, heap \o made.objects, Bucket(Len(heap), made.objects[1])) ELSE Fails(n)
    BY <1>3 DEF ExecuteSource
  <2>2. PICK slug \in Slugs(n) : made \in Outcomes(slug, Call(n, slug), Len(heap))
    BY <1>1, <2>1
  <2>3. CASE made.ok
    <3>1. Record(n, "completed", FALSE) /\ outputs' = [outputs EXCEPT ![n] = Bucket(Len(heap), made.objects[1])]
      BY <2>1, <2>3 DEF Completes
    <3>2. /\ outputs'[n] = Bucket(Len(heap), made.objects[1])
          /\ \A m \in Nodes \ {n} : outputs'[m] = outputs[m]
      BY <3>1
    <3> QED
      BY <2>2, <2>3, <3>1, <3>2
  <2>4. CASE ~made.ok
    BY <1>1, <2>1, <2>2, <2>4, FailureExcused DEF Fails, Excused
  <2> QED
    BY <2>3, <2>4
<1> QED
  BY <1>2, <1>3

LEMMA SourceKept ==
  ASSUME Designed, IInv, SourceInv, [NodeNext]_<<vars, nodeVars>>
  PROVE  SourceInv'
<1>1. CASE UNCHANGED <<graph, design, order, tries, outputs>>
  <2>1. \A n, slug : Call(n, slug)' = Call(n, slug)
    BY <1>1 DEF Call, Ports, ValuesAt, Values, Value, Arrivals, Carries, Dealt, Config
  <2>2. \A n : /\ Executor(n)' = Executor(n) /\ Slugs(n)' = Slugs(n)
    BY <1>1 DEF Executor, Slugs, Config
  <2>3. \A n : (Excused(n)' <=> Excused(n)) /\ (Delivered(n)' <=> Delivered(n))
    BY <1>1, <2>1, <2>2 DEF Excused, Delivered
  <2>4. \A i : SourceTry(i)' <=> SourceTry(i)
    BY <1>1, <2>2, <2>3 DEF SourceTry
  <2> QED
    BY <1>1, <2>4 DEF SourceInv, Acyclic, Into
<1>2. ASSUME NEW n \in Nodes, At(n), UNCHANGED design, DOMAIN outputs' = Nodes,
             Acyclic => \A i \in DOMAIN tries' : SourceTry(i)'
      PROVE  SourceInv'
  BY <1>2 DEF SourceInv, Acyclic, At, Into
<1>3. ASSUME NEW n \in Nodes, Propagate(n), UNCHANGED nodeVars PROVE SourceInv'
  <2>1. At(n) /\ Record(n, IF graph.required[n] THEN "failed" ELSE "skipped", FALSE)
    BY <1>3 DEF Propagate
  <2>2. UNCHANGED <<design, graph, order, outputs>> /\ pc = "run" /\ n = Current /\ Len(tries) < Len(order)
    BY <1>3, <2>1 DEF nodeVars, At
  <2>3. CASE graph.required[n]
    BY <1>2, <2>1, <2>2, <2>3, RecordSource DEF SourceInv
  <2>4. CASE ~graph.required[n]
    BY <1>2, <2>1, <2>2, <2>4, RecordSource DEF SourceInv
  <2> QED
    BY <2>3, <2>4
<1>4. ASSUME NEW n \in Nodes, ExecuteSource(n) PROVE SourceInv'
  <2>1. /\ At(n) /\ UNCHANGED <<design, graph, order>> /\ pc = "run" /\ n = Current
        /\ Len(tries) < Len(order)
    BY <1>4 DEF ExecuteSource, Runs, At
  <2>2. DOMAIN outputs = Nodes
    BY DEF SourceInv
  <2>3. DOMAIN outputs' = Nodes
    BY <1>4, <2>2 DEF ExecuteSource, Completes, Fails
  <2>4. CASE Record(n, "failed", TRUE) /\ outputs' = outputs /\ Excused(n)
    BY <1>2, <2>1, <2>3, <2>4, RecordSource
  <2>5. CASE /\ Record(n, "completed", FALSE) /\ \A m \in Nodes \ {n} : outputs'[m] = outputs[m]
             /\ \E slug \in Slugs(n) : \E base, made :
                  /\ made \in Outcomes(slug, Call(n, slug), base) /\ made.ok
                  /\ outputs'[n] = Bucket(base, made.objects[1])
    BY <1>2, <2>1, <2>3, <2>5, RecordSource
  <2> QED
    BY <1>4, <2>2, <2>4, <2>5, SourceStep
<1>5. ASSUME NEW n \in Nodes,
             \/ ExecuteInput(n) \/ ExecuteMapper(n) \/ ExecuteMerger(n)
             \/ ExecuteSchema(n) \/ ExecuteAi(n) \/ ExecuteTerminal(n) \/ ExecutePassthrough(n)
      PROVE  SourceInv'
  <2>1. /\ At(n) /\ UNCHANGED <<design, graph, order>> /\ pc = "run" /\ n = Current
        /\ Len(tries) < Len(order) /\ Executor(n) # "source"
    BY <1>5 DEF ExecuteInput, ExecuteMapper, ExecuteMerger, ExecuteSchema, ExecuteAi,
                ExecuteTerminal, ExecutePassthrough, Runs, At
  <2>2. \/ Record(n, "failed", TRUE) /\ outputs' = outputs
        \/ Record(n, "completed", FALSE) /\ \E ports : outputs' = [outputs EXCEPT ![n] = ports]
    BY <1>5 DEF ExecuteInput, ExecuteMapper, ExecuteMerger, ExecuteSchema, ExecuteAi,
                ExecuteTerminal, ExecutePassthrough, Completes, Fails
  <2>3. DOMAIN outputs' = Nodes /\ \A m \in Nodes \ {n} : outputs'[m] = outputs[m]
    BY <2>2 DEF SourceInv
  <2> QED
    BY <1>2, <2>1, <2>2, <2>3, RecordSource
<1>6. CASE ConcludeReport
  BY <1>1, <1>6 DEF ConcludeReport
<1>7. ASSUME NEW n \in Nodes, Refuse(n), UNCHANGED nodeVars PROVE SourceInv'
  BY <1>1, <1>7 DEF Refuse, At, nodeVars
<1>8. CASE (SortNode \/ SortRest) /\ UNCHANGED nodeVars
  <2>1. UNCHANGED <<design, graph, tries, outputs>> /\ tries = <<>>
    BY <1>8 DEF SortNode, SortRest, nodeVars, IInv, TriesInv
  <2>2. DOMAIN tries' = {}
    BY <2>1, EmptySeq, LenProperties
  <2> QED
    BY <2>1, <2>2 DEF SourceInv
<1>9. CASE LoadConnections /\ UNCHANGED nodeVars
  BY <1>1, <1>9 DEF LoadConnections, nodeVars
<1>10. CASE UNCHANGED <<vars, nodeVars>>
  BY <1>1, <1>10 DEF vars, nodeVars
<1> QED
  BY <1>3, <1>4, <1>5, <1>6, <1>7, <1>8, <1>9, <1>10 DEF NodeNext

LEMMA SourceInit == NodeInit => SourceInv
<1> SUFFICES ASSUME NodeInit PROVE SourceInv
  OBVIOUS
<1>1. tries = <<>> /\ outputs = [n \in Nodes |-> Nothing]
  BY DEF NodeInit, Init
<1>2. DOMAIN tries = {}
  BY <1>1, EmptySeq, LenProperties
<1> QED
  BY <1>1, <1>2 DEF SourceInv

(***************************************************************************)
(* In any flow that validation lets through, a source fails only for a     *)
(* reason that its contract or its failures announce, and one that         *)
(* completes has at its ports what its contract says.                      *)
(***************************************************************************)
THEOREM SourcesAreExplained == NodeSpec => []SourceFailureExplained
<1>1. IInv /\ SourceInv => SourceFailureExplained
  BY TryExplained DEF SourceFailureExplained
<1>2. Designed /\ IInv /\ SourceInv /\ [NodeNext]_<<vars, nodeVars>> => SourceInv'
  BY SourceKept
<1>3. Designed /\ [NodeNext]_<<vars, nodeVars>> => Designed'
  BY DesignedKept
<1>4. NodeSpec => []IInv
  BY ValuesFollowFlow, Invariance, PTL DEF FlowSpec
<1> QED
  BY <1>1, <1>2, <1>3, <1>4, DesignedInit, SourceInit, PTL DEF NodeSpec

-------------------------------------------------------------------------------
(***************************************************************************)
(* Recursion along paths and lists of rules.  A recursive function is what *)
(* its equation says only if there is such a function, which is shown by   *)
(* induction: a set of naturals that has 0 and is closed under successor   *)
(* has them all.                                                           *)
(***************************************************************************)
LEMMA AllNaturals ==
  ASSUME NEW P, 0 \in P, \A k \in Nat : k \in P => k + 1 \in P
  PROVE  Nat \subseteq P
<1> SUFFICES ASSUME NEW n \in Nat, n \notin P PROVE FALSE
  OBVIOUS
<1> DEFINE A == {k \in 0..n : k \in P}
           next == [k \in A |-> k + 1]
<1>1. IsFiniteSet(A) /\ IsFiniteSet(A \ {0}) /\ Cardinality(A \ {0}) < Cardinality(A)
  <2>1. IsFiniteSet(0..n) /\ A \in SUBSET (0..n) /\ 0 \in A
    BY FS_Interval
  <2>2. IsFiniteSet(A)
    BY <2>1, FS_Subset
  <2> HIDE DEF A
  <2>3. Cardinality(A) \in Nat
    BY <2>2, FS_CardinalityType
  <2>4. IsFiniteSet(A \ {0}) /\ Cardinality(A \ {0}) = Cardinality(A) - 1
    BY <2>1, <2>2, FS_RemoveElement
  <2> QED
    BY <2>2, <2>3, <2>4
<1>2. next \in [A -> A \ {0}]
  <2> SUFFICES ASSUME NEW k \in A PROVE k + 1 \in A \ {0}
    OBVIOUS
  <2>1. k \in Nat /\ k \in P /\ k # n /\ k <= n
    OBVIOUS
  <2> QED
    BY <2>1
<1>3. \A x, y \in A : next[x] = next[y] => x = y
  OBVIOUS
<1> HIDE DEF A, next
<1> QED
  BY <1>1, <1>2, <1>3, FS_PigeonHole

\* What holds of 0 and, with each number below n, of its successor holds up to n.
LEMMA UpTo ==
  ASSUME NEW n \in Nat, NEW P, 0 \in P, \A k \in 0..(n - 1) : k \in P => k + 1 \in P
  PROVE  \A k \in 0..n : k \in P
<1> DEFINE Q == {k \in Nat : k <= n => k \in P}
<1>1. \A k \in Nat : k \in Q => k + 1 \in Q
  OBVIOUS
<1>2. Nat \subseteq Q
  BY <1>1, AllNaturals
<1> QED
  BY <1>2

LEMMA GetFound ==
  ASSUME NEW h, NEW root, NEW path, Len(path) \in Nat
  PROVE  \E f : /\ f[0] = Ref(root)
                /\ \A k \in 0..(Len(path) - 1) : f[k + 1] = Follow(h, f[k], path[k + 1])
                /\ Get(h, root, path) = f[Len(path)]
<1> DEFINE Found(f, n) ==
             f = [k \in 0..n |-> IF k = 0 THEN Ref(root) ELSE Follow(h, f[k - 1], path[k])]
           P == {n \in Nat : \E f : Found(f, n)}
<1>1. 0 \in P
  <2>1. Found([k \in 0..0 |-> Ref(root)], 0)
    OBVIOUS
  <2> QED
    BY <2>1
<1>2. ASSUME NEW n \in Nat, n \in P PROVE n + 1 \in P
  <2>1. PICK f : Found(f, n)
    BY <1>2
  <2> DEFINE g == [k \in 0..(n + 1) |-> IF k = n + 1 THEN Follow(h, f[n], path[n + 1]) ELSE f[k]]
  <2>2. ASSUME NEW k \in 0..(n + 1)
        PROVE  g[k] = IF k = 0 THEN Ref(root) ELSE Follow(h, g[k - 1], path[k])
    <3>1. CASE k = n + 1
      BY <3>1
    <3>2. CASE k \in 0..n
      BY <2>1, <3>2
    <3> QED
      BY <3>1, <3>2
  <2>3. Found(g, n + 1)
    BY <2>2
  <2> HIDE DEF g, Found
  <2> QED
    BY <2>3
<1>3. \E f : Found(f, Len(path))
  BY <1>1, <1>2, AllNaturals
<1> DEFINE found == CHOOSE f : Found(f, Len(path))
<1>4. Found(found, Len(path))
  BY <1>3
<1>5. Get(h, root, path) = found[Len(path)]
  BY DEF Get
<1> HIDE DEF found
<1>6. found[0] = Ref(root)
  BY <1>4
<1>7. \A k \in 0..(Len(path) - 1) : found[k + 1] = Follow(h, found[k], path[k + 1])
  BY <1>4
<1> QED
  BY <1>5, <1>6, <1>7

LEMMA SetFound ==
  ASSUME NEW h, NEW root, NEW path, NEW value, Len(Target(path)) \in Nat \ {0}
  PROVE  LET keys == Target(path)
         IN \E f : /\ f[0] = [heap |-> h, at |-> root]
                   /\ \A k \in 0..(Len(keys) - 2) : f[k + 1] = Enter(f[k], keys[k + 1])
                   /\ LET parent == f[Len(keys) - 1]
                      IN Set(h, root, path, value) = Put(parent.heap, parent.at, Last(keys), value)
<1> DEFINE keys == Target(path)
           start == [heap |-> h, at |-> root]
           Way(f, n) == f = [k \in 0..n |-> IF k = 0 THEN start ELSE Enter(f[k - 1], keys[k])]
           P == {n \in Nat : \E f : Way(f, n)}
<1>1. 0 \in P
  <2>1. Way([k \in 0..0 |-> start], 0)
    OBVIOUS
  <2> QED
    BY <2>1
<1>2. ASSUME NEW n \in Nat, n \in P PROVE n + 1 \in P
  <2>1. PICK f : Way(f, n)
    BY <1>2
  <2> DEFINE g == [k \in 0..(n + 1) |-> IF k = n + 1 THEN Enter(f[n], keys[n + 1]) ELSE f[k]]
  <2>2. ASSUME NEW k \in 0..(n + 1)
        PROVE  g[k] = IF k = 0 THEN start ELSE Enter(g[k - 1], keys[k])
    <3>1. CASE k = n + 1
      BY <3>1
    <3>2. CASE k \in 0..n
      BY <2>1, <3>2
    <3> QED
      BY <3>1, <3>2
  <2>3. Way(g, n + 1)
    BY <2>2
  <2> HIDE DEF g, Way
  <2> QED
    BY <2>3
<1>3. \E f : Way(f, Len(keys) - 1)
  BY <1>1, <1>2, AllNaturals, Len(keys) - 1 \in Nat
<1> DEFINE way == CHOOSE f : Way(f, Len(keys) - 1)
<1>4. Way(way, Len(keys) - 1)
  BY <1>3
<1>5. LET parent == way[Len(keys) - 1]
      IN Set(h, root, path, value) = Put(parent.heap, parent.at, Last(keys), value)
  BY DEF Set
<1> HIDE DEF way
<1>6. way[0] = start
  BY <1>4
<1>7. \A k \in 0..(Len(keys) - 2) : way[k + 1] = Enter(way[k], keys[k + 1])
  BY <1>4
<1> QED
  BY <1>5, <1>6, <1>7

\* The heaps f that the rules leave one after the other.
RuleByRule(f, h, root, rules) ==
  /\ f[0] = h
  /\ \A k \in 0..(Len(rules) - 1) : f[k + 1] = Apply(f[k], root, rules[k + 1])
  /\ ApplyRules(h, root, rules) = f[Len(rules)]

LEMMA RulesFound ==
  ASSUME NEW h, NEW root, NEW rules, Len(rules) \in Nat
  PROVE  \E f : RuleByRule(f, h, root, rules)
<1> DEFINE After(f, n) == f = [k \in 0..n |-> IF k = 0 THEN h ELSE Apply(f[k - 1], root, rules[k])]
           P == {n \in Nat : \E f : After(f, n)}
<1>1. 0 \in P
  <2>1. After([k \in 0..0 |-> h], 0)
    OBVIOUS
  <2> QED
    BY <2>1
<1>2. ASSUME NEW n \in Nat, n \in P PROVE n + 1 \in P
  <2>1. PICK f : After(f, n)
    BY <1>2
  <2> DEFINE g == [k \in 0..(n + 1) |-> IF k = n + 1 THEN Apply(f[n], root, rules[n + 1]) ELSE f[k]]
  <2>2. ASSUME NEW k \in 0..(n + 1)
        PROVE  g[k] = IF k = 0 THEN h ELSE Apply(g[k - 1], root, rules[k])
    <3>1. CASE k = n + 1
      BY <3>1
    <3>2. CASE k \in 0..n
      BY <2>1, <3>2
    <3> QED
      BY <3>1, <3>2
  <2>3. After(g, n + 1)
    BY <2>2
  <2> HIDE DEF g, After
  <2> QED
    BY <2>3
<1>3. \E f : After(f, Len(rules))
  BY <1>1, <1>2, AllNaturals
<1> DEFINE after == CHOOSE f : After(f, Len(rules))
<1>4. After(after, Len(rules))
  BY <1>3
<1>5. ApplyRules(h, root, rules) = after[Len(rules)]
  BY DEF ApplyRules
<1> HIDE DEF after
<1>6. after[0] = h
  BY <1>4
<1>7. \A k \in 0..(Len(rules) - 1) : after[k + 1] = Apply(after[k], root, rules[k + 1])
  BY <1>4
<1> QED
  BY <1>5, <1>6, <1>7 DEF RuleByRule

-------------------------------------------------------------------------------
(***************************************************************************)
(* A heap is a sequence, of objects of whatever kind.                      *)
(***************************************************************************)
IsHeap(h) == h \in Seq({h[i] : i \in DOMAIN h})

LEMMA HeapSize ==
  ASSUME NEW h, IsHeap(h)
  PROVE  Len(h) \in Nat /\ DOMAIN h = 1..Len(h)
BY LenProperties DEF IsHeap

LEMMA SequenceIsHeap ==
  ASSUME NEW S, NEW h \in Seq(S)
  PROVE  IsHeap(h)
<1>1. Len(h) \in Nat /\ DOMAIN h = 1..Len(h)
  BY LenProperties
<1> QED
  BY <1>1, IsASeq DEF IsHeap

LEMMA MadeHeap ==
  ASSUME NEW n \in Nat, NEW h, DOMAIN h = 1..n, h = [i \in 1..n |-> h[i]]
  PROVE  IsHeap(h) /\ Len(h) = n
<1> DEFINE S == {h[i] : i \in DOMAIN h}
<1>1. h \in [1..n -> S]
  OBVIOUS
<1> HIDE DEF S
<1>2. h \in Seq(S) /\ Len(h) = n
  BY <1>1, IsASeq, LenProperties
<1> QED
  BY <1>2 DEF IsHeap, S

LEMMA HeapAppend ==
  ASSUME NEW h, IsHeap(h), NEW object
  PROVE  LET new == Append(h, object)
         IN /\ IsHeap(new) /\ Len(new) = Len(h) + 1 /\ DOMAIN new = 1..(Len(h) + 1)
            /\ \A i \in DOMAIN h : i \in DOMAIN new /\ new[i] = h[i]
            /\ new[Len(h) + 1] = object
<1> DEFINE S == {h[i] : i \in DOMAIN h}
           T == S \cup {object}
<1>1. h \in Seq(S) /\ object \in T /\ S \subseteq T
  BY DEF IsHeap
<1> HIDE DEF S, T
<1>2. h \in Seq(T)
  BY <1>1, SeqMonotonic
<1>3. Append(h, object) \in Seq(T)
  BY <1>1, <1>2, Appended
<1>4. Len(h) \in Nat /\ DOMAIN h = 1..Len(h)
  BY HeapSize
<1>5. IsHeap(Append(h, object))
  BY <1>3, SequenceIsHeap
<1>6. /\ Len(Append(h, object)) = Len(h) + 1
      /\ DOMAIN Append(h, object) = DOMAIN h \cup {Len(h) + 1}
      /\ \A i \in DOMAIN h : Append(h, object)[i] = h[i]
      /\ Append(h, object)[Len(h) + 1] = object
  BY <1>1, <1>2, Appended
<1> QED
  BY <1>4, <1>5, <1>6

LEMMA HeapJoin ==
  ASSUME NEW h, IsHeap(h), NEW t, IsHeap(t)
  PROVE  LET new == h \o t
         IN /\ IsHeap(new) /\ Len(new) = Len(h) + Len(t) /\ DOMAIN new = 1..(Len(h) + Len(t))
            /\ \A i \in DOMAIN h : i \in DOMAIN new /\ new[i] = h[i]
            /\ \A i \in DOMAIN t : Len(h) + i \in DOMAIN new /\ new[Len(h) + i] = t[i]
            /\ \A i \in DOMAIN new \ DOMAIN h : i - Len(h) \in DOMAIN t /\ new[i] = t[i - Len(h)]
<1> DEFINE S == {h[i] : i \in DOMAIN h} \cup {t[i] : i \in DOMAIN t}
<1>1. h \in Seq(S) /\ t \in Seq(S)
  BY SeqMonotonic DEF IsHeap
<1> HIDE DEF S
<1>2. /\ h \o t \in Seq(S) /\ Len(h \o t) = Len(h) + Len(t)
      /\ \A i \in 1..(Len(h) + Len(t)) :
           (h \o t)[i] = IF i <= Len(h) THEN h[i] ELSE t[i - Len(h)]
  BY <1>1, ConcatProperties
<1>3. /\ Len(h) \in Nat /\ DOMAIN h = 1..Len(h) /\ Len(t) \in Nat /\ DOMAIN t = 1..Len(t)
  BY HeapSize
<1>4. IsHeap(h \o t) /\ DOMAIN (h \o t) = 1..(Len(h) + Len(t))
  BY <1>2, SequenceIsHeap, HeapSize
<1> QED
  BY <1>2, <1>3, <1>4

LEMMA HeapPut ==
  ASSUME NEW h, IsHeap(h), NEW at \in DOMAIN h, NEW key, NEW value
  PROVE  LET new == Put(h, at, key, value)
         IN /\ IsHeap(new) /\ Len(new) = Len(h) /\ DOMAIN new = DOMAIN h
            /\ \A i \in DOMAIN h \ {at} : new[i] = h[i]
            /\ new[at] = With(h[at], key, value)
<1>1. Len(h) \in Nat /\ DOMAIN h = 1..Len(h)
  BY HeapSize
<1>2. Put(h, at, key, value) = [h EXCEPT ![at] = With(@, key, value)]
  BY <1>1 DEF Put
<1> DEFINE new == [h EXCEPT ![at] = With(@, key, value)]
<1>3. DOMAIN new = 1..Len(h) /\ new = [i \in 1..Len(h) |-> new[i]]
  BY <1>1
<1>4. \A i \in DOMAIN h : new[i] = IF i = at THEN With(h[at], key, value) ELSE h[i]
  OBVIOUS
<1> HIDE DEF new
<1>5. IsHeap(new) /\ Len(new) = Len(h)
  BY <1>1, <1>3, MadeHeap
<1> QED
  BY <1>1, <1>2, <1>3, <1>4, <1>5 DEF new

LEMMA WithKeys ==
  ASSUME NEW object, NEW key, NEW value
  PROVE  LET new == With(object, key, value)
         IN /\ DOMAIN new = DOMAIN object \cup {key}
            /\ new[key] = value
            /\ \A k \in DOMAIN object \ {key} : new[k] = object[k]
BY DEF With, Spread

LEMMA TargetPath ==
  ASSUME NEW path \in Seq(STRING)
  PROVE  LET keys == Target(path)
         IN /\ Len(keys) \in Nat \ {0} /\ DOMAIN keys = 1..Len(keys)
            /\ Last(keys) = keys[Len(keys)]
            /\ Len(keys) > 1 => keys = path /\ Len(path) > 1
            /\ Len(path) > 1 => keys = path
<1>1. Len(path) \in Nat /\ DOMAIN path = 1..Len(path)
  BY LenProperties
<1>2. CASE path = <<>>
  <2>1. Target(path) = <<"undefined">> /\ Len(path) = 0
    BY <1>2 DEF Target
  <2> DEFINE keys == <<"undefined">>
  <2>2. Len(keys) = 1 /\ DOMAIN keys = 1..1 /\ keys = [i \in 1..1 |-> "undefined"]
    OBVIOUS
  <2> HIDE DEF keys
  <2> QED
    BY <2>1, <2>2 DEF Last, keys
<1>3. CASE path # <<>>
  BY <1>1, <1>3, EmptySeq DEF Target, Last
<1> QED
  BY <1>2, <1>3

-------------------------------------------------------------------------------
(***************************************************************************)
(* What setPath does to the heap: it makes objects, and writes into the    *)
(* root and into whatever object it enters on its way.                     *)
(***************************************************************************)
LEMMA EnterNew ==
  ASSUME NEW h, IsHeap(h), NEW at \in DOMAIN h, NEW key, key \notin DOMAIN h[at]
  PROVE  LET new == Enter([heap |-> h, at |-> at], key)
         IN /\ IsHeap(new.heap) /\ Len(new.heap) = Len(h) + 1 /\ new.at = Len(h) + 1
            /\ DOMAIN new.heap = 1..(Len(h) + 1)
            /\ new = [heap |-> new.heap, at |-> new.at]
            /\ new.heap[new.at] = Nothing
            /\ \A i \in DOMAIN h \ {at} : new.heap[i] = h[i]
            /\ DOMAIN new.heap[at] = DOMAIN h[at] \cup {key}
<1> DEFINE put == Put(h, at, key, Ref(Len(h) + 1))
           made == Append(put, Nothing)
<1>1. Len(h) \in Nat /\ DOMAIN h = 1..Len(h)
  BY HeapSize
<1>2. Enter([heap |-> h, at |-> at], key) = [heap |-> made, at |-> Len(h) + 1]
  BY <1>1 DEF Enter, Key, Undefined
<1>3. /\ IsHeap(put) /\ Len(put) = Len(h) /\ DOMAIN put = DOMAIN h
      /\ \A i \in DOMAIN h \ {at} : put[i] = h[i]
      /\ put[at] = With(h[at], key, Ref(Len(h) + 1))
  BY HeapPut
<1>4. DOMAIN put[at] = DOMAIN h[at] \cup {key}
  BY <1>3 DEF With, Spread
<1> HIDE DEF put
<1>5. /\ IsHeap(made) /\ Len(made) = Len(put) + 1 /\ DOMAIN made = 1..(Len(put) + 1)
      /\ \A i \in DOMAIN put : i \in DOMAIN made /\ made[i] = put[i]
      /\ made[Len(put) + 1] = Nothing
  BY <1>3, HeapAppend
<1> HIDE DEF made
<1> QED
  BY <1>1, <1>2, <1>3, <1>4, <1>5

\* What a rule may write: the root, if it does not enter an object there.
SetOnlyRoot(h, root, key, new) ==
  /\ IsHeap(new) /\ Len(new) >= Len(h)
  /\ \A i \in DOMAIN h \ {root} : new[i] = h[i]
  /\ DOMAIN new[root] \subseteq DOMAIN h[root] \cup {key}

LEMMA SetKeeps ==
  ASSUME NEW h, IsHeap(h), NEW root \in DOMAIN h, NEW path \in Seq(STRING), NEW value,
         Len(path) > 1 => path[1] \notin DOMAIN h[root]
  PROVE  SetOnlyRoot(h, root, Target(path)[1], Set(h, root, path, value))
<1> DEFINE keys == Target(path)
<1>1. /\ Len(keys) \in Nat \ {0} /\ DOMAIN keys = 1..Len(keys)
      /\ Last(keys) = keys[Len(keys)]
      /\ Len(keys) > 1 => keys = path /\ Len(path) > 1
  BY TargetPath
<1>2. Len(h) \in Nat /\ DOMAIN h = 1..Len(h)
  BY HeapSize
<1>0. LET sought == Target(path)
      IN \E f : /\ f[0] = [heap |-> h, at |-> root]
                /\ \A k \in 0..(Len(sought) - 2) : f[k + 1] = Enter(f[k], sought[k + 1])
                /\ LET parent == f[Len(sought) - 1]
                   IN Set(h, root, path, value) = Put(parent.heap, parent.at, Last(sought), value)
  <2>1. Len(Target(path)) \in Nat \ {0}
    BY <1>1
  <2> QED
    BY <2>1, SetFound
<1>3. PICK f : /\ f[0] = [heap |-> h, at |-> root]
               /\ \A k \in 0..(Len(keys) - 2) : f[k + 1] = Enter(f[k], keys[k + 1])
               /\ LET parent == f[Len(keys) - 1]
                  IN Set(h, root, path, value) = Put(parent.heap, parent.at, Last(keys), value)
  BY <1>0
<1> HIDE DEF keys
<1> DEFINE n == Len(keys) - 1
           Way(k) == LET new == f[k].heap
                     IN /\ SetOnlyRoot(h, root, keys[1], new)
                        /\ f[k] = [heap |-> new, at |-> f[k].at]
                        /\ f[k].at \in DOMAIN new
                        /\ IF k = 0 THEN f[k].at = root /\ new = h
                           ELSE f[k].at > Len(h) /\ new[f[k].at] = Nothing
           P == {k \in Nat : Way(k)}
<1>4. 0 \in P
  BY <1>2, <1>3 DEF SetOnlyRoot
<1>5. ASSUME NEW k \in 0..(n - 1), k \in P PROVE k + 1 \in P
  <2> DEFINE new == f[k].heap
             at == f[k].at
             next == f[k + 1]
  <2>1. Way(k) /\ k \in 0..(Len(keys) - 2) /\ k \in Nat
    BY <1>1, <1>5
  <2>2. next = Enter([heap |-> new, at |-> at], keys[k + 1])
    BY <1>3, <2>1
  <2>3. IsHeap(new) /\ at \in DOMAIN new /\ Len(new) \in Nat /\ Len(new) >= Len(h)
    BY <2>1, HeapSize DEF SetOnlyRoot
  <2>4. keys[k + 1] \notin DOMAIN new[at]
    <3>1. CASE k = 0
      BY <1>1, <2>1, <3>1
    <3>2. CASE k # 0
      BY <2>1, <3>2 DEF Nothing
    <3> QED
      BY <3>1, <3>2
  <2> HIDE DEF new, at, next
  <2> DEFINE e == Enter([heap |-> new, at |-> at], keys[k + 1])
  <2>11. /\ IsHeap(e.heap) /\ Len(e.heap) = Len(new) + 1 /\ e.at = Len(new) + 1
         /\ DOMAIN e.heap = 1..(Len(new) + 1)
         /\ e = [heap |-> e.heap, at |-> e.at]
         /\ e.heap[e.at] = Nothing
         /\ \A i \in DOMAIN new \ {at} : e.heap[i] = new[i]
         /\ DOMAIN e.heap[at] = DOMAIN new[at] \cup {keys[k + 1]}
    BY <2>3, <2>4, EnterNew
  <2>12. e = next
    BY <2>2
  <2> HIDE DEF e
  <2>5. /\ IsHeap(next.heap) /\ Len(next.heap) = Len(new) + 1 /\ next.at = Len(new) + 1
        /\ DOMAIN next.heap = 1..(Len(new) + 1)
        /\ next = [heap |-> next.heap, at |-> next.at]
        /\ next.heap[next.at] = Nothing
        /\ \A i \in DOMAIN new \ {at} : next.heap[i] = new[i]
        /\ DOMAIN next.heap[at] = DOMAIN new[at] \cup {keys[k + 1]}
    BY <2>11, <2>12
  <2>6. DOMAIN new = 1..Len(new)
    BY <2>3, HeapSize
  <2>7. \A i \in DOMAIN h \ {root} : next.heap[i] = h[i]
    <3>1. ASSUME NEW i \in DOMAIN h \ {root} PROVE i # at /\ i \in DOMAIN new /\ new[i] = h[i]
      BY <1>2, <2>1, <2>3, <2>6 DEF SetOnlyRoot, new, at
    <3> QED
      BY <2>5, <3>1
  <2>8. DOMAIN next.heap[root] \subseteq DOMAIN h[root] \cup {keys[1]}
    <3>1. CASE k = 0
      BY <2>1, <2>5, <3>1 DEF new, at
    <3>2. CASE k # 0
      <4>1. at # root /\ root \in DOMAIN new
        BY <1>2, <2>1, <2>3, <2>6, <3>2 DEF new, at
      <4> QED
        BY <2>1, <2>5, <4>1 DEF SetOnlyRoot, new, at
    <3> QED
      BY <3>1, <3>2
  <2>9. SetOnlyRoot(h, root, keys[1], next.heap)
    BY <1>2, <2>3, <2>5, <2>7, <2>8 DEF SetOnlyRoot
  <2>10. next.at \in DOMAIN next.heap /\ next.at > Len(h)
    BY <1>2, <2>3, <2>5
  <2> QED
    BY <2>1, <2>5, <2>9, <2>10 DEF next
<1>6. n \in Nat /\ Len(keys) = n + 1
  BY <1>1
<1>7. Way(n)
  <2> HIDE DEF P, n
  <2>1. \A k \in 0..n : k \in P
    BY <1>4, <1>5, <1>6, UpTo
  <2> QED
    BY <1>6, <2>1 DEF P
<1> DEFINE last == f[n].heap
           at == f[n].at
           key == Last(keys)
<1>8. IsHeap(last) /\ at \in DOMAIN last
  BY <1>7 DEF SetOnlyRoot
<1>9. Set(h, root, path, value) = Put(last, at, key, value)
  BY <1>3
<1> DEFINE new == Put(last, at, key, value)
<1>10. /\ IsHeap(new) /\ Len(new) = Len(last) /\ DOMAIN new = DOMAIN last
       /\ \A i \in DOMAIN last \ {at} : new[i] = last[i]
       /\ new[at] = With(last[at], key, value)
  <2> HIDE DEF last, at, key
  <2> QED
    BY <1>8, HeapPut
<1>11. DOMAIN new[at] = DOMAIN last[at] \cup {key}
  <2> HIDE DEF last, at, key, new
  <2> QED
    BY <1>10 DEF With, Spread
<1>12. Len(last) \in Nat /\ DOMAIN last = 1..Len(last) /\ Len(last) >= Len(h)
  <2>1. IsHeap(last) /\ Len(last) >= Len(h)
    BY <1>7 DEF SetOnlyRoot
  <2> QED
    BY <2>1, HeapSize
<1> HIDE DEF new
<1>13. \A i \in DOMAIN h \ {root} : i \in DOMAIN last /\ i # at /\ last[i] = h[i]
  BY <1>2, <1>7, <1>12 DEF SetOnlyRoot
<1>14. DOMAIN new[root] \subseteq DOMAIN h[root] \cup {keys[1]}
  <2>1. CASE n = 0
    <3>0. Len(keys) = 1
      <4> HIDE DEF n
      <4> QED
        BY <1>6, <2>1
    <3>1. Way(0)
      <4> HIDE DEF Way, n
      <4> QED
        BY <1>7, <2>1
    <3>2. f[n] = f[0]
      <4> HIDE DEF n
      <4> QED
        BY <2>1
    <3>3. at = root /\ last = h /\ key = keys[1]
      <4>1. f[0].at = root /\ f[0].heap = h
        BY <3>1
      <4>2. at = root /\ last = h
        <5> HIDE DEF n
        <5> QED
          BY <3>2, <4>1
      <4>3. key = keys[1]
        BY <1>1, <3>0
      <4> QED
        BY <4>2, <4>3
    <3> HIDE DEF last, at, key
    <3> QED
      BY <1>11, <3>3
  <2>2. CASE n # 0
    <3>1. at > Len(h) /\ DOMAIN last[root] \subseteq DOMAIN h[root] \cup {keys[1]}
      BY <1>7, <2>2 DEF SetOnlyRoot
    <3>2. root \in DOMAIN last /\ at # root
      BY <1>2, <1>12, <3>1
    <3> QED
      BY <1>10, <3>1, <3>2
  <2> QED
    BY <2>1, <2>2
<1> HIDE DEF last, at, key
<1> QED
  BY <1>9, <1>10, <1>12, <1>13, <1>14 DEF SetOnlyRoot, new, keys

LEMMA ApplySets ==
  ASSUME NEW h, NEW root, NEW rule
  PROVE  Apply(h, root, rule) = h \/ \E value : Apply(h, root, rule) = Set(h, root, rule.to, value)
BY DEF Apply

LEMMA ApplyKeeps ==
  ASSUME NEW h, IsHeap(h), NEW root \in DOMAIN h, NEW rule \in Rule,
         Len(rule.to) > 1 => rule.to[1] \notin DOMAIN h[root]
  PROVE  SetOnlyRoot(h, root, Target(rule.to)[1], Apply(h, root, rule))
<1>1. Len(h) \in Nat
  BY HeapSize
<1>2. rule.to \in Seq(STRING)
  BY DEF Rule
<1>3. SetOnlyRoot(h, root, Target(rule.to)[1], h)
  BY <1>1 DEF SetOnlyRoot
<1> QED
  BY <1>2, <1>3, ApplySets, SetKeeps

-------------------------------------------------------------------------------
(***************************************************************************)
(* References lead to objects, to the first n of them, and an output       *)
(* schema is one that a node is set up with.                               *)
(***************************************************************************)
NodeSchemas == UNION {{d.node[m].schema : m \in Nodes} : d \in Designs}

Refers(value, n) ==
  \/ value.is = "object" /\ value.at \in 1..n
  \/ value.is = "list" /\ \A i \in DOMAIN value.items :
       value.items[i].is = "object" => value.items[i].at \in 1..n
  \/ value.is = "schema" /\ value.fields \in NodeSchemas
  \/ value.is \in {"undefined", "text", "no"}

Sounds(h, n) == \A i \in DOMAIN h : \A key \in DOMAIN h[i] : Refers(h[i][key], n)

Well(h) == IsHeap(h) /\ Sounds(h, Len(h))

LEMMA RefersMore ==
  ASSUME NEW m \in Nat, NEW n \in Nat, m <= n, NEW value, Refers(value, m)
  PROVE  Refers(value, n)
BY DEF Refers

LEMMA SoundsMore ==
  ASSUME NEW m \in Nat, NEW n \in Nat, m <= n, NEW h, Sounds(h, m)
  PROVE  Sounds(h, n)
BY RefersMore DEF Sounds

LEMMA RefersPlain ==
  ASSUME NEW n \in Nat
  PROVE  /\ Refers(Undefined, n) /\ Refers(No, n) /\ \A word : Refers(Text(word), n)
         /\ \A at \in 1..n : Refers(Ref(at), n)
BY DEF Refers, Undefined, No, Text, Ref

LEMMA RefersList ==
  ASSUME NEW n \in Nat, NEW items,
         \A i \in DOMAIN items : items[i].is = "object" => items[i].at \in 1..n
  PROVE  Refers(List(items), n)
BY DEF Refers, List

LEMMA FollowRefers ==
  ASSUME NEW h, IsHeap(h), NEW n \in Nat, Sounds(h, n), NEW value, Refers(value, Len(h)), NEW key
  PROVE  Refers(Follow(h, value, key), n)
<1>1. Len(h) \in Nat /\ DOMAIN h = 1..Len(h)
  BY HeapSize
<1>2. Refers(Undefined, n)
  BY RefersPlain
<1>3. CASE value.is = "object"
  BY <1>1, <1>2, <1>3 DEF Follow, Key, Refers, Sounds
<1>4. CASE value.is # "object"
  BY <1>2, <1>4 DEF Follow
<1> QED
  BY <1>3, <1>4

LEMMA GetRefers ==
  ASSUME NEW h, Well(h), NEW root \in DOMAIN h, NEW path, Len(path) \in Nat
  PROVE  Refers(Get(h, root, path), Len(h))
<1>1. PICK f : /\ f[0] = Ref(root)
               /\ \A k \in 0..(Len(path) - 1) : f[k + 1] = Follow(h, f[k], path[k + 1])
               /\ Get(h, root, path) = f[Len(path)]
  BY GetFound
<1>2. Len(h) \in Nat /\ DOMAIN h = 1..Len(h) /\ IsHeap(h) /\ Sounds(h, Len(h))
  BY HeapSize DEF Well
<1> DEFINE P == {k \in Nat : Refers(f[k], Len(h))}
<1>3. 0 \in P
  BY <1>1, <1>2, RefersPlain
<1>4. ASSUME NEW k \in 0..(Len(path) - 1), k \in P PROVE k + 1 \in P
  <2>1. Refers(f[k], Len(h)) /\ k + 1 \in Nat
    BY <1>4
  <2>2. Refers(Follow(h, f[k], path[k + 1]), Len(h))
    BY <1>2, <2>1, FollowRefers
  <2> QED
    BY <1>1, <2>1, <2>2
<1> HIDE DEF P
<1>5. \A k \in 0..Len(path) : k \in P
  BY <1>3, <1>4, UpTo
<1> QED
  BY <1>1, <1>5 DEF P

LEMMA PutSound ==
  ASSUME NEW h, IsHeap(h), NEW n \in Nat, Sounds(h, n), NEW at \in {0} \cup DOMAIN h,
         NEW key, NEW value, Refers(value, n)
  PROVE  LET new == Put(h, at, key, value)
         IN IsHeap(new) /\ Len(new) = Len(h) /\ DOMAIN new = DOMAIN h /\ Sounds(new, n)
<1>1. Len(h) \in Nat /\ DOMAIN h = 1..Len(h)
  BY HeapSize
<1>2. CASE at = 0
  BY <1>2 DEF Put
<1>3. CASE at \in DOMAIN h
  <2> DEFINE new == Put(h, at, key, value)
  <2>1. /\ IsHeap(new) /\ Len(new) = Len(h) /\ DOMAIN new = DOMAIN h
        /\ \A i \in DOMAIN h \ {at} : new[i] = h[i]
        /\ new[at] = With(h[at], key, value)
    BY <1>3, HeapPut
  <2> HIDE DEF new
  <2>2. ASSUME NEW k \in DOMAIN new[at] PROVE Refers(new[at][k], n)
    BY <1>3, <2>1, <2>2 DEF With, Spread, Sounds
  <2>3. Sounds(new, n)
    BY <2>1, <2>2 DEF Sounds
  <2> QED
    BY <2>1, <2>3 DEF new
<1> QED
  BY <1>2, <1>3

\* A way through objects stays among them.
OnWay(h, s) ==
  /\ s = [heap |-> s.heap, at |-> s.at]
  /\ Well(s.heap) /\ Len(s.heap) >= Len(h) /\ s.at \in {0} \cup DOMAIN s.heap

LEMMA EnterSound ==
  ASSUME NEW h, Len(h) \in Nat, NEW s, OnWay(h, s), NEW key
  PROVE  OnWay(h, Enter(s, key))
<1> DEFINE next == IF s.at = 0 THEN List(<<>>) ELSE Key(s.heap[s.at], key)
           n == Len(s.heap)
<1>1. n \in Nat /\ DOMAIN s.heap = 1..n /\ IsHeap(s.heap) /\ Sounds(s.heap, n) /\ n >= Len(h)
  BY HeapSize DEF OnWay, Well
<1>2. CASE next.is = "object"
  <2>1. s.at # 0 /\ s.at \in DOMAIN s.heap
    BY <1>2, ValueKinds DEF OnWay
  <2>2. next.at \in 1..n
    <3>1. Refers(next, n)
      BY <1>1, <2>1, RefersPlain DEF Key, Sounds
    <3> HIDE DEF next
    <3> QED
      BY <1>2, <3>1 DEF Refers
  <2>3. Enter(s, key) = [heap |-> s.heap, at |-> next.at]
    BY <1>2 DEF Enter
  <2> HIDE DEF next
  <2> QED
    BY <1>1, <2>2, <2>3 DEF OnWay
<1>3. CASE next.is \in {"list", "schema"}
  <2>1. Enter(s, key) = [heap |-> s.heap, at |-> 0]
    BY <1>3 DEF Enter
  <2> QED
    BY <1>1, <2>1 DEF OnWay
<1>4. CASE next.is \notin {"object", "list", "schema"}
  <2> DEFINE put == Put(s.heap, s.at, key, Ref(n + 1))
  <2>1. Enter(s, key) = [heap |-> Append(put, Nothing), at |-> n + 1]
    BY <1>4 DEF Enter
  <2>2. Sounds(s.heap, n + 1) /\ Refers(Ref(n + 1), n + 1)
    BY <1>1, SoundsMore, RefersPlain
  <2>3. s.at \in {0} \cup DOMAIN s.heap
    BY DEF OnWay
  <2>4. IsHeap(put) /\ Len(put) = n /\ DOMAIN put = 1..n /\ Sounds(put, n + 1)
    <3> HIDE DEF n
    <3> QED
      BY <1>1, <2>2, <2>3, PutSound
  <2> HIDE DEF put
  <2> DEFINE new == Append(put, Nothing)
  <2>5. /\ IsHeap(new) /\ Len(new) = n + 1 /\ DOMAIN new = 1..(n + 1)
        /\ \A i \in DOMAIN put : new[i] = put[i]
        /\ new[n + 1] = Nothing
    BY <2>4, HeapAppend
  <2> HIDE DEF new
  <2>6. Sounds(new, n + 1)
    <3> HIDE DEF n
    <3> SUFFICES ASSUME NEW i \in DOMAIN new, NEW k \in DOMAIN new[i] PROVE Refers(new[i][k], n + 1)
      BY DEF Sounds
    <3>1. i \in 1..n \/ i = n + 1
      BY <1>1, <2>5
    <3>2. CASE i \in 1..n
      BY <2>4, <2>5, <3>2 DEF Sounds
    <3>3. CASE i = n + 1
      BY <2>5, <3>3 DEF Nothing
    <3> QED
      BY <3>1, <3>2, <3>3
  <2> HIDE DEF n
  <2> QED
    BY <1>1, <2>1, <2>5, <2>6 DEF OnWay, Well, new
<1> QED
  BY <1>2, <1>3, <1>4

LEMMA SetSound ==
  ASSUME NEW h, Well(h), NEW root \in DOMAIN h, NEW path \in Seq(STRING), NEW value,
         Refers(value, Len(h))
  PROVE  LET new == Set(h, root, path, value) IN Well(new) /\ Len(new) >= Len(h)
<1> DEFINE keys == Target(path)
<1>1. Len(Target(path)) \in Nat \ {0}
  BY TargetPath
<1>2. Len(h) \in Nat /\ DOMAIN h = 1..Len(h)
  BY HeapSize DEF Well
<1>3. LET sought == Target(path)
      IN \E f : /\ f[0] = [heap |-> h, at |-> root]
                /\ \A k \in 0..(Len(sought) - 2) : f[k + 1] = Enter(f[k], sought[k + 1])
                /\ LET parent == f[Len(sought) - 1]
                   IN Set(h, root, path, value) = Put(parent.heap, parent.at, Last(sought), value)
  BY <1>1, SetFound
<1>4. PICK f : /\ f[0] = [heap |-> h, at |-> root]
               /\ \A k \in 0..(Len(keys) - 2) : f[k + 1] = Enter(f[k], keys[k + 1])
               /\ LET parent == f[Len(keys) - 1]
                  IN Set(h, root, path, value) = Put(parent.heap, parent.at, Last(keys), value)
  BY <1>3
<1> DEFINE P == {k \in Nat : OnWay(h, f[k])}
           n == Len(keys) - 1
<1>5. 0 \in P
  BY <1>2, <1>4 DEF OnWay, Well
<1>6. ASSUME NEW k \in 0..(n - 1), k \in P PROVE k + 1 \in P
  <2>1. OnWay(h, f[k]) /\ k + 1 \in Nat /\ k \in 0..(Len(keys) - 2)
    BY <1>1, <1>6
  <2>2. OnWay(h, Enter(f[k], keys[k + 1]))
    BY <1>2, <2>1, EnterSound
  <2> QED
    BY <1>4, <2>1, <2>2
<1>7. n \in Nat
  BY <1>1
<1>8. OnWay(h, f[n])
  <2> HIDE DEF P, n
  <2>1. \A k \in 0..n : k \in P
    BY <1>5, <1>6, <1>7, UpTo
  <2> QED
    BY <1>7, <2>1 DEF P
<1> DEFINE last == f[n].heap
           at == f[n].at
           new == Put(last, at, Last(keys), value)
<1>9. Set(h, root, path, value) = new
  BY <1>4
<1>10. /\ IsHeap(last) /\ Sounds(last, Len(last)) /\ Len(last) >= Len(h) /\ at \in {0} \cup DOMAIN last
  BY <1>8 DEF OnWay, Well
<1> HIDE DEF last, at
<1>11. Len(last) \in Nat /\ Refers(value, Len(last))
  BY <1>2, <1>10, HeapSize, RefersMore
<1>12. IsHeap(new) /\ Len(new) = Len(last) /\ Sounds(new, Len(last))
  BY <1>10, <1>11, PutSound
<1> HIDE DEF new
<1> QED
  BY <1>9, <1>10, <1>12 DEF Well

\* What a rule may write is a value of its own or one that is in the heap.
LEMMA ApplySound ==
  ASSUME NEW h, Well(h), NEW root \in DOMAIN h, NEW rule \in Rule
  PROVE  LET new == Apply(h, root, rule) IN Well(new) /\ Len(new) >= Len(h)
<1>1. Len(h) \in Nat /\ IsHeap(h) /\ Sounds(h, Len(h))
  BY HeapSize DEF Well
<1>2. /\ rule.to \in Seq(STRING) /\ rule.from \in Seq(STRING) /\ rule.paths \in Seq(Seq(STRING))
      /\ Len(rule.from) \in Nat /\ Len(rule.to) \in Nat
      /\ \A i \in DOMAIN rule.paths : Len(rule.paths[i]) \in Nat
  <2>1. rule.to \in Seq(STRING) /\ rule.from \in Seq(STRING) /\ rule.paths \in Seq(Seq(STRING))
    BY DEF Rule
  <2>2. \A i \in DOMAIN rule.paths : rule.paths[i] \in Seq(STRING)
    BY <2>1, LenProperties
  <2> QED
    BY <2>1, <2>2, LenProperties
<1>3. ASSUME NEW value, Refers(value, Len(h))
      PROVE  LET new == Set(h, root, rule.to, value) IN Well(new) /\ Len(new) >= Len(h)
  BY <1>2, <1>3, SetSound
<1>4. CASE rule.transform = "direct" /\ rule.from # <<>>
  <2>1. Refers(Get(h, root, rule.from), Len(h))
    BY <1>2, GetRefers
  <2>2. Apply(h, root, rule) = Set(h, root, rule.to, Get(h, root, rule.from))
    BY <1>4 DEF Apply
  <2> QED
    BY <1>3, <2>1, <2>2
<1>5. CASE rule.transform = "defaultValue" /\ Get(h, root, rule.to) = Undefined
  <2>1. Refers(Text("default"), Len(h))
    BY <1>1, RefersPlain
  <2>2. Apply(h, root, rule) = Set(h, root, rule.to, Text("default"))
    BY <1>5 DEF Apply
  <2> QED
    BY <1>3, <2>1, <2>2
<1>6. CASE rule.transform = "formatConversion" /\ rule.from # <<>>
  <2>1. Refers(Get(h, root, rule.from), Len(h))
    BY <1>2, GetRefers
  <2>2. Refers(Shown(Get(h, root, rule.from)), Len(h))
    BY <1>1, <2>1, RefersPlain DEF Shown
  <2>3. Apply(h, root, rule) = Set(h, root, rule.to, Shown(Get(h, root, rule.from)))
    BY <1>6 DEF Apply
  <2> QED
    BY <1>3, <2>2, <2>3
<1>7. CASE rule.transform = "filter" /\ rule.from # <<>> /\ Get(h, root, <<rule.from[1]>>).is = "list"
  <2> DEFINE items == Get(h, root, <<rule.from[1]>>).items
             Field(v) == IF v.is \in {"object", "list", "schema"} THEN Follow(h, v, rule.field) ELSE v
             fields == [i \in DOMAIN items |-> Field(items[i])]
  <2>1. Len(<<rule.from[1]>>) \in Nat
    OBVIOUS
  <2>2. Refers(Get(h, root, <<rule.from[1]>>), Len(h))
    BY <2>1, GetRefers
  <2>3. \A i \in DOMAIN items : items[i].is = "object" => items[i].at \in 1..Len(h)
    BY <1>7, <2>2 DEF Refers
  <2> HIDE DEF items
  <2>4. ASSUME NEW i \in DOMAIN items, fields[i].is = "object" PROVE fields[i].at \in 1..Len(h)
    <3>1. fields[i] = Field(items[i])
      OBVIOUS
    <3>2. CASE items[i].is = "object"
      <4>1. Refers(items[i], Len(h))
        BY <2>3, <3>2 DEF Refers
      <4>2. Refers(Follow(h, items[i], rule.field), Len(h))
        BY <1>1, <4>1, FollowRefers
      <4>3. fields[i] = Follow(h, items[i], rule.field)
        BY <3>1, <3>2
      <4> HIDE DEF fields
      <4> QED
        BY <2>4, <4>2, <4>3 DEF Refers
    <3>3. CASE items[i].is # "object"
      BY <2>4, <3>1, <3>3 DEF Follow, Undefined
    <3> QED
      BY <3>2, <3>3
  <2>5. Apply(h, root, rule) = Set(h, root, rule.to, List(fields))
    BY <1>7 DEF Apply, items
  <2>6. Refers(List(fields), Len(h))
    <3>1. \A i \in DOMAIN fields : fields[i].is = "object" => fields[i].at \in 1..Len(h)
      BY <2>4
    <3> HIDE DEF fields
    <3> QED
      BY <1>1, <3>1, RefersList
  <2> QED
    BY <1>3, <2>5, <2>6
<1>8. CASE rule.transform = "combineFields"
  <2> DEFINE values == [i \in DOMAIN rule.paths |-> Get(h, root, rule.paths[i])]
  <2>1. \A i \in DOMAIN rule.paths : Refers(Get(h, root, rule.paths[i]), Len(h))
    BY <1>2, GetRefers
  <2>2. \A i \in DOMAIN values : values[i].is = "object" => values[i].at \in 1..Len(h)
    BY <2>1 DEF Refers
  <2>3. Apply(h, root, rule) = Set(h, root, rule.to, List(values))
    BY <1>8 DEF Apply
  <2> HIDE DEF values
  <2>4. Refers(List(values), Len(h))
    BY <1>1, <2>2, RefersList
  <2> QED
    BY <1>3, <2>3, <2>4
<1>9. CASE /\ ~(rule.transform = "direct" /\ rule.from # <<>>)
           /\ ~(rule.transform = "defaultValue" /\ Get(h, root, rule.to) = Undefined)
           /\ ~(rule.transform = "formatConversion" /\ rule.from # <<>>)
           /\ ~(rule.transform = "filter" /\ rule.from # <<>> /\ Get(h, root, <<rule.from[1]>>).is = "list")
           /\ rule.transform # "combineFields"
  <2>1. Apply(h, root, rule) = h
    BY <1>9 DEF Apply
  <2> QED
    BY <1>1, <2>1
<1> QED
  BY <1>4, <1>5, <1>6, <1>7, <1>8, <1>9

LEMMA RulesSound ==
  ASSUME NEW h, Well(h), NEW root \in DOMAIN h, NEW rules \in Seq(Rule)
  PROVE  LET new == ApplyRules(h, root, rules) IN Well(new) /\ Len(new) >= Len(h)
<1>1. Len(rules) \in Nat /\ \A k \in 0..(Len(rules) - 1) : rules[k + 1] \in Rule
  <2>1. Len(rules) \in Nat /\ \A k \in 1..Len(rules) : rules[k] \in Rule
    BY LenProperties, ElementOfSeq
  <2> QED
    BY <2>1
<1>0. Len(rules) \in Nat
  BY <1>1
<1>10. PICK f : RuleByRule(f, h, root, rules)
  BY <1>0, RulesFound
<1>2. /\ f[0] = h
      /\ \A k \in 0..(Len(rules) - 1) : f[k + 1] = Apply(f[k], root, rules[k + 1])
      /\ ApplyRules(h, root, rules) = f[Len(rules)]
  BY <1>10 DEF RuleByRule
<1>3. Len(h) \in Nat /\ DOMAIN h = 1..Len(h)
  BY HeapSize DEF Well
<1> DEFINE P == {k \in Nat : Well(f[k]) /\ Len(f[k]) >= Len(h)}
<1>4. 0 \in P
  BY <1>2, <1>3
<1>5. ASSUME NEW k \in 0..(Len(rules) - 1), k \in P PROVE k + 1 \in P
  <2>1. Well(f[k]) /\ Len(f[k]) >= Len(h) /\ k + 1 \in Nat
    BY <1>5
  <2>2. Len(f[k]) \in Nat /\ root \in DOMAIN f[k]
    BY <1>3, <2>1, HeapSize DEF Well
  <2>3. Well(Apply(f[k], root, rules[k + 1])) /\ Len(Apply(f[k], root, rules[k + 1])) >= Len(f[k])
    BY <1>1, <2>1, <2>2, ApplySound
  <2>4. Len(Apply(f[k], root, rules[k + 1])) \in Nat
    BY <2>3, HeapSize DEF Well
  <2> QED
    BY <1>2, <1>3, <2>1, <2>2, <2>3, <2>4
<1> HIDE DEF P
<1>6. \A k \in 0..Len(rules) : k \in P
  BY <1>1, <1>4, <1>5, UpTo
<1> QED
  BY <1>1, <1>2, <1>6 DEF P

\* Rules that never enter what is at a port, or what an earlier one has put at
\* the root, write nothing but the root and new objects.
LEMMA RulesKeep ==
  ASSUME NEW h, IsHeap(h), NEW root \in DOMAIN h, NEW rules \in Seq(Rule),
         \A i \in DOMAIN rules : Len(rules[i].to) > 1 =>
           rules[i].to[1] \notin DOMAIN h[root] \cup {Target(rules[j].to)[1] : j \in 1..(i - 1)}
  PROVE  \A i \in DOMAIN h \ {root} : ApplyRules(h, root, rules)[i] = h[i]
<1>1. /\ Len(rules) \in Nat /\ DOMAIN rules = 1..Len(rules)
      /\ \A k \in 0..(Len(rules) - 1) : rules[k + 1] \in Rule /\ k + 1 \in DOMAIN rules
  <2>1. /\ Len(rules) \in Nat /\ DOMAIN rules = 1..Len(rules)
        /\ \A k \in 1..Len(rules) : rules[k] \in Rule
    BY LenProperties, ElementOfSeq
  <2> QED
    BY <2>1
<1>2. Len(rules) \in Nat
  BY <1>1
<1>3. PICK f : RuleByRule(f, h, root, rules)
  BY <1>2, RulesFound
<1>4. /\ f[0] = h
      /\ \A k \in 0..(Len(rules) - 1) : f[k + 1] = Apply(f[k], root, rules[k + 1])
      /\ ApplyRules(h, root, rules) = f[Len(rules)]
  BY <1>3 DEF RuleByRule
<1>5. Len(h) \in Nat /\ DOMAIN h = 1..Len(h)
  BY HeapSize
<1> DEFINE Keys(k) == DOMAIN h[root] \cup {Target(rules[j].to)[1] : j \in 1..k}
           Kept(k) == /\ IsHeap(f[k]) /\ Len(f[k]) >= Len(h)
                      /\ \A i \in DOMAIN h \ {root} : f[k][i] = h[i]
                      /\ DOMAIN f[k][root] \subseteq Keys(k)
           P == {k \in Nat : Kept(k)}
<1>6. 0 \in P
  BY <1>4, <1>5
<1>7. ASSUME NEW k \in 0..(Len(rules) - 1), k \in P PROVE k + 1 \in P
  <2> DEFINE rule == rules[k + 1]
             key == Target(rule.to)[1]
  <2>1. Kept(k) /\ k + 1 \in Nat /\ k \in Nat
    BY <1>7
  <2>2. IsHeap(f[k]) /\ Len(f[k]) \in Nat /\ root \in DOMAIN f[k] /\ DOMAIN h \subseteq DOMAIN f[k]
    BY <1>5, <2>1, HeapSize
  <2>3. rule \in Rule /\ k + 1 \in DOMAIN rules
    BY <1>1
  <2>4. Len(rule.to) > 1 => rule.to[1] \notin Keys(k)
    BY <2>1, <2>3
  <2>5. Len(rule.to) > 1 => rule.to[1] \notin DOMAIN f[k][root]
    BY <2>1, <2>4
  <2>6. SetOnlyRoot(f[k], root, key, f[k + 1])
    <3>1. SetOnlyRoot(f[k], root, Target(rule.to)[1], Apply(f[k], root, rule))
      <4> HIDE DEF rule
      <4> QED
        BY <2>2, <2>3, <2>5, ApplyKeeps
    <3> QED
      BY <1>4, <3>1
  <2>7. key \in Keys(k + 1) /\ Keys(k) \subseteq Keys(k + 1)
    BY <2>1
  <2> HIDE DEF key, Keys
  <2>8. /\ IsHeap(f[k + 1]) /\ Len(f[k + 1]) >= Len(f[k])
        /\ \A i \in DOMAIN f[k] \ {root} : f[k + 1][i] = f[k][i]
        /\ DOMAIN f[k + 1][root] \subseteq DOMAIN f[k][root] \cup {key}
    BY <2>6 DEF SetOnlyRoot
  <2>9. Len(f[k + 1]) >= Len(h)
    BY <1>5, <2>1, <2>2, <2>8, HeapSize
  <2> QED
    BY <2>1, <2>2, <2>7, <2>8, <2>9
<1> HIDE DEF P
<1>8. \A k \in 0..Len(rules) : k \in P
  BY <1>1, <1>6, <1>7, UpTo
<1> QED
  BY <1>1, <1>4, <1>8 DEF P

-------------------------------------------------------------------------------
(***************************************************************************)
(* What the providers answer with refers to objects of the answer.         *)
(***************************************************************************)
Answer(made, base) == IsHeap(made.objects) /\ Len(made.objects) >= 1
                        /\ Sounds(made.objects, base + Len(made.objects))

LEMMA TupleHeaps ==
  ASSUME NEW a, NEW b, NEW c
  PROVE  /\ IsHeap(<<a>>) /\ Len(<<a>>) = 1
         /\ IsHeap(<<a, b>>) /\ Len(<<a, b>>) = 2
         /\ IsHeap(<<a, b, c>>) /\ Len(<<a, b, c>>) = 3
<1>1. IsHeap(<<a>>) /\ Len(<<a>>) = 1
  <2> DEFINE t == <<a>>
  <2>1. DOMAIN t = 1..1 /\ t = [i \in 1..1 |-> t[i]]
    OBVIOUS
  <2> HIDE DEF t
  <2> QED
    BY <2>1, MadeHeap DEF t
<1>2. IsHeap(<<a, b>>) /\ Len(<<a, b>>) = 2
  <2> DEFINE t == <<a, b>>
  <2>1. DOMAIN t = 1..2 /\ t = [i \in 1..2 |-> t[i]]
    OBVIOUS
  <2> HIDE DEF t
  <2> QED
    BY <2>1, MadeHeap DEF t
<1>3. IsHeap(<<a, b, c>>) /\ Len(<<a, b, c>>) = 3
  <2> DEFINE t == <<a, b, c>>
  <2>1. DOMAIN t = 1..3 /\ t = [i \in 1..3 |-> t[i]]
    OBVIOUS
  <2> HIDE DEF t
  <2> QED
    BY <2>1, MadeHeap DEF t
<1> QED
  BY <1>1, <1>2, <1>3

LEMMA AnswerOfOne ==
  ASSUME NEW base \in Nat, NEW a, \A key \in DOMAIN a : Refers(a[key], base + 1)
  PROVE  Answer(Fills(<<a>>), base)
<1> DEFINE t == <<a>>
<1>0. DOMAIN t = 1..1 /\ t[1] = a
  OBVIOUS
<1>1. IsHeap(t) /\ Len(t) = 1
  BY TupleHeaps
<1>2. Fills(t).objects = t
  BY Filled
<1> HIDE DEF t
<1>3. Sounds(t, base + 1)
  BY <1>0 DEF Sounds
<1>4. ASSUME NEW made, made.objects = t PROVE Answer(made, base)
  <2>0. Len(made.objects) = 1
    BY <1>1, <1>4, Zenon
  <2>1. base + Len(made.objects) = base + 1 /\ Len(made.objects) >= 1
    BY <2>0
  <2>2. Sounds(made.objects, base + 1)
    BY <1>3, <1>4
  <2>3. Sounds(made.objects, base + Len(made.objects))
    BY <2>1, <2>2
  <2> QED
    BY <1>1, <1>4, <2>1, <2>3 DEF Answer
<1> QED
  BY <1>2, <1>4 DEF t

LEMMA AnswerOfTwo ==
  ASSUME NEW base \in Nat, NEW a, \A key \in DOMAIN a : Refers(a[key], base + 2),
         NEW b, \A key \in DOMAIN b : Refers(b[key], base + 2)
  PROVE  Answer(Fills(<<a, b>>), base)
<1> DEFINE t == <<a, b>>
<1>0. DOMAIN t = 1..2 /\ t[1] = a /\ t[2] = b
  OBVIOUS
<1>1. IsHeap(t) /\ Len(t) = 2
  BY TupleHeaps
<1>2. Fills(t).objects = t
  BY Filled
<1> HIDE DEF t
<1>3. Sounds(t, base + 2)
  BY <1>0 DEF Sounds
<1>4. ASSUME NEW made, made.objects = t PROVE Answer(made, base)
  <2>0. Len(made.objects) = 2
    BY <1>1, <1>4, Zenon
  <2>1. base + Len(made.objects) = base + 2 /\ Len(made.objects) >= 1
    BY <2>0
  <2>2. Sounds(made.objects, base + 2)
    BY <1>3, <1>4
  <2>3. Sounds(made.objects, base + Len(made.objects))
    BY <2>1, <2>2
  <2> QED
    BY <1>1, <1>4, <2>1, <2>3 DEF Answer
<1> QED
  BY <1>2, <1>4 DEF t

LEMMA AnswerOfThree ==
  ASSUME NEW base \in Nat, NEW a, \A key \in DOMAIN a : Refers(a[key], base + 3),
         NEW b, \A key \in DOMAIN b : Refers(b[key], base + 3),
         NEW c, \A key \in DOMAIN c : Refers(c[key], base + 3)
  PROVE  Answer(Fills(<<a, b, c>>), base)
<1> DEFINE t == <<a, b, c>>
<1>0. DOMAIN t = 1..3 /\ t[1] = a /\ t[2] = b /\ t[3] = c
  OBVIOUS
<1>1. IsHeap(t) /\ Len(t) = 3
  BY TupleHeaps
<1>2. Fills(t).objects = t
  BY Filled
<1> HIDE DEF t
<1>3. Sounds(t, base + 3)
  BY <1>0 DEF Sounds
<1>4. ASSUME NEW made, made.objects = t PROVE Answer(made, base)
  <2>0. Len(made.objects) = 3
    BY <1>1, <1>4, Zenon
  <2>1. base + Len(made.objects) = base + 3 /\ Len(made.objects) >= 1
    BY <2>0
  <2>2. Sounds(made.objects, base + 3)
    BY <1>3, <1>4
  <2>3. Sounds(made.objects, base + Len(made.objects))
    BY <2>1, <2>2
  <2> QED
    BY <1>1, <1>4, <2>1, <2>3 DEF Answer
<1> QED
  BY <1>2, <1>4 DEF t

LEMMA RefersTexts ==
  ASSUME NEW n \in Nat, NEW word
  PROVE  Refers(List(<<Text(word)>>), n) /\ Refers(List(<<>>), n)
<1> DEFINE items == <<Text(word)>>
           none == <<>>
<1>1. \A i \in DOMAIN items : items[i].is # "object"
  BY DEF Text
<1>2. \A i \in DOMAIN none : none[i].is # "object"
  OBVIOUS
<1> HIDE DEF items, none
<1>3. Refers(List(items), n) /\ Refers(List(none), n)
  BY <1>1, <1>2, RefersList
<1> QED
  BY <1>3 DEF items, none

LEMMA ScraperAnswers ==
  ASSUME NEW base \in Nat, NEW call, NEW made \in WebScraper(call, base), made.ok
  PROVE  Answer(made, base)
<1>1. PICK word : LET text == Text(word) IN
        made = Fills(<<[payload |-> Ref(base + 2), html |-> text], [url |-> Text("url"), text |-> text]>>)
  <2>1. ~Throws.ok
    BY DEF Throws
  <2> QED
    BY <2>1 DEF WebScraper, Scraped, Answered
<1> DEFINE text == Text(word)
<1>2. Refers(text, base + 2) /\ Refers(Ref(base + 2), base + 2) /\ Refers(Text("url"), base + 2)
  <2>1. base + 2 \in Nat /\ base + 2 \in 1..(base + 2)
    OBVIOUS
  <2> QED
    BY <2>1, RefersPlain
<1> DEFINE a == [payload |-> Ref(base + 2), html |-> text]
           b == [url |-> Text("url"), text |-> text]
<1>3. (\A key \in DOMAIN a : Refers(a[key], base + 2)) /\ (\A key \in DOMAIN b : Refers(b[key], base + 2))
  BY <1>2
<1>4. made = Fills(<<a, b>>)
  BY <1>1
<1> HIDE DEF a, b
<1> QED
  BY <1>3, <1>4, AnswerOfTwo

LEMMA BrowserAnswers ==
  ASSUME NEW base \in Nat, NEW call, NEW made \in Browserless(call, base), made.ok
  PROVE  Answer(made, base)
<1>1. PICK word : LET text == Text(word) IN made = Fills(<<[payload |-> text, html |-> text]>>)
  <2>1. ~Throws.ok
    BY DEF Throws
  <2> QED
    BY <2>1 DEF Browserless
<1> DEFINE text == Text(word)
<1>2. Refers(text, base + 1)
  <2>1. base + 1 \in Nat
    OBVIOUS
  <2> QED
    BY <2>1, RefersPlain
<1> DEFINE a == [payload |-> text, html |-> text]
<1>3. (\A key \in DOMAIN a : Refers(a[key], base + 1)) /\ made = Fills(<<a>>)
  BY <1>1, <1>2
<1> HIDE DEF a
<1> QED
  BY <1>3, AnswerOfOne

LEMMA SemrushAnswers ==
  ASSUME NEW base \in Nat, NEW call, NEW made \in Semrush(call, base), made.ok
  PROVE  Answer(made, base)
<1>1. PICK b \in DomainOverview(call), found \in Keywords(call) :
        made = Fills(<<[domainOverview |-> Ref(base + 2), keywords |-> Ref(base + 3)], b,
                       [domain |-> Text("url"), keywords |-> found]>>)
  <2>1. ~Throws.ok
    BY DEF Throws
  <2>2. Ready(call, "websiteUrl") /\ ~Unreadable(call)
    BY <2>1 DEF Semrush
  <2> QED
    BY <2>2 DEF Semrush
<1>2. /\ Refers(Ref(base + 2), base + 3) /\ Refers(Ref(base + 3), base + 3)
      /\ \A word : Refers(Text(word), base + 3)
      /\ Refers(List(<<>>), base + 3)
  <2>1. base + 3 \in Nat /\ base + 2 \in 1..(base + 3) /\ base + 3 \in 1..(base + 3)
    OBVIOUS
  <2> QED
    BY <2>1, RefersPlain, RefersTexts
<1>3. \A key \in DOMAIN b : Refers(b[key], base + 3)
  BY <1>2 DEF DomainOverview, Answered
<1>4. Refers(found, base + 3)
  BY <1>2 DEF Keywords, Answered
<1> DEFINE a == [domainOverview |-> Ref(base + 2), keywords |-> Ref(base + 3)]
           c == [domain |-> Text("url"), keywords |-> found]
<1>5. \A key \in DOMAIN a : Refers(a[key], base + 3)
  BY <1>2
<1>6. \A key \in DOMAIN c : Refers(c[key], base + 3)
  BY <1>2, <1>4
<1>7. made = Fills(<<a, b, c>>)
  BY <1>1
<1> HIDE DEF a, c
<1> QED
  BY <1>3, <1>5, <1>6, <1>7, AnswerOfThree

LEMMA StubAnswers ==
  ASSUME NEW base \in Nat, NEW call,
         NEW made \in Google(call, base) \cup OpenAi(call, base) \cup Pravatar(call, base), made.ok
  PROVE  Answer(made, base)
<1>1. made = Fills(<<Nothing>>) \/ made = Fills(<<[payload |-> Text("avatar")]>>)
  <2>1. ~Throws.ok
    BY DEF Throws
  <2> QED
    BY <2>1 DEF Google, OpenAi, Pravatar
<1> DEFINE a == [payload |-> Text("avatar")]
<1>2. \A key \in DOMAIN a : Refers(a[key], base + 1)
  <2>1. base + 1 \in Nat
    OBVIOUS
  <2> QED
    BY <2>1, RefersPlain
<1>3. \A key \in DOMAIN Nothing : Refers(Nothing[key], base + 1)
  BY DEF Nothing
<1> HIDE DEF a
<1>4. Answer(Fills(<<a>>), base) /\ Answer(Fills(<<Nothing>>), base)
  BY <1>2, <1>3, AnswerOfOne
<1> QED
  BY <1>1, <1>4 DEF a

LEMMA LogoAnswersSound ==
  ASSUME NEW base \in Nat, NEW call, NEW made \in LogoProvider(call, base), made.ok
  PROVE  Answer(made, base)
<1>1. made = Fills(<<Nothing>>) \/ \E word : made = Fills(<<[logoUrl |-> Text(word)]>>)
  <2>1. ~Throws.ok
    BY DEF Throws
  <2> QED
    BY <2>1 DEF LogoProvider, Uploaded
<1>2. CASE made = Fills(<<Nothing>>)
  <2>1. \A key \in DOMAIN Nothing : Refers(Nothing[key], base + 1)
    BY DEF Nothing
  <2> QED
    BY <1>2, <2>1, AnswerOfOne
<1>3. ASSUME NEW word, made = Fills(<<[logoUrl |-> Text(word)]>>) PROVE Answer(made, base)
  <2> DEFINE a == [logoUrl |-> Text(word)]
  <2>0. base + 1 \in Nat
    OBVIOUS
  <2>1. (\A key \in DOMAIN a : Refers(a[key], base + 1)) /\ made = Fills(<<a>>)
    BY <1>3, <2>0, RefersPlain
  <2> HIDE DEF a
  <2> QED
    BY <2>1, AnswerOfOne
<1> QED
  BY <1>1, <1>2, <1>3

LEMMA InstagramAnswers ==
  ASSUME NEW base \in Nat, NEW call, NEW made \in Instagram(call, base), made.ok
  PROVE  Answer(made, base)
<1> DEFINE profile  == [profile |-> Ref(base + 2)]
           insights == Spread(profile, [insights |-> Ref(base + 3)])
           media    == List(<<Text("media")>>)
           top      == Spread(insights, [recentMedia |-> media, topMediaWithInsights |-> media])
           Failed(b) == Spread(b, [error |-> Text("error")])
           Well3(a) == \A key \in DOMAIN a : Refers(a[key], base + 3)
           b == [username |-> Text("profile")]
           c == [reach |-> Text("figures")]
           Made(a) == Fills(<<a, b, c>>)
<1>1. \E a \in {insights, top, Failed(Nothing), Failed(profile), Failed(insights)} : made = Made(a)
  <2>1. ~Throws.ok
    BY DEF Throws
  <2> DEFINE brief == "includeMedia" \in DOMAIN call.inputs /\ call.inputs.includeMedia = No
             gathered == CASE call.connection # "token" -> {Nothing} [] brief -> {Nothing, profile}
                           [] OTHER -> {Nothing, profile, insights}
  <2>2. Instagram(call, base) =
          (IF call.connection = "token" THEN {Made(IF brief THEN insights ELSE top)} ELSE {})
          \cup (IF call.required THEN {Throws} ELSE {Made(Failed(a)) : a \in gathered})
    BY DEF Instagram
  <2>3. gathered \subseteq {Nothing, profile, insights}
    BY Zenon
  <2> HIDE DEF Made, gathered, insights, top, profile, brief, Failed
  <2> QED
    BY <2>1, <2>2, <2>3
<1>2. /\ Refers(Ref(base + 2), base + 3) /\ Refers(Ref(base + 3), base + 3)
      /\ \A word : Refers(Text(word), base + 3)
      /\ Refers(media, base + 3)
  <2>1. base + 3 \in Nat /\ base + 2 \in 1..(base + 3) /\ base + 3 \in 1..(base + 3)
    OBVIOUS
  <2> QED
    BY <2>1, RefersPlain, RefersTexts
<1> HIDE DEF media
<1>3. Well3(profile) /\ Well3(b) /\ Well3(c) /\ Well3(Nothing)
  BY <1>2 DEF Nothing
<1>4. Well3(insights)
  BY <1>2 DEF Spread
<1>5. Well3(top)
  <2> HIDE DEF insights
  <2> QED
    BY <1>2, <1>4 DEF Spread
<1>6. ASSUME NEW a, Well3(a) PROVE Well3(Failed(a))
  BY <1>2, <1>6 DEF Spread
<1>7. ASSUME NEW a, Well3(a) PROVE Answer(Made(a), base)
  <2> HIDE DEF b, c
  <2> QED
    BY <1>3, <1>7, AnswerOfThree
<1> HIDE DEF profile, insights, top, Failed, Well3, Made
<1> QED
  BY <1>1, <1>3, <1>4, <1>5, <1>6, <1>7

LEMMA AnswersRefer ==
  ASSUME NEW base \in Nat, NEW slug \in Providers, NEW call,
         NEW made \in Outcomes(slug, call, base), made.ok
  PROVE  Answer(made, base)
BY OutcomesOf, ScraperAnswers, BrowserAnswers, SemrushAnswers, StubAnswers, LogoAnswersSound,
   InstagramAnswers DEF Providers

-------------------------------------------------------------------------------
(***************************************************************************)
(* The first and the last of some places, and what they are for.           *)
(***************************************************************************)
LEMMA LeastOf ==
  ASSUME NEW m \in Nat, NEW I \in SUBSET (1..m), I # {}
  PROVE  Least(I) \in I /\ \A j \in I : Least(I) <= j
<1>1. /\ IsFiniteSet(I) /\ Cardinality(I) \in Nat
      /\ \A k \in 1..Cardinality(I) : Nth(I, k) \in I /\ Rank(I, Nth(I, k)) = k
  BY Ranked
<1>2. 1 \in 1..Cardinality(I)
  <2>1. Cardinality(I) # 0
    BY <1>1, FS_EmptySet
  <2> QED
    BY <1>1, <2>1
<1> DEFINE i == Nth(I, 1)
           below == {j \in I : j <= i}
<1>3. i \in I /\ Cardinality(below) = 1
  BY <1>1, <1>2 DEF Rank
<1>6. I \subseteq Nat
  OBVIOUS
<1>4. ASSUME NEW j \in I, j < i PROVE FALSE
  <2>1. IsFiniteSet(below) /\ {i, j} \subseteq below
    <3>1. IsFiniteSet(below)
      BY <1>1, FS_Subset
    <3>2. i \in I /\ i \in Nat /\ j \in Nat /\ j < i
      <4> HIDE DEF i, below
      <4> QED
        BY <1>3, <1>4, <1>6
    <3>3. i <= i /\ j <= i
      <4> HIDE DEF i
      <4> QED
        BY <3>2
    <3>4. i \in below /\ j \in below
      BY <3>2, <3>3
    <3> QED
      BY <3>1, <3>4
  <2>2. Cardinality({i, j}) = 2
    <3>1. i # j
      BY <1>3, <1>4
    <3> HIDE DEF i, below
    <3>2. Cardinality({i}) = 1 /\ IsFiniteSet({i}) /\ j \notin {i}
      BY <3>1, FS_Singleton
    <3>3. Cardinality({i} \cup {j}) = 2
      BY <3>2, FS_AddElement
    <3>4. {i} \cup {j} = {i, j}
      OBVIOUS
    <3> QED
      BY <3>3, <3>4
  <2> HIDE DEF below, i
  <2>3. Cardinality({i, j}) <= Cardinality(below)
    BY <2>1, FS_Subset
  <2> QED
    BY <1>3, <2>2, <2>3
<1>5. i \in I /\ \A j \in I : i <= j
  <2> HIDE DEF i, below
  <2> QED
    BY <1>3, <1>4
<1> HIDE DEF i
<1> QED
  BY <1>5 DEF Least

LEMMA MaxOf ==
  ASSUME NEW m \in Nat, NEW I \in SUBSET (1..m), I # {}
  PROVE  Greatest(I) \in I /\ \A j \in I : j <= Greatest(I)
<1> DEFINE n == Cardinality(I)
<1>1. /\ IsFiniteSet(I) /\ n \in Nat
      /\ \A k \in 1..n : Nth(I, k) \in I /\ Rank(I, Nth(I, k)) = k
  BY Ranked
<1>2. n \in 1..n
  <2>1. n # 0
    BY <1>1, FS_EmptySet
  <2> QED
    BY <1>1, <2>1
<1> DEFINE i == Nth(I, n)
           below == {j \in I : j <= i}
<1>3. i \in I /\ Cardinality(below) = Cardinality(I)
  BY <1>1, <1>2 DEF Rank
<1>4. below = I
  <2>1. below \subseteq I
    OBVIOUS
  <2> HIDE DEF below
  <2> QED
    BY <1>1, <1>3, <2>1, FS_Subset
<1>5. \A j \in I : j <= i
  BY <1>4
<1> HIDE DEF i
<1> QED
  BY <1>3, <1>5 DEF Greatest

\* Under each key is what the last of the objects with that key has there.
LEMMA AssignedIs ==
  ASSUME NEW m \in Nat, NEW s, DOMAIN s \subseteq 1..m
  PROVE  /\ DOMAIN Assigned(s) = UNION {DOMAIN s[i] : i \in DOMAIN s}
         /\ \A key \in DOMAIN Assigned(s) : \E i \in DOMAIN s :
              /\ key \in DOMAIN s[i] /\ Assigned(s)[key] = s[i][key]
              /\ \A j \in DOMAIN s : key \in DOMAIN s[j] => j <= i
<1> DEFINE given(key) == {i \in DOMAIN s : key \in DOMAIN s[i]}
           last(key) == Greatest(given(key))
<1>1. Assigned(s) = [key \in UNION {DOMAIN s[i] : i \in DOMAIN s} |-> s[last(key)][key]]
  BY DEF Assigned
<1>2. ASSUME NEW key \in UNION {DOMAIN s[i] : i \in DOMAIN s}
      PROVE  last(key) \in given(key) /\ \A j \in given(key) : j <= last(key)
  <2>1. given(key) # {} /\ given(key) \in SUBSET (1..m)
    OBVIOUS
  <2> HIDE DEF given
  <2> QED
    BY <2>1, MaxOf
<1> QED
  BY <1>1, <1>2

-------------------------------------------------------------------------------
(***************************************************************************)
(* What arrives at a node.                                                 *)
(***************************************************************************)
HeapInv ==
  /\ Well(heap)
  /\ DOMAIN design.objects \subseteq DOMAIN heap
  /\ DOMAIN outputs = Nodes
  /\ \A n \in Nodes : /\ \A port \in DOMAIN outputs[n] : Refers(outputs[n][port], Len(heap))
                      /\ ~Dealt(n, {"completed"}) => outputs[n] = Nothing

LEMMA ArrivedAre ==
  ASSUME Designed, IInv, NEW n
  PROVE  LET came == Arrivals(n)
         IN /\ Len(came) \in Nat /\ DOMAIN came = 1..Len(came)
            /\ \A k \in DOMAIN came :
                 LET w == came[k]
                 IN /\ \E i \in DOMAIN design.wires : w = design.wires[i]
                    /\ w.link \in Into(n) /\ w.link.target = n /\ w.link.source \in Nodes
                    /\ Carries(w) /\ w.from \in DOMAIN outputs[w.link.source]
                    /\ Value(w) # Undefined
<1> DEFINE I == {i \in DOMAIN design.wires :
                   design.wires[i].link.target = n /\ Carries(design.wires[i])}
<1>1. I \in SUBSET DOMAIN design.wires /\ Arrivals(n) = Chosen(design.wires, I)
  BY DEF Arrivals
<1>2. \A i \in I : design.wires[i].link.target = n /\ Carries(design.wires[i])
  OBVIOUS
<1> HIDE DEF I
<1>3. /\ Len(Arrivals(n)) \in Nat /\ DOMAIN Arrivals(n) = 1..Len(Arrivals(n))
      /\ \A k \in DOMAIN Arrivals(n) : \E i \in I : Arrivals(n)[k] = design.wires[i]
  BY <1>1, Wired, ChosenFrom
<1>4. ASSUME NEW k \in DOMAIN Arrivals(n)
      PROVE  LET w == Arrivals(n)[k]
             IN /\ \E i \in DOMAIN design.wires : w = design.wires[i]
                /\ w.link \in Into(n) /\ w.link.target = n /\ w.link.source \in Nodes
                /\ Carries(w) /\ w.from \in DOMAIN outputs[w.link.source]
                /\ Value(w) # Undefined
  <2>1. PICK i \in I : Arrivals(n)[k] = design.wires[i]
    BY <1>3
  <2> DEFINE w == design.wires[i]
  <2>2. i \in DOMAIN design.wires /\ w.link.target = n /\ Carries(w) /\ w.link \in graph.links
    BY <1>1, <1>2, <2>1, Wired
  <2>3. w.link \in Into(n) /\ w.link.source \in Nodes
    BY <2>2, FiniteInputs DEF IInv, Into
  <2>4. w.from \in DOMAIN outputs[w.link.source] /\ Value(w) # Undefined
    BY <2>2 DEF Carries, Key, Value
  <2> QED
    BY <2>1, <2>2, <2>3, <2>4
<1> QED
  BY <1>3, <1>4

LEMMA ValueRefers ==
  ASSUME Designed, IInv, HeapInv, NEW n, NEW k \in DOMAIN Arrivals(n)
  PROVE  Refers(Value(Arrivals(n)[k]), Len(heap))
<1> DEFINE w == Arrivals(n)[k]
<1>1. w.link.source \in Nodes /\ w.from \in DOMAIN outputs[w.link.source]
  BY ArrivedAre
<1> HIDE DEF w
<1>2. Refers(Value(w), Len(heap))
  BY <1>1 DEF HeapInv, Value
<1> QED
  BY <1>2 DEF w

LEMMA PortsAre ==
  ASSUME Designed, IInv, NEW n
  PROVE  /\ Len(Ports(n)) \in Nat /\ DOMAIN Ports(n) = 1..Len(Ports(n))
         /\ ToSet(Ports(n)) = {Arrivals(n)[k].link.port : k \in DOMAIN Arrivals(n)}
<1> DEFINE came == Arrivals(n)
           at == [i \in DOMAIN came |-> came[i].link.port]
           I == {i \in DOMAIN at : \A j \in 1..(i - 1) : at[j] # at[i]}
<1>1. Len(came) \in Nat /\ DOMAIN came = 1..Len(came)
  BY ArrivedAre
<1>2. Ports(n) = Chosen(at, I)
  BY DEF Ports
<1> HIDE DEF came
<1>3. DOMAIN at = 1..Len(came) /\ at = [i \in 1..Len(came) |-> at[i]]
  BY <1>1
<1>4. \A i \in DOMAIN came : at[i] = came[i].link.port
  OBVIOUS
<1> HIDE DEF at
<1>5. Len(at) = Len(came)
  BY <1>1, <1>3, MadeHeap
<1>6. I \in SUBSET DOMAIN at
  OBVIOUS
<1>7. ASSUME NEW k \in DOMAIN at PROVE \E i \in I : at[i] = at[k]
  <2> DEFINE J == {j \in DOMAIN at : at[j] = at[k]}
  <2>1. J \in SUBSET (1..Len(came)) /\ k \in J
    BY <1>3
  <2>2. Least(J) \in J /\ \A j \in J : Least(J) <= j
    <3> HIDE DEF J
    <3> QED
      BY <1>1, <2>1, LeastOf
  <2>3. PICK i : i = Least(J)
    OBVIOUS
  <2>4. i \in DOMAIN at /\ at[i] = at[k] /\ i \in 1..Len(came)
    BY <1>3, <2>2, <2>3
  <2>5. ASSUME NEW j \in 1..(i - 1), at[j] = at[i] PROVE FALSE
    <3>1. j \in DOMAIN at /\ j < i
      BY <1>1, <1>3, <2>4
    <3>2. j \in J
      BY <2>4, <2>5, <3>1
    <3> HIDE DEF J
    <3> QED
      BY <1>1, <2>2, <2>3, <2>4, <3>1, <3>2
  <2>6. i \in I
    BY <2>4, <2>5
  <2> QED
    BY <2>4, <2>6
<1> HIDE DEF I
<1>8. /\ DOMAIN Chosen(at, I) = 1..Cardinality(I) /\ Cardinality(I) \in Nat
      /\ Len(Chosen(at, I)) = Cardinality(I)
      /\ \A k \in DOMAIN Chosen(at, I) : \E i \in I : Chosen(at, I)[k] = at[i]
      /\ \A i \in I : \E k \in DOMAIN Chosen(at, I) : Chosen(at, I)[k] = at[i]
  BY <1>1, <1>3, <1>5, <1>6, ChosenFrom
<1>9. ToSet(Ports(n)) = {at[i] : i \in DOMAIN at}
  BY <1>2, <1>6, <1>7, <1>8 DEF ToSet
<1>10. {at[i] : i \in DOMAIN at} = {came[k].link.port : k \in DOMAIN came}
  BY <1>1, <1>3, <1>4
<1> QED
  BY <1>2, <1>8, <1>9, <1>10 DEF came

LEMMA ValuesAtAre ==
  ASSUME Designed, IInv, NEW n, NEW port
  PROVE  LET values == ValuesAt(n, port)
             came == Arrivals(n)
         IN /\ Len(values) \in Nat /\ DOMAIN values = 1..Len(values)
            /\ \A i \in DOMAIN values : \E k \in DOMAIN came :
                 came[k].link.port = port /\ values[i] = Value(came[k])
            /\ \A k \in DOMAIN came : came[k].link.port = port =>
                 \E i \in DOMAIN values : values[i] = Value(came[k])
<1> DEFINE came == Arrivals(n)
           I == {i \in DOMAIN came : came[i].link.port = port}
           here == Chosen(came, I)
           values == [i \in DOMAIN here |-> Value(here[i])]
<1>1. Len(came) \in Nat /\ DOMAIN came = 1..Len(came)
  BY ArrivedAre
<1>2. ValuesAt(n, port) = values
  BY DEF ValuesAt, Values
<1> HIDE DEF came
<1>3. I \in SUBSET DOMAIN came /\ \A i \in DOMAIN came : i \in I <=> came[i].link.port = port
  OBVIOUS
<1> HIDE DEF I
<1>4. /\ DOMAIN here = 1..Cardinality(I) /\ Cardinality(I) \in Nat
      /\ Len(here) = Cardinality(I)
      /\ \A k \in DOMAIN here : \E i \in I : here[k] = came[i]
      /\ \A i \in I : \E k \in DOMAIN here : here[k] = came[i]
  BY <1>1, <1>3, ChosenFrom
<1> HIDE DEF here
<1>5. DOMAIN values = 1..Cardinality(I) /\ values = [i \in 1..Cardinality(I) |-> values[i]]
  BY <1>4
<1>6. \A i \in DOMAIN here : values[i] = Value(here[i])
  OBVIOUS
<1> HIDE DEF values
<1>7. Len(values) = Cardinality(I)
  BY <1>4, <1>5, MadeHeap
<1>8. \A i \in DOMAIN values : \E k \in DOMAIN came :
        came[k].link.port = port /\ values[i] = Value(came[k])
  BY <1>3, <1>4, <1>5, <1>6
<1>9. \A k \in DOMAIN came : came[k].link.port = port =>
        \E i \in DOMAIN values : values[i] = Value(came[k])
  BY <1>3, <1>4, <1>5, <1>6
<1> QED
  BY <1>2, <1>4, <1>5, <1>7, <1>8, <1>9 DEF came

\* At a port that has values there is a first one.
LEMMA FirstAt ==
  ASSUME Designed, IInv, NEW n, NEW port \in ToSet(Ports(n))
  PROVE  /\ 1 \in DOMAIN ValuesAt(n, port)
         /\ \E k \in DOMAIN Arrivals(n) : ValuesAt(n, port)[1] = Value(Arrivals(n)[k])
<1>1. PICK k \in DOMAIN Arrivals(n) : Arrivals(n)[k].link.port = port
  BY PortsAre
<1>2. /\ Len(ValuesAt(n, port)) \in Nat /\ DOMAIN ValuesAt(n, port) = 1..Len(ValuesAt(n, port))
      /\ \A i \in DOMAIN ValuesAt(n, port) : \E j \in DOMAIN Arrivals(n) :
           Arrivals(n)[j].link.port = port /\ ValuesAt(n, port)[i] = Value(Arrivals(n)[j])
      /\ \E i \in DOMAIN ValuesAt(n, port) : ValuesAt(n, port)[i] = Value(Arrivals(n)[k])
  BY <1>1, ValuesAtAre
<1>3. 1 \in DOMAIN ValuesAt(n, port)
  BY <1>2
<1> QED
  BY <1>2, <1>3

-------------------------------------------------------------------------------
(***************************************************************************)
(* mergeIncomingGeneric, part by part: the values at the i-th port, the    *)
(* objects among them, and what the port gives to the object.              *)
(***************************************************************************)
PortValues(n) == [i \in DOMAIN Ports(n) |-> ValuesAt(n, Ports(n)[i])]

PortObjects(n, i) ==
  [j \in {k \in DOMAIN PortValues(n)[i] : PortValues(n)[i][k].is = "object"} |->
     heap[PortValues(n)[i][j].at]]

PlainPorts(n) == {i \in DOMAIN Ports(n) : DOMAIN PortObjects(n, i) = DOMAIN PortValues(n)[i]}

SinglePorts(n) == {i \in DOMAIN Ports(n) : Len(PortValues(n)[i]) = 1}

JoinedPorts(n) == PlainPorts(n) \ SinglePorts(n)

Under(n, i, value) == [port \in {Ports(n)[i]} |-> value]

PortPart(n, i) ==
  CASE i \in PlainPorts(n) \cap SinglePorts(n) -> PortObjects(n, i)[1]
    [] i \in PlainPorts(n) \ SinglePorts(n) ->
         Under(n, i, Ref(Len(heap) + Rank(JoinedPorts(n), i)))
    [] i \in SinglePorts(n) \ PlainPorts(n) -> Under(n, i, PortValues(n)[i][1])
    [] i \notin PlainPorts(n) \cup SinglePorts(n) -> Under(n, i, List(PortValues(n)[i]))

PortParts(n) == [i \in DOMAIN Ports(n) |-> PortPart(n, i)]

JoinedObjects(n) == [i \in DOMAIN Ports(n) |-> Assigned(PortObjects(n, i))]

LEMMA MergedParts ==
  ASSUME NEW n
  PROVE  Merged(n) = [heap |-> heap \o Chosen(JoinedObjects(n), JoinedPorts(n)),
                      object |-> Assigned(PortParts(n))]
BY DEF Merged, MergedAt, PortValues, PortObjects, PlainPorts, SinglePorts, JoinedPorts, Under,
       PortPart, PortParts, JoinedObjects

\* What is at the i-th port.
PortSound(n, i) ==
  /\ PortValues(n)[i] = ValuesAt(n, Ports(n)[i])
  /\ Len(PortValues(n)[i]) \in Nat /\ DOMAIN PortValues(n)[i] = 1..Len(PortValues(n)[i])
  /\ 1 \in DOMAIN PortValues(n)[i]
  /\ \A j \in DOMAIN PortValues(n)[i] : Refers(PortValues(n)[i][j], Len(heap))
  /\ DOMAIN PortObjects(n, i) = {j \in DOMAIN PortValues(n)[i] : PortValues(n)[i][j].is = "object"}
  /\ \A j \in DOMAIN PortObjects(n, i) : PortValues(n)[i][j].at \in DOMAIN heap
  /\ \A j \in DOMAIN PortObjects(n, i) : PortObjects(n, i)[j] = heap[PortValues(n)[i][j].at]

LEMMA PortFacts ==
  ASSUME Designed, IInv, HeapInv, NEW n, NEW i \in DOMAIN Ports(n)
  PROVE  PortSound(n, i)
<1> DEFINE values == PortValues(n)[i]
<1>1. values = ValuesAt(n, Ports(n)[i])
  BY DEF PortValues
<1>2. Ports(n)[i] \in ToSet(Ports(n))
  BY DEF ToSet
<1> HIDE DEF values
<1>3. Len(values) \in Nat /\ DOMAIN values = 1..Len(values) /\ 1 \in DOMAIN values
  BY <1>1, <1>2, ValuesAtAre, FirstAt
<1>4. \A j \in DOMAIN values : Refers(values[j], Len(heap))
  <2> SUFFICES ASSUME NEW j \in DOMAIN values PROVE Refers(values[j], Len(heap))
    OBVIOUS
  <2>1. PICK k \in DOMAIN Arrivals(n) : values[j] = Value(Arrivals(n)[k])
    BY <1>1, ValuesAtAre
  <2> QED
    BY <2>1, ValueRefers
<1>5. /\ DOMAIN PortObjects(n, i) = {j \in DOMAIN values : values[j].is = "object"}
      /\ \A j \in DOMAIN PortObjects(n, i) : PortObjects(n, i)[j] = heap[values[j].at]
  BY DEF PortObjects, values
<1>6. Len(heap) \in Nat /\ DOMAIN heap = 1..Len(heap)
  BY HeapSize DEF HeapInv, Well
<1>7. \A j \in DOMAIN PortObjects(n, i) : values[j].at \in DOMAIN heap
  BY <1>4, <1>5, <1>6 DEF Refers
<1> QED
  BY <1>1, <1>3, <1>4, <1>5, <1>7 DEF PortSound, values

LEMMA MergedSound ==
  ASSUME Designed, IInv, HeapInv, NEW n
  PROVE  LET in == Merged(n)
         IN /\ Well(in.heap) /\ Len(in.heap) \in Nat /\ Len(in.heap) >= Len(heap)
            /\ in.heap = heap \o Chosen(JoinedObjects(n), JoinedPorts(n))
            /\ Len(in.heap) = Len(heap) + Cardinality(JoinedPorts(n))
            /\ \A i \in DOMAIN heap : i \in DOMAIN in.heap /\ in.heap[i] = heap[i]
            /\ \A key \in DOMAIN in.object : Refers(in.object[key], Len(in.heap))
<1> DEFINE joined == Chosen(JoinedObjects(n), JoinedPorts(n))
           new == heap \o joined
           size == Cardinality(JoinedPorts(n))
<1>1. Merged(n).heap = new /\ Merged(n).object = Assigned(PortParts(n))
  BY MergedParts
<1>2. Len(heap) \in Nat /\ DOMAIN heap = 1..Len(heap) /\ IsHeap(heap) /\ Sounds(heap, Len(heap))
  BY HeapSize DEF HeapInv, Well
<1>3. Len(Ports(n)) \in Nat /\ DOMAIN Ports(n) = 1..Len(Ports(n))
  BY PortsAre
<1>4. /\ DOMAIN JoinedObjects(n) = 1..Len(Ports(n))
      /\ JoinedObjects(n) = [i \in 1..Len(Ports(n)) |-> JoinedObjects(n)[i]]
      /\ \A i \in DOMAIN Ports(n) : JoinedObjects(n)[i] = Assigned(PortObjects(n, i))
      /\ JoinedPorts(n) \in SUBSET DOMAIN Ports(n)
  BY <1>3 DEF JoinedObjects, JoinedPorts, PlainPorts
<1>5. Len(JoinedObjects(n)) = Len(Ports(n))
  BY <1>3, <1>4, MadeHeap
<1>6. /\ DOMAIN joined = 1..size /\ size \in Nat /\ Len(joined) = size
      /\ \A k \in DOMAIN joined : \E i \in JoinedPorts(n) : joined[k] = JoinedObjects(n)[i]
  <2>1. Len(JoinedObjects(n)) \in Nat /\ DOMAIN JoinedObjects(n) = 1..Len(JoinedObjects(n))
    BY <1>3, <1>4, <1>5
  <2>2. JoinedPorts(n) \in SUBSET DOMAIN JoinedObjects(n)
    BY <1>3, <1>4
  <2> QED
    BY <2>1, <2>2, ChosenFrom DEF joined, size
<1>7. joined = [k \in 1..size |-> joined[k]]
  BY <1>6 DEF Chosen
<1> HIDE DEF joined, size
<1>8. IsHeap(joined)
  BY <1>6, <1>7, MadeHeap
<1>9. ASSUME NEW i \in DOMAIN Ports(n), NEW key \in DOMAIN Assigned(PortObjects(n, i))
      PROVE  Refers(Assigned(PortObjects(n, i))[key], Len(heap))
  <2>0. /\ PortValues(n)[i] = ValuesAt(n, Ports(n)[i])
        /\ Len(PortValues(n)[i]) \in Nat /\ DOMAIN PortValues(n)[i] = 1..Len(PortValues(n)[i])
        /\ 1 \in DOMAIN PortValues(n)[i]
        /\ \A j \in DOMAIN PortValues(n)[i] : Refers(PortValues(n)[i][j], Len(heap))
        /\ DOMAIN PortObjects(n, i) = {j \in DOMAIN PortValues(n)[i] : PortValues(n)[i][j].is = "object"}
        /\ \A j \in DOMAIN PortObjects(n, i) : PortValues(n)[i][j].at \in DOMAIN heap
        /\ \A j \in DOMAIN PortObjects(n, i) : PortObjects(n, i)[j] = heap[PortValues(n)[i][j].at]
    <3>1. PortSound(n, i)
      BY PortFacts
    <3> QED
      BY <3>1 DEF PortSound
  <2> DEFINE objects == PortObjects(n, i)
             m == Len(PortValues(n)[i])
  <2>1. m \in Nat /\ DOMAIN objects \subseteq 1..m
    BY <2>0
  <2>2. \A j \in DOMAIN objects : \E a \in DOMAIN heap : objects[j] = heap[a]
    BY <2>0
  <2>3. key \in DOMAIN Assigned(objects)
    BY <1>9
  <2> HIDE DEF objects, m
  <2>4. \A k \in DOMAIN Assigned(objects) : \E j \in DOMAIN objects :
          /\ k \in DOMAIN objects[j] /\ Assigned(objects)[k] = objects[j][k]
          /\ \A l \in DOMAIN objects : k \in DOMAIN objects[l] => l <= j
    BY <2>1, AssignedIs
  <2>5. PICK j \in DOMAIN objects : key \in DOMAIN objects[j] /\ Assigned(objects)[key] = objects[j][key]
    BY <2>3, <2>4
  <2>6. PICK a \in DOMAIN heap : objects[j] = heap[a]
    BY <2>2
  <2>7. Refers(heap[a][key], Len(heap))
    BY <1>2, <2>5, <2>6 DEF Sounds
  <2> QED
    BY <2>5, <2>6, <2>7 DEF objects
<1>10. Sounds(joined, Len(heap))
  <2> SUFFICES ASSUME NEW k \in DOMAIN joined, NEW key \in DOMAIN joined[k]
               PROVE  Refers(joined[k][key], Len(heap))
    BY DEF Sounds
  <2>1. PICK i \in DOMAIN Ports(n) : joined[k] = Assigned(PortObjects(n, i))
    BY <1>4, <1>6
  <2> QED
    BY <1>9, <2>1
<1>11. /\ IsHeap(new) /\ Len(new) = Len(heap) + size /\ DOMAIN new = 1..(Len(heap) + size)
       /\ \A i \in DOMAIN heap : i \in DOMAIN new /\ new[i] = heap[i]
       /\ \A i \in DOMAIN new \ DOMAIN heap : i - Len(heap) \in DOMAIN joined /\ new[i] = joined[i - Len(heap)]
  BY <1>2, <1>6, <1>8, HeapJoin
<1> HIDE DEF new
<1>12. Sounds(new, Len(new))
  <2>1. Sounds(new, Len(heap))
    <3> SUFFICES ASSUME NEW i \in DOMAIN new, NEW key \in DOMAIN new[i] PROVE Refers(new[i][key], Len(heap))
      BY DEF Sounds
    <3>1. CASE i \in DOMAIN heap
      BY <1>2, <1>11, <3>1 DEF Sounds
    <3>2. CASE i \notin DOMAIN heap
      BY <1>10, <1>11, <3>2 DEF Sounds
    <3> QED
      BY <3>1, <3>2
  <2>2. Len(new) \in Nat /\ Len(heap) <= Len(new)
    BY <1>2, <1>6, <1>11
  <2> QED
    BY <1>2, <2>1, <2>2, SoundsMore
<1>13. Len(new) \in Nat /\ Len(new) >= Len(heap)
  BY <1>2, <1>6, <1>11
<1>14. ASSUME NEW i \in DOMAIN Ports(n), NEW key \in DOMAIN PortPart(n, i)
       PROVE  Refers(PortPart(n, i)[key], Len(new))
  <2>0. /\ PortValues(n)[i] = ValuesAt(n, Ports(n)[i])
        /\ Len(PortValues(n)[i]) \in Nat /\ DOMAIN PortValues(n)[i] = 1..Len(PortValues(n)[i])
        /\ 1 \in DOMAIN PortValues(n)[i]
        /\ \A j \in DOMAIN PortValues(n)[i] : Refers(PortValues(n)[i][j], Len(heap))
        /\ DOMAIN PortObjects(n, i) = {j \in DOMAIN PortValues(n)[i] : PortValues(n)[i][j].is = "object"}
        /\ \A j \in DOMAIN PortObjects(n, i) : PortValues(n)[i][j].at \in DOMAIN heap
        /\ \A j \in DOMAIN PortObjects(n, i) : PortObjects(n, i)[j] = heap[PortValues(n)[i][j].at]
    <3>1. PortSound(n, i)
      BY PortFacts
    <3> QED
      BY <3>1 DEF PortSound
  <2> DEFINE values == PortValues(n)[i]
  <2>1. /\ Len(values) \in Nat /\ DOMAIN values = 1..Len(values) /\ 1 \in DOMAIN values
        /\ \A j \in DOMAIN values : Refers(values[j], Len(heap))
        /\ DOMAIN PortObjects(n, i) = {j \in DOMAIN values : values[j].is = "object"}
        /\ \A j \in DOMAIN PortObjects(n, i) : values[j].at \in DOMAIN heap
        /\ \A j \in DOMAIN PortObjects(n, i) : PortObjects(n, i)[j] = heap[values[j].at]
    BY <2>0
  <2>2. \A value : Refers(value, Len(heap)) => Refers(value, Len(new))
    BY <1>2, <1>13, RefersMore
  <2> HIDE DEF values
  <2>3. CASE i \in PlainPorts(n) \cap SinglePorts(n)
    <3>1. PortPart(n, i) = PortObjects(n, i)[1]
      BY <2>3 DEF PortPart
    <3>2. 1 \in DOMAIN PortObjects(n, i)
      BY <2>1, <2>3 DEF PlainPorts, values
    <3>3. \E a \in DOMAIN heap : PortPart(n, i) = heap[a]
      BY <2>1, <3>1, <3>2
    <3> QED
      BY <1>2, <1>14, <2>2, <3>3 DEF Sounds
  <2>4. CASE i \in PlainPorts(n) \ SinglePorts(n)
    <3>1. PortPart(n, i) = Under(n, i, Ref(Len(heap) + Rank(JoinedPorts(n), i)))
      BY <2>4 DEF PortPart
    <3>2. i \in JoinedPorts(n)
      BY <2>4 DEF JoinedPorts
    <3>3. Rank(JoinedPorts(n), i) \in 1..size
      <4>1. \E k \in 1..size : Nth(JoinedPorts(n), k) = i
        BY <1>3, <1>4, <3>2, Ranked DEF size
      <4>2. \A k \in 1..size : Rank(JoinedPorts(n), Nth(JoinedPorts(n), k)) = k
        BY <1>3, <1>4, <3>2, Ranked DEF size
      <4> QED
        BY <4>1, <4>2
    <3>4. Len(heap) + Rank(JoinedPorts(n), i) \in 1..Len(new)
      BY <1>2, <1>6, <1>11, <3>3
    <3>5. Refers(Ref(Len(heap) + Rank(JoinedPorts(n), i)), Len(new))
      BY <1>13, <3>4, RefersPlain
    <3> QED
      BY <1>14, <3>1, <3>5 DEF Under
  <2>5. CASE i \in SinglePorts(n) \ PlainPorts(n)
    <3>1. PortPart(n, i) = Under(n, i, values[1])
      BY <2>5 DEF PortPart, values
    <3> QED
      BY <1>14, <2>1, <2>2, <3>1 DEF Under
  <2>6. CASE i \notin PlainPorts(n) \cup SinglePorts(n)
    <3>1. PortPart(n, i) = Under(n, i, List(values))
      BY <2>6 DEF PortPart, values
    <3>2. \A j \in DOMAIN values : values[j].is = "object" => values[j].at \in 1..Len(heap)
      BY <2>1 DEF Refers
    <3>3. Refers(List(values), Len(heap))
      BY <1>2, <3>2, RefersList
    <3> QED
      BY <1>14, <2>2, <3>1, <3>3 DEF Under
  <2> QED
    BY <2>3, <2>4, <2>5, <2>6
<1>15. ASSUME NEW key \in DOMAIN Assigned(PortParts(n)) PROVE Refers(Assigned(PortParts(n))[key], Len(new))
  <2>1. DOMAIN PortParts(n) = 1..Len(Ports(n)) /\ \A i \in DOMAIN Ports(n) : PortParts(n)[i] = PortPart(n, i)
    BY <1>3 DEF PortParts
  <2> DEFINE parts == PortParts(n)
             m == Len(Ports(n))
  <2>2. m \in Nat /\ DOMAIN parts \subseteq 1..m
    BY <1>3, <2>1
  <2> HIDE DEF parts, m
  <2>3. \A k \in DOMAIN Assigned(parts) : \E j \in DOMAIN parts :
          /\ k \in DOMAIN parts[j] /\ Assigned(parts)[k] = parts[j][k]
          /\ \A l \in DOMAIN parts : k \in DOMAIN parts[l] => l <= j
    BY <2>2, AssignedIs
  <2>4. PICK i \in DOMAIN PortParts(n) :
          key \in DOMAIN PortParts(n)[i] /\ Assigned(PortParts(n))[key] = PortParts(n)[i][key]
    BY <1>15, <2>3 DEF parts
  <2>5. i \in DOMAIN Ports(n) /\ PortParts(n)[i] = PortPart(n, i)
    BY <1>3, <2>1, <2>4
  <2> QED
    BY <1>14, <2>4, <2>5
<1>16. Well(new)
  BY <1>11, <1>12 DEF Well
<1> QED
  BY <1>1, <1>11, <1>13, <1>15, <1>16 DEF new, joined, size

-------------------------------------------------------------------------------
(***************************************************************************)
(* What the executors do to the heap: old objects stay where they are, and *)
(* references in the new ones, and in the node's outputs, lead to objects. *)
(***************************************************************************)
Referring(object, n) == \A key \in DOMAIN object : Refers(object[key], n)

Grown(h, new) ==
  /\ Well(new) /\ Len(h) \in Nat /\ Len(new) \in Nat /\ Len(h) <= Len(new)
  /\ \A i \in DOMAIN h : i \in DOMAIN new /\ new[i] = h[i]

LEMMA WellGrown ==
  ASSUME NEW h, Well(h)
  PROVE  Grown(h, h)
BY HeapSize DEF Grown, Well

LEMMA ReferringMore ==
  ASSUME NEW m \in Nat, NEW n \in Nat, m <= n, NEW object, Referring(object, m)
  PROVE  Referring(object, n)
BY RefersMore DEF Referring

LEMMA WellJoin ==
  ASSUME NEW h, Well(h), NEW t, IsHeap(t), Sounds(t, Len(h) + Len(t))
  PROVE  /\ Grown(h, h \o t) /\ Len(h \o t) = Len(h) + Len(t)
         /\ \A i \in DOMAIN t : Len(h) + i \in DOMAIN (h \o t) /\ (h \o t)[Len(h) + i] = t[i]
<1> DEFINE new == h \o t
<1>1. /\ Len(h) \in Nat /\ DOMAIN h = 1..Len(h) /\ IsHeap(h) /\ Sounds(h, Len(h))
      /\ Len(t) \in Nat /\ DOMAIN t = 1..Len(t)
  BY HeapSize DEF Well
<1>2. /\ IsHeap(new) /\ Len(new) = Len(h) + Len(t) /\ DOMAIN new = 1..(Len(h) + Len(t))
      /\ \A i \in DOMAIN h : i \in DOMAIN new /\ new[i] = h[i]
      /\ \A i \in DOMAIN t : Len(h) + i \in DOMAIN new /\ new[Len(h) + i] = t[i]
      /\ \A i \in DOMAIN new \ DOMAIN h : i - Len(h) \in DOMAIN t /\ new[i] = t[i - Len(h)]
  BY <1>1, HeapJoin
<1> HIDE DEF new
<1>3. Len(new) \in Nat /\ Len(h) <= Len(new)
  BY <1>1, <1>2
<1>4. Sounds(h, Len(new)) /\ Sounds(t, Len(new))
  BY <1>1, <1>2, <1>3, SoundsMore
<1>5. Sounds(new, Len(new))
  <2> SUFFICES ASSUME NEW i \in DOMAIN new, NEW key \in DOMAIN new[i] PROVE Refers(new[i][key], Len(new))
    BY DEF Sounds
  <2>1. CASE i \in DOMAIN h
    BY <1>2, <1>4, <2>1 DEF Sounds
  <2>2. CASE i \notin DOMAIN h
    BY <1>2, <1>4, <2>2 DEF Sounds
  <2> QED
    BY <2>1, <2>2
<1> QED
  BY <1>1, <1>2, <1>3, <1>5 DEF Grown, Well, new

LEMMA WellAppend ==
  ASSUME NEW h, Well(h), NEW object, Referring(object, Len(h) + 1)
  PROVE  /\ Grown(h, Append(h, object)) /\ Len(Append(h, object)) = Len(h) + 1
         /\ Append(h, object)[Len(h) + 1] = object /\ Len(h) + 1 \in DOMAIN Append(h, object)
<1> DEFINE new == Append(h, object)
<1>1. Len(h) \in Nat /\ DOMAIN h = 1..Len(h) /\ IsHeap(h) /\ Sounds(h, Len(h))
  BY HeapSize DEF Well
<1>2. /\ IsHeap(new) /\ Len(new) = Len(h) + 1 /\ DOMAIN new = 1..(Len(h) + 1)
      /\ \A i \in DOMAIN h : i \in DOMAIN new /\ new[i] = h[i]
      /\ new[Len(h) + 1] = object
  BY <1>1, HeapAppend
<1> HIDE DEF new
<1>3. Len(new) \in Nat /\ Len(h) <= Len(new)
  BY <1>1, <1>2
<1>4. Sounds(h, Len(new))
  BY <1>1, <1>3, SoundsMore
<1>5. Sounds(new, Len(new))
  <2> SUFFICES ASSUME NEW i \in DOMAIN new, NEW key \in DOMAIN new[i] PROVE Refers(new[i][key], Len(new))
    BY DEF Sounds
  <2>1. CASE i \in DOMAIN h
    BY <1>2, <1>4, <2>1 DEF Sounds
  <2>2. CASE i \notin DOMAIN h
    <3>1. i = Len(h) + 1
      BY <1>1, <1>2, <2>2
    <3> QED
      BY <1>2, <3>1 DEF Referring
  <2> QED
    BY <2>1, <2>2
<1> QED
  BY <1>1, <1>2, <1>3, <1>5 DEF Grown, Well, new

LEMMA GrownMore ==
  ASSUME NEW h, NEW mid, NEW new, Grown(h, mid), Grown(mid, new)
  PROVE  Grown(h, new)
BY DEF Grown

LEMMA MergedGrown ==
  ASSUME Designed, IInv, HeapInv, NEW n
  PROVE  /\ Grown(heap, Merged(n).heap)
         /\ Referring(Merged(n).object, Len(Merged(n).heap))
BY MergedSound, HeapSize DEF Grown, Referring, HeapInv, Well

LEMMA KeyedRefer ==
  ASSUME Designed, IInv, HeapInv, NEW n
  PROVE  Referring(KeyedInputs(n), Len(heap))
<1> SUFFICES ASSUME NEW port \in ToSet(Ports(n)) PROVE Refers(ValuesAt(n, port)[1], Len(heap))
  BY DEF KeyedInputs, Referring
<1>1. 1 \in DOMAIN ValuesAt(n, port)
  BY FirstAt
<1>2. PICK k \in DOMAIN Arrivals(n) : ValuesAt(n, port)[1] = Value(Arrivals(n)[k])
  BY <1>1, ValuesAtAre
<1> QED
  BY <1>2, ValueRefers

\* What an executor other than a mapper's makes of its node.
Made(n) ==
  \/ Fails(n)
  \/ \E new, ports : Completes(n, new, ports) /\ Grown(heap, new) /\ Referring(ports, Len(new))

LEMMA SinglePort ==
  ASSUME NEW value, NEW n, Refers(value, n)
  PROVE  /\ Referring([value |-> value], n) /\ Referring([out |-> value], n)
         /\ Referring([schema |-> value], n) /\ Referring([result |-> value], n)
         /\ Referring([data |-> value], n) /\ Referring([passthrough |-> value], n)
BY DEF Referring

LEMMA NewRefers ==
  ASSUME NEW h, Len(h) \in Nat, NEW new, Len(new) = Len(h) + 1
  PROVE  Refers(Ref(Len(h) + 1), Len(new))
<1>1. Len(h) + 1 \in Nat /\ Len(h) + 1 \in 1..(Len(h) + 1)
  OBVIOUS
<1> QED
  BY <1>1, RefersPlain

\* The parameters of the analysis refer to the objects that came with them.
LEMMA ParametersGiven ==
  ASSUME Designed
  PROVE  /\ \A key \in DOMAIN design.inputs : Parameter(design.inputs[key], Len(design.objects))
         /\ \A i \in DOMAIN design.objects : \A key \in DOMAIN design.objects[i] :
              Parameter(design.objects[i][key], Len(design.objects))
         /\ DOMAIN design.objects = 1..Len(design.objects) /\ IsHeap(design.objects)
<1>1. /\ design.objects \in Seq(ToSet(design.objects))
      /\ \A object \in {design.inputs} \cup ToSet(design.objects) : \A key \in DOMAIN object :
           Parameter(object[key], Len(design.objects))
  BY DesignAssumption DEF Designed, Configured
<1>2. \A i \in DOMAIN design.objects : design.objects[i] \in ToSet(design.objects)
  BY DEF ToSet
<1> QED
  BY <1>1, <1>2, SequenceIsHeap, HeapSize

LEMMA InputMade ==
  ASSUME Designed, HeapInv, NEW n, ExecuteInput(n)
  PROVE  Made(n)
<1>1. Well(heap) /\ Len(heap) \in Nat /\ Grown(heap, heap)
  BY HeapSize, WellGrown DEF HeapInv, Well
<1>2. \A m \in Nat : Len(heap) <= m =>
        \A key \in DOMAIN design.inputs : Refers(design.inputs[key], m)
  <2>1. /\ \A key \in DOMAIN design.inputs : Parameter(design.inputs[key], Len(design.objects))
        /\ DOMAIN design.objects = 1..Len(design.objects)
    BY ParametersGiven
  <2>2. 1..Len(design.objects) \subseteq 1..Len(heap)
    BY <1>1, <2>1, HeapSize DEF HeapInv, Well
  <2> QED
    BY <1>1, <2>1, <2>2 DEF Parameter, Refers
<1>3. CASE Config(n).inputKey = "none"
  <2> DEFINE new == Append(heap, design.inputs)
  <2>1. Completes(n, new, [value |-> Ref(Len(heap) + 1)])
    BY <1>3 DEF ExecuteInput
  <2>2. Referring(design.inputs, Len(heap) + 1)
    BY <1>1, <1>2 DEF Referring
  <2>3. Grown(heap, new) /\ Len(new) = Len(heap) + 1
    BY <1>1, <2>2, WellAppend
  <2> HIDE DEF new
  <2>4. Referring([value |-> Ref(Len(heap) + 1)], Len(new))
    BY <1>1, <2>3, NewRefers, SinglePort
  <2> QED
    BY <2>1, <2>3, <2>4 DEF Made
<1>4. CASE Config(n).inputKey # "none"
  <2> DEFINE value == Key(design.inputs, Config(n).inputKey)
  <2>1. Completes(n, heap, [value |-> value])
    BY <1>4 DEF ExecuteInput
  <2>2. Refers(value, Len(heap))
    BY <1>1, <1>2, RefersPlain DEF Key
  <2> HIDE DEF value
  <2>3. Referring([value |-> value], Len(heap))
    BY <2>2, SinglePort
  <2> QED
    BY <1>1, <2>1, <2>3 DEF Made
<1> QED
  BY <1>3, <1>4

LEMMA SourceMade ==
  ASSUME HeapInv, NEW n, ExecuteSource(n)
  PROVE  Made(n)
<1>1. Well(heap) /\ Len(heap) \in Nat
  BY HeapSize DEF HeapInv, Well
<1>2. CASE Fails(n)
  BY <1>2 DEF Made
<1>3. CASE ~Fails(n)
  <2>1. PICK made \in SourceOutcomes(n) :
          made.ok /\ Completes(n, heap \o made.objects, Bucket(Len(heap), made.objects[1]))
    BY <1>3 DEF ExecuteSource
  <2>2. PICK slug \in Providers : made \in Outcomes(slug, Call(n, slug), Len(heap))
    BY KnownSlugs DEF SourceOutcomes
  <2>3. Answer(made, Len(heap))
    BY <1>1, <2>1, <2>2, AnswersRefer
  <2>4. PICK t : t = made.objects
    OBVIOUS
  <2>5. IsHeap(t) /\ Len(t) >= 1 /\ Sounds(t, Len(heap) + Len(t)) /\ 1 \in DOMAIN t
    BY <2>3, <2>4, HeapSize DEF Answer
  <2> DEFINE new == heap \o t
             ports == Bucket(Len(heap), t[1])
  <2>6. Grown(heap, new) /\ Len(new) = Len(heap) + Len(t)
    BY <1>1, <2>5, WellJoin
  <2>7. Len(new) \in Nat /\ Len(heap) + 1 \in 1..Len(new)
    BY <1>1, <2>5, <2>6, HeapSize
  <2> HIDE DEF new
  <2>8. Refers(Ref(Len(heap) + 1), Len(new))
    BY <2>7, RefersPlain
  <2>9. \A key \in DOMAIN t[1] : Refers(t[1][key], Len(new))
    BY <2>5, <2>6 DEF Sounds
  <2>10. Referring(ports, Len(new))
    BY <2>8, <2>9 DEF Referring, Bucket, With, Spread
  <2> QED
    BY <2>1, <2>4, <2>6, <2>10 DEF Made, new
<1> QED
  BY <1>2, <1>3

LEMMA MergerMade ==
  ASSUME Designed, IInv, HeapInv, NEW n, ExecuteMerger(n)
  PROVE  Made(n)
<1> DEFINE items == Values(Arrivals(n))
<1>1. Well(heap) /\ Len(heap) \in Nat /\ Grown(heap, heap)
  BY HeapSize, WellGrown DEF HeapInv, Well
<1>2. \A i \in DOMAIN items : Refers(items[i], Len(heap))
  BY ValueRefers DEF Values
<1>3. Completes(n, heap, [out |-> List(items)])
  BY DEF ExecuteMerger
<1> HIDE DEF items
<1>4. \A i \in DOMAIN items : items[i].is = "object" => items[i].at \in 1..Len(heap)
  BY <1>2 DEF Refers
<1>5. Refers(List(items), Len(heap))
  BY <1>1, <1>4, RefersList
<1>6. Referring([out |-> List(items)], Len(heap))
  BY <1>5, SinglePort
<1> QED
  BY <1>1, <1>3, <1>6 DEF Made

LEMMA SchemaMade ==
  ASSUME Designed, IInv, HeapInv, NEW n \in Nodes, ExecuteSchema(n)
  PROVE  Made(n)
<1> DEFINE h == Merged(n).heap
           object == Merged(n).object
           wrap == [data |-> Ref(Len(h) + 1), outputSchema |-> Schema(Config(n).schema)]
           t == <<object, wrap>>
           ports == [schema |-> Ref(Len(h) + 2)]
<1>1. Completes(n, h \o t, ports)
  BY DEF ExecuteSchema
<1>2. Grown(heap, h) /\ Referring(object, Len(h))
  BY MergedGrown
<1>3. IsHeap(t) /\ Len(t) = 2 /\ DOMAIN t = 1..2 /\ t[1] = object /\ t[2] = wrap
  <2>1. IsHeap(t) /\ Len(t) = 2
    BY TupleHeaps
  <2>2. DOMAIN t = 1..2 /\ t[1] = object /\ t[2] = wrap
    OBVIOUS
  <2> QED
    BY <2>1, <2>2
<1>4. Schema(Config(n).schema).is = "schema" /\ Schema(Config(n).schema).fields \in NodeSchemas
  BY DEF Schema, NodeSchemas, Config, Designed
<1> HIDE DEF h, object
<1>5. Well(h) /\ Len(h) \in Nat
  BY <1>2 DEF Grown
<1>6. Len(h) + 2 \in Nat /\ Len(h) <= Len(h) + 2 /\ Len(h) + 1 \in 1..(Len(h) + 2)
      /\ Len(h) + 2 \in 1..(Len(h) + 2)
  BY <1>5
<1>7. Refers(Ref(Len(h) + 1), Len(h) + 2) /\ Refers(Ref(Len(h) + 2), Len(h) + 2)
  BY <1>6, RefersPlain
<1>8. Referring(object, Len(h) + 2)
  BY <1>2, <1>5, <1>6, ReferringMore
<1>9. Refers(Schema(Config(n).schema), Len(h) + 2)
  BY <1>4 DEF Refers
<1>10. Referring(wrap, Len(h) + 2)
  BY <1>7, <1>9 DEF Referring
<1> HIDE DEF wrap, t
<1>11. Sounds(t, Len(h) + Len(t))
  BY <1>3, <1>8, <1>10 DEF Sounds, Referring
<1>12. Grown(h, h \o t) /\ Len(h \o t) = Len(h) + 2
  <2>1. Grown(h, h \o t) /\ Len(h \o t) = Len(h) + Len(t)
    BY <1>3, <1>5, <1>11, WellJoin
  <2> QED
    BY <1>3, <2>1
<1>13. Grown(heap, h \o t)
  BY <1>2, <1>12, GrownMore
<1>14. Referring(ports, Len(h \o t))
  BY <1>7, <1>12, SinglePort
<1> QED
  BY <1>1, <1>13, <1>14 DEF Made

LEMMA PassthroughMade ==
  ASSUME Designed, IInv, HeapInv, NEW n, ExecutePassthrough(n)
  PROVE  Made(n)
<1> DEFINE h == Merged(n).heap
           object == Merged(n).object
           new == Append(h, object)
           ports == [passthrough |-> Ref(Len(h) + 1)]
<1>1. Completes(n, new, ports)
  BY DEF ExecutePassthrough
<1>2. Grown(heap, h) /\ Referring(object, Len(h))
  BY MergedGrown
<1> HIDE DEF h, object
<1>3. Well(h) /\ Len(h) \in Nat /\ Len(h) + 1 \in Nat /\ Len(h) <= Len(h) + 1
  BY <1>2 DEF Grown
<1>4. Referring(object, Len(h) + 1)
  BY <1>2, <1>3, ReferringMore
<1>5. Grown(h, new) /\ Len(new) = Len(h) + 1
  BY <1>3, <1>4, WellAppend
<1> HIDE DEF new
<1>6. Grown(heap, new)
  BY <1>2, <1>5, GrownMore
<1>7. Referring(ports, Len(new))
  BY <1>3, <1>5, NewRefers, SinglePort
<1> QED
  BY <1>1, <1>6, <1>7 DEF Made

\* What a terminal takes, for the reader of the report.
LEMMA TerminalMade ==
  ASSUME Designed, IInv, HeapInv, NEW n, ExecuteTerminal(n)
  PROVE  Made(n)
<1> DEFINE h == Merged(n).heap
           object == Merged(n).object
           keys == IF Config(n).mode = "schemaResult"
                     THEN <<"data", "result", "schema">> ELSE <<"result", "data", "schema">>
           given == {k \in DOMAIN keys : Truthy(Key(object, keys[k]))}
<1>1. IF given # {} THEN Completes(n, h, [data |-> object[keys[Least(given)]]])
      ELSE Completes(n, Append(h, object), [data |-> Ref(Len(h) + 1)])
  BY DEF ExecuteTerminal
<1>2. Grown(heap, h) /\ Referring(object, Len(h))
  BY MergedGrown
<1>3. DOMAIN keys = 1..3
  OBVIOUS
<1> HIDE DEF h, object, keys
<1>4. Well(h) /\ Len(h) \in Nat /\ Len(h) + 1 \in Nat /\ Len(h) <= Len(h) + 1
  BY <1>2 DEF Grown
<1>5. CASE given # {}
  <2>1. given \in SUBSET (1..3)
    BY <1>3
  <2>2. Least(given) \in given
    BY <1>5, <2>1, LeastOf
  <2>3. keys[Least(given)] \in DOMAIN object
    BY <2>2 DEF Key, Truthy
  <2> HIDE DEF given
  <2> DEFINE value == object[keys[Least(given)]]
  <2>4. Refers(value, Len(h))
    BY <1>2, <2>3 DEF Referring
  <2>5. Completes(n, h, [data |-> value])
    BY <1>1, <1>5
  <2> HIDE DEF value
  <2>6. Referring([data |-> value], Len(h))
    BY <2>4, SinglePort
  <2> QED
    BY <1>2, <2>5, <2>6 DEF Made
<1>6. CASE given = {}
  <2> DEFINE new == Append(h, object)
             ports == [data |-> Ref(Len(h) + 1)]
  <2>1. Referring(object, Len(h) + 1)
    BY <1>2, <1>4, ReferringMore
  <2>2. Grown(h, new) /\ Len(new) = Len(h) + 1
    BY <1>4, <2>1, WellAppend
  <2>3. Completes(n, new, ports)
    BY <1>1, <1>6
  <2> HIDE DEF new
  <2>4. Grown(heap, new)
    BY <1>2, <2>2, GrownMore
  <2>5. Referring(ports, Len(new))
    BY <1>4, <2>2, NewRefers, SinglePort
  <2> QED
    BY <2>3, <2>4, <2>5 DEF Made
<1> QED
  BY <1>5, <1>6

\* The objects of a model's answer.
LEMMA ModelAnswers ==
  ASSUME NEW fields, NEW base \in Nat, NEW answer \in Answers(fields, base)
  PROVE  \E object, chart, value :
           /\ answer.objects = <<object, chart, value>>
           /\ Referring(object, base + 3) /\ Referring(chart, base + 3) /\ Referring(value, base + 3)
<1> DEFINE keys == {fields[i].key : i \in DOMAIN fields}
           Chart(key) == \E i \in DOMAIN fields : fields[i].key = key /\ fields[i].type = "column_chart"
           value == [key \in keys |-> IF Chart(key) THEN Ref(base + 2) ELSE Text(key)]
           labelled == [l \in {Label[key] : key \in keys} |->
                          value[CHOOSE key \in keys : Label[key] = l]]
           chart == [labels |-> List(<<Text("x")>>)]
           wrapped == [in |-> Ref(base + 3)]
           other == [insight |-> Text("insight")]
           Formed(object, as) == [objects |-> <<object, chart, value>>, as |-> as]
<1>0. answer \in {Formed(value, "exact"), Formed(labelled, "labelled"),
                  Formed(wrapped, "wrapped"), Formed(other, "other")}
  BY DEF Answers
<1>2. base + 3 \in Nat /\ base + 2 \in 1..(base + 3) /\ base + 3 \in 1..(base + 3)
  OBVIOUS
<1>3. /\ Refers(Ref(base + 2), base + 3) /\ Refers(Ref(base + 3), base + 3)
      /\ \A word : Refers(Text(word), base + 3)
  BY <1>2, RefersPlain
<1>4. Refers(List(<<Text("x")>>), base + 3)
  BY <1>2, RefersTexts
<1>5. Referring(value, base + 3) /\ DOMAIN value = keys
  BY <1>3 DEF Referring
<1>6. Referring(labelled, base + 3)
  <2> SUFFICES ASSUME NEW l \in {Label[key] : key \in keys}
               PROVE  Refers(value[CHOOSE key \in keys : Label[key] = l], base + 3)
    BY DEF Referring
  <2>1. (CHOOSE key \in keys : Label[key] = l) \in keys
    OBVIOUS
  <2> HIDE DEF value, keys
  <2> QED
    BY <1>5, <2>1 DEF Referring
<1>7. Referring(chart, base + 3) /\ Referring(wrapped, base + 3) /\ Referring(other, base + 3)
  BY <1>3, <1>4 DEF Referring
<1> HIDE DEF value, labelled, chart, wrapped, other, keys
<1>8. \/ answer.objects = <<value, chart, value>> \/ answer.objects = <<labelled, chart, value>>
      \/ answer.objects = <<wrapped, chart, value>> \/ answer.objects = <<other, chart, value>>
  BY <1>0
<1> QED
  BY <1>5, <1>6, <1>7, <1>8

LEMMA UnwrappedIn ==
  ASSUME NEW h, Well(h), NEW address \in DOMAIN h
  PROVE  Unwrapped(h, address) \in DOMAIN h
<1>1. Len(h) \in Nat /\ DOMAIN h = 1..Len(h) /\ Sounds(h, Len(h))
  BY HeapSize DEF Well
<1> DEFINE keys == DOMAIN h[address]
           only == CHOOSE key \in keys : TRUE
<1>2. CASE Unwrapped(h, address) = address
  BY <1>2
<1>3. CASE Unwrapped(h, address) # address
  <2>1. /\ Cardinality(keys) = 1 /\ \A key \in keys : h[address][key].is = "object"
        /\ Unwrapped(h, address) = h[address][only].at
    BY <1>3 DEF Unwrapped
  <2>2. keys # {}
    BY <2>1, FS_EmptySet
  <2>3. only \in keys
    BY <2>2
  <2> HIDE DEF only
  <2>4. Refers(h[address][only], Len(h)) /\ h[address][only].is = "object"
    BY <1>1, <2>1, <2>3 DEF Sounds
  <2> QED
    BY <1>1, <2>1, <2>4 DEF Refers
<1> QED
  BY <1>2, <1>3

LEMMA AiMade ==
  ASSUME Designed, IInv, HeapInv, NEW n, ExecuteAi(n)
  PROVE  Made(n)
<1>1. CASE Fails(n)
  BY <1>1 DEF Made
<1>2. CASE ~Fails(n)
  <2> DEFINE h == Merged(n).heap
             fields == SchemaFor(n, Merged(n))
  <2>1. PICK answer \in Answers(fields, Len(h)) :
          LET new == h \o answer.objects
          IN Completes(n, new, [result |-> Ref(Unwrapped(new, Len(h) + 1))])
    BY <1>2 DEF ExecuteAi
  <2>2. Grown(heap, h)
    BY MergedGrown
  <2> HIDE DEF h, fields
  <2>3. Well(h) /\ Len(h) \in Nat
    BY <2>2 DEF Grown
  <2>4. PICK object, chart, value :
          /\ answer.objects = <<object, chart, value>>
          /\ Referring(object, Len(h) + 3) /\ Referring(chart, Len(h) + 3) /\ Referring(value, Len(h) + 3)
    BY <2>3, ModelAnswers
  <2> DEFINE t == <<object, chart, value>>
             new == h \o t
             at == Unwrapped(new, Len(h) + 1)
  <2>5. IsHeap(t) /\ Len(t) = 3
    BY TupleHeaps
  <2>6. Sounds(t, Len(h) + Len(t))
    <3>1. DOMAIN t = 1..3 /\ t[1] = object /\ t[2] = chart /\ t[3] = value
      OBVIOUS
    <3> HIDE DEF t
    <3> QED
      BY <2>4, <2>5, <3>1 DEF Sounds, Referring
  <2> HIDE DEF t
  <2>7. Grown(h, new) /\ Len(new) = Len(h) + 3
    <3>1. Grown(h, h \o t) /\ Len(h \o t) = Len(h) + Len(t)
      BY <2>3, <2>5, <2>6, WellJoin
    <3> QED
      BY <2>5, <3>1
  <2>8. Completes(n, new, [result |-> Ref(at)])
    BY <2>1, <2>4 DEF t
  <2> HIDE DEF new
  <2>9. Well(new) /\ Len(new) \in Nat /\ DOMAIN new = 1..Len(new) /\ Len(h) + 1 \in DOMAIN new
    BY <2>3, <2>7, HeapSize DEF Grown, Well
  <2>10. at \in 1..Len(new)
    BY <2>9, UnwrappedIn
  <2> HIDE DEF at
  <2>11. Refers(Ref(at), Len(new))
    BY <2>9, <2>10, RefersPlain
  <2>12. Referring([result |-> Ref(at)], Len(new))
    BY <2>11, SinglePort
  <2>13. Grown(heap, new)
    BY <2>2, <2>7, GrownMore
  <2> QED
    BY <2>8, <2>12, <2>13 DEF Made
<1> QED
  BY <1>1, <1>2

\* A mapper's rules work on a new object.
LEMMA MapperMade ==
  ASSUME Designed, IInv, HeapInv, NEW n \in Nodes, ExecuteMapper(n)
  PROVE  LET start == Append(heap, KeyedInputs(n))
             root == Len(heap) + 1
             new == ApplyRules(start, root, Config(n).rules)
         IN /\ Completes(n, new, [out |-> Ref(root)])
            /\ Grown(heap, start) /\ root \in DOMAIN start /\ start[root] = KeyedInputs(n)
            /\ Config(n).rules \in Seq(Rule)
            /\ Well(new) /\ Len(new) \in Nat /\ Len(heap) <= Len(new)
            /\ Referring([out |-> Ref(root)], Len(new))
<1> DEFINE start == Append(heap, KeyedInputs(n))
           root == Len(heap) + 1
           new == ApplyRules(start, root, Config(n).rules)
<1>1. Well(heap) /\ Len(heap) \in Nat
  BY HeapSize DEF HeapInv, Well
<1>2. Referring(KeyedInputs(n), Len(heap) + 1)
  BY <1>1, KeyedRefer, ReferringMore
<1>3. /\ Grown(heap, start) /\ Len(start) = root /\ start[root] = KeyedInputs(n)
      /\ root \in DOMAIN start
  BY <1>1, <1>2, WellAppend
<1>4. Completes(n, new, [out |-> Ref(root)])
  BY DEF ExecuteMapper
<1>5. Config(n).rules \in Seq(Rule)
  BY DesignAssumption DEF Designed, Configured, Config
<1> HIDE DEF start, root
<1>6. Well(start) /\ Len(start) \in Nat /\ root \in Nat /\ root = Len(heap) + 1
  BY <1>1, <1>3 DEF Grown, root
<1>7. Well(new) /\ Len(new) >= Len(start)
  BY <1>3, <1>5, <1>6, RulesSound
<1> HIDE DEF new
<1>8. Len(new) \in Nat /\ Len(heap) <= Len(new) /\ root \in 1..Len(new)
  BY <1>1, <1>3, <1>6, <1>7, HeapSize DEF Well
<1>9. Refers(Ref(root), Len(new))
  BY <1>8, RefersPlain
<1>10. Referring([out |-> Ref(root)], Len(new))
  BY <1>9, SinglePort
<1> QED
  BY <1>3, <1>4, <1>5, <1>7, <1>8, <1>10 DEF start, root, new

-------------------------------------------------------------------------------
(***************************************************************************)
(* A node's turn is recorded once.                                         *)
(***************************************************************************)
LEMMA Recorded ==
  ASSUME IInv, pc = "run", UNCHANGED order, NEW n \in Nodes, n = Current, Len(tries) < Len(order),
         NEW status, NEW own, Record(n, status, own)
  PROVE  /\ \A S : ~Dealt(n, S)
         /\ \A S : Dealt(n, S)' <=> status \in S
         /\ \A m \in Nodes \ {n} : \A S : Dealt(m, S)' <=> Dealt(m, S)
<1>0. PICK k : k = Len(tries) + 1
  OBVIOUS
<1> DEFINE e == [node |-> n, status |-> status, own |-> own]
<1>1. /\ Len(tries) \in Nat /\ DOMAIN tries = 1..Len(tries) /\ DOMAIN order = 1..Len(order)
      /\ Len(order) \in Nat /\ IsInjective(order) /\ n = order[k]
      /\ \A i \in DOMAIN tries : tries[i].node = order[i] /\ tries[i].node \in Nodes /\ i \in DOMAIN order
  BY <1>0, TriesInOrder DEF Current
<1>2. tries' = Append(tries, e) /\ tries \in Seq(NodeTry)
  BY DEF Record, IInv, TypeOK
<1>3. /\ DOMAIN tries' = 1..k /\ tries'[k] = e
      /\ \A i \in DOMAIN tries : tries'[i] = tries[i]
  BY <1>0, <1>1, <1>2, AppendProperties
<1>4. k \in DOMAIN order /\ k \notin DOMAIN tries /\ \A i \in DOMAIN tries : i <= k /\ i # k
  BY <1>0, <1>1
<1>5. \A i \in DOMAIN tries : tries[i].node # n
  BY <1>1, <1>4 DEF IsInjective
<1>6. e.node = n /\ e.status = status
  OBVIOUS
<1> HIDE DEF e
<1>7. (\A i \in DOMAIN tries' : i = k \/ i \in DOMAIN tries) /\ DOMAIN tries \subseteq DOMAIN tries'
      /\ k \in DOMAIN tries'
  BY <1>0, <1>1, <1>3
<1>8. \A S : ~Dealt(n, S)
  BY <1>5 DEF Dealt
<1>9. \A S : Dealt(n, S)' <=> status \in S
  BY <1>3, <1>5, <1>6, <1>7 DEF Dealt
<1>10. \A m \in Nodes \ {n} : \A S : Dealt(m, S)' <=> Dealt(m, S)
  BY <1>3, <1>6, <1>7 DEF Dealt
<1> QED
  BY <1>8, <1>9, <1>10

LEMMA CompletedKeeps ==
  ASSUME IInv, HeapInv, pc = "run", UNCHANGED <<order, design>>, NEW n \in Nodes,
         n = Current, Len(tries) < Len(order), NEW new, NEW ports, Completes(n, new, ports),
         Well(new), Len(new) \in Nat, Len(heap) <= Len(new), Referring(ports, Len(new))
  PROVE  HeapInv'
<1>1. /\ heap' = new /\ outputs' = [outputs EXCEPT ![n] = ports] /\ Record(n, "completed", FALSE)
      /\ DOMAIN outputs = Nodes /\ Len(heap) \in Nat
  BY HeapSize DEF Completes, HeapInv, Well
<1>2. /\ Dealt(n, {"completed"})'
      /\ \A m \in Nodes \ {n} : Dealt(m, {"completed"})' <=> Dealt(m, {"completed"})
  <2>1. Dealt(n, {"completed"})' <=> "completed" \in {"completed"}
    BY <1>1, Recorded
  <2>2. \A m \in Nodes \ {n} : \A S : Dealt(m, S)' <=> Dealt(m, S)
    BY <1>1, Recorded
  <2> QED
    BY <2>1, <2>2
<1>3. DOMAIN outputs' = Nodes /\ outputs'[n] = ports /\ \A m \in Nodes \ {n} : outputs'[m] = outputs[m]
  BY <1>1
<1>4. ASSUME NEW m \in Nodes
      PROVE  /\ \A port \in DOMAIN outputs'[m] : Refers(outputs'[m][port], Len(heap'))
             /\ ~Dealt(m, {"completed"})' => outputs'[m] = Nothing
  <2>1. CASE m = n
    BY <1>1, <1>2, <1>3, <2>1 DEF Referring
  <2>2. CASE m # n
    <3>1. \A port \in DOMAIN outputs[m] : Refers(outputs[m][port], Len(heap))
      BY DEF HeapInv
    <3>2. \A port \in DOMAIN outputs[m] : Refers(outputs[m][port], Len(new))
      BY <1>1, <3>1, RefersMore
    <3> QED
      BY <1>1, <1>2, <1>3, <2>2, <3>2 DEF HeapInv
  <2> QED
    BY <2>1, <2>2
<1>5. DOMAIN heap \subseteq DOMAIN heap'
  BY <1>1, HeapSize DEF HeapInv, Well
<1> QED
  BY <1>1, <1>3, <1>4, <1>5 DEF HeapInv

LEMMA OthersKeep ==
  ASSUME IInv, HeapInv, pc = "run", UNCHANGED <<order, design>>, NEW n \in Nodes,
         n = Current, Len(tries) < Len(order), NEW status, NEW own, Record(n, status, own),
         status # "completed", UNCHANGED <<heap, outputs>>
  PROVE  HeapInv'
<1>1. ~Dealt(n, {"completed"})' /\ ~Dealt(n, {"completed"})
  <2>1. /\ \A S : ~Dealt(n, S)
        /\ \A S : Dealt(n, S)' <=> status \in S
    BY Recorded
  <2> QED
    BY <2>1
<1>2. \A m \in Nodes \ {n} : \A S : Dealt(m, S)' <=> Dealt(m, S)
  BY Recorded
<1>3. \A m \in Nodes : ~Dealt(m, {"completed"})' => ~Dealt(m, {"completed"})
  BY <1>1, <1>2
<1> QED
  BY <1>3 DEF HeapInv

\* The turn of node n, by its executor.
LEMMA Turn ==
  ASSUME NEW n \in Nodes,
         \/ ExecuteInput(n) \/ ExecuteSource(n) \/ ExecuteMapper(n) \/ ExecuteMerger(n)
         \/ ExecuteSchema(n) \/ ExecuteAi(n) \/ ExecuteTerminal(n) \/ ExecutePassthrough(n)
  PROVE  /\ pc = "run" /\ n = Current /\ Len(tries) < Len(order)
         /\ UNCHANGED <<pc, design, graph, order, report, data>>
BY DEF ExecuteInput, ExecuteSource, ExecuteMapper, ExecuteMerger, ExecuteSchema, ExecuteAi,
       ExecuteTerminal, ExecutePassthrough, Runs, At

LEMMA HeapKept ==
  ASSUME Designed, IInv, HeapInv, [NodeNext]_<<vars, nodeVars>>
  PROVE  HeapInv'
<1>1. CASE UNCHANGED <<design, heap, outputs, tries>>
  BY <1>1 DEF HeapInv, Dealt
<1>2. ASSUME NEW n \in Nodes, Propagate(n), UNCHANGED nodeVars PROVE HeapInv'
  <2>1. /\ pc = "run" /\ n = Current /\ Len(tries) < Len(order) /\ UNCHANGED <<order, design, heap, outputs>>
        /\ Record(n, IF graph.required[n] THEN "failed" ELSE "skipped", FALSE)
    BY <1>2 DEF Propagate, At, nodeVars
  <2>2. PICK status : status = IF graph.required[n] THEN "failed" ELSE "skipped"
    OBVIOUS
  <2>3. status # "completed" /\ Record(n, status, FALSE)
    BY <2>1, <2>2
  <2> QED
    BY <2>1, <2>3, OthersKeep
<1>3. ASSUME NEW n \in Nodes,
             \/ ExecuteInput(n) \/ ExecuteSource(n) \/ ExecuteMerger(n)
             \/ ExecuteSchema(n) \/ ExecuteAi(n) \/ ExecuteTerminal(n) \/ ExecutePassthrough(n)
      PROVE  HeapInv'
  <2>1. /\ pc = "run" /\ n = Current /\ Len(tries) < Len(order) /\ UNCHANGED <<order, design>>
    BY <1>3, Turn
  <2>2. Made(n)
    BY <1>3, InputMade, SourceMade, MergerMade, SchemaMade, AiMade, TerminalMade, PassthroughMade
  <2>3. CASE Fails(n)
    BY <2>1, <2>3, OthersKeep DEF Fails
  <2>4. CASE ~Fails(n)
    <3>1. PICK new, ports : Completes(n, new, ports) /\ Grown(heap, new) /\ Referring(ports, Len(new))
      BY <2>2, <2>4 DEF Made
    <3>2. Well(new) /\ Len(new) \in Nat /\ Len(heap) <= Len(new)
      BY <3>1 DEF Grown
    <3> QED
      BY <2>1, <3>1, <3>2, CompletedKeeps
  <2> QED
    BY <2>3, <2>4
<1>4. ASSUME NEW n \in Nodes, ExecuteMapper(n) PROVE HeapInv'
  <2>1. /\ pc = "run" /\ n = Current /\ Len(tries) < Len(order) /\ UNCHANGED <<order, design>>
    BY <1>4, Turn
  <2> DEFINE root == Len(heap) + 1
             new == ApplyRules(Append(heap, KeyedInputs(n)), root, Config(n).rules)
             ports == [out |-> Ref(root)]
  <2>2. Completes(n, new, ports) /\ Well(new) /\ Len(new) \in Nat /\ Len(heap) <= Len(new)
        /\ Referring(ports, Len(new))
    BY <1>4, MapperMade
  <2> HIDE DEF new, ports
  <2> QED
    BY <2>1, <2>2, CompletedKeeps
<1>5. CASE ConcludeReport
  BY <1>1, <1>5 DEF ConcludeReport
<1>6. ASSUME NEW n \in Nodes, Refuse(n), UNCHANGED nodeVars PROVE HeapInv'
  BY <1>1, <1>6 DEF Refuse, nodeVars
<1>7. CASE (SortNode \/ SortRest \/ LoadConnections) /\ UNCHANGED nodeVars
  BY <1>1, <1>7 DEF SortNode, SortRest, LoadConnections, nodeVars
<1>8. CASE UNCHANGED <<vars, nodeVars>>
  BY <1>1, <1>8 DEF vars, nodeVars
<1> QED
  BY <1>2, <1>3, <1>4, <1>5, <1>6, <1>7, <1>8 DEF NodeNext

LEMMA HeapInit == NodeInit => HeapInv
<1> SUFFICES ASSUME NodeInit PROVE HeapInv
  OBVIOUS
<1>1. heap = design.objects /\ outputs = [n \in Nodes |-> Nothing] /\ Designed
  BY DesignedInit DEF NodeInit
<1>2. IsHeap(heap) /\ Sounds(heap, Len(heap))
  BY <1>1, ParametersGiven DEF Sounds, Parameter, Refers
<1>3. DOMAIN Nothing = {}
  BY DEF Nothing
<1> QED
  BY <1>1, <1>2, <1>3 DEF HeapInv, Well

\* There is no report before the end.
ReportLast == report # Nothing => pc = "done"

LEMMA ReportLastKept ==
  ASSUME ReportLast, [NodeNext]_<<vars, nodeVars>>
  PROVE  ReportLast'
<1>1. ASSUME NEW n \in Nodes,
             \/ ExecuteInput(n) \/ ExecuteSource(n) \/ ExecuteMapper(n) \/ ExecuteMerger(n)
             \/ ExecuteSchema(n) \/ ExecuteAi(n) \/ ExecuteTerminal(n) \/ ExecutePassthrough(n)
      PROVE  ReportLast'
  BY <1>1, Turn DEF ReportLast
<1>2. ASSUME NEW n \in Nodes, Refuse(n) \/ Propagate(n), UNCHANGED nodeVars PROVE ReportLast'
  BY <1>2 DEF Refuse, Propagate, At, ReportLast, nodeVars
<1>3. CASE (SortNode \/ SortRest \/ LoadConnections) /\ UNCHANGED nodeVars
  BY <1>3 DEF SortNode, SortRest, LoadConnections, ReportLast, nodeVars
<1>4. CASE ConcludeReport
  BY <1>4 DEF ConcludeReport, ReportLast
<1>5. CASE UNCHANGED <<vars, nodeVars>>
  BY <1>5 DEF vars, nodeVars, ReportLast
<1> QED
  BY <1>1, <1>2, <1>3, <1>4, <1>5 DEF NodeNext

LEMMA NodesTyped ==
  ASSUME IInv, HeapInv, ReportLast
  PROVE  NodeTypeOK
<1>1. Len(heap) \in Nat /\ DOMAIN heap = 1..Len(heap) /\ Sounds(heap, Len(heap))
  BY HeapSize DEF HeapInv, Well
<1>2. \A value : Refers(value, Len(heap)) => Sound(value)
  BY <1>1 DEF Refers, Sound
<1>3. \A address \in DOMAIN heap : \A key \in DOMAIN heap[address] : Sound(heap[address][key])
  BY <1>1, <1>2 DEF Sounds
<1>4. ASSUME NEW n \in Nodes, NEW port \in DOMAIN outputs[n]
      PROVE  Sound(outputs[n][port]) /\ Dealt(n, {"completed"})
  <2>1. Refers(outputs[n][port], Len(heap))
    BY DEF HeapInv
  <2>2. DOMAIN Nothing = {}
    BY DEF Nothing
  <2>3. Dealt(n, {"completed"})
    BY <2>2 DEF HeapInv
  <2> QED
    BY <1>2, <2>1, <2>3
<1> QED
  BY <1>3, <1>4 DEF NodeTypeOK, ReportLast, IInv

LEMMA HeapIsSound == NodeSpec => [](Designed /\ IInv /\ HeapInv /\ ReportLast)
<1>1. NodeInit => Designed /\ HeapInv /\ ReportLast
  BY DesignedInit, HeapInit DEF NodeInit, ReportLast
<1>2. Designed /\ [NodeNext]_<<vars, nodeVars>> => Designed'
  BY DesignedKept
<1>3. Designed /\ IInv /\ HeapInv /\ [NodeNext]_<<vars, nodeVars>> => HeapInv'
  BY HeapKept
<1>4. ReportLast /\ [NodeNext]_<<vars, nodeVars>> => ReportLast'
  BY ReportLastKept
<1>5. NodeSpec => []IInv
  BY ValuesFollowFlow, Invariance, PTL DEF FlowSpec
<1> QED
  BY <1>1, <1>2, <1>3, <1>4, <1>5, PTL DEF NodeSpec

(***************************************************************************)
(* Whatever the nodes are set up to do, every reference, in an object or   *)
(* at a port, leads to an object: no provider, rule, answer or merging of  *)
(* inputs leaves one that leads nowhere; and a node that did not complete  *)
(* has no outputs.                                                         *)
(***************************************************************************)
THEOREM NodesAreTyped == NodeSpec => []NodeTypeOK
BY HeapIsSound, NodesTyped, PTL

-------------------------------------------------------------------------------
(***************************************************************************)
(* Objects change only where a mapper is set up to write into what it was  *)
(* given.                                                                  *)
(***************************************************************************)
MapperWrites(n) ==
  /\ outputs'[n] # outputs[n] /\ Executor(n) = "mapper"
  /\ \E i \in DOMAIN Config(n).rules : WritesInto(n, ToSet(Ports(n)), i)

LEMMA MapperKeeps ==
  ASSUME Designed, IInv, HeapInv, NEW n \in Nodes, ExecuteMapper(n),
         NEW address \in DOMAIN heap, heap'[address] # heap[address]
  PROVE  MapperWrites(n)
<1> DEFINE start == Append(heap, KeyedInputs(n))
           root == Len(heap) + 1
           rules == Config(n).rules
           new == ApplyRules(start, root, rules)
           ports == [out |-> Ref(root)]
<1>1. /\ pc = "run" /\ n = Current /\ Len(tries) < Len(order) /\ UNCHANGED order
  BY Turn
<1>2. Executor(n) = "mapper"
  BY DEF ExecuteMapper, Runs
<1>3. /\ Completes(n, new, ports) /\ Grown(heap, start) /\ root \in DOMAIN start
      /\ start[root] = KeyedInputs(n) /\ rules \in Seq(Rule)
  BY MapperMade
<1>4. DOMAIN KeyedInputs(n) = ToSet(Ports(n))
  BY DEF KeyedInputs
<1>5. outputs'[n] # outputs[n]
  <2>1. \A S : ~Dealt(n, S)
    BY <1>1, <1>3, Recorded DEF Completes
  <2>2. outputs[n] = Nothing /\ DOMAIN outputs = Nodes
    BY <2>1 DEF HeapInv
  <2>3. outputs'[n] = ports
    BY <1>3, <2>2 DEF Completes
  <2>4. "out" \in DOMAIN ports /\ "out" \notin DOMAIN Nothing
    BY DEF Nothing
  <2> QED
    BY <2>2, <2>3, <2>4
<1>6. \E i \in DOMAIN rules : WritesInto(n, ToSet(Ports(n)), i)
  <2> SUFFICES ASSUME \A i \in DOMAIN rules : ~WritesInto(n, ToSet(Ports(n)), i) PROVE FALSE
    OBVIOUS
  <2>1. \A i \in DOMAIN rules : Len(rules[i].to) > 1 =>
          rules[i].to[1] \notin DOMAIN start[root] \cup {Target(rules[j].to)[1] : j \in 1..(i - 1)}
    BY <1>3, <1>4 DEF WritesInto
  <2>2. IsHeap(start) /\ address \in DOMAIN start /\ start[address] = heap[address]
    BY <1>3 DEF Grown, Well
  <2>3. address # root
    BY HeapSize DEF HeapInv, Well
  <2>4. heap' = new
    BY <1>3 DEF Completes
  <2> HIDE DEF start, root, rules
  <2>5. \A i \in DOMAIN start \ {root} : ApplyRules(start, root, rules)[i] = start[i]
    BY <1>3, <2>1, <2>2, RulesKeep
  <2> QED
    BY <2>2, <2>3, <2>4, <2>5
<1> QED
  BY <1>2, <1>5, <1>6 DEF MapperWrites

LEMMA StepKeeps ==
  ASSUME Designed, IInv, HeapInv, [NodeNext]_<<vars, nodeVars>>,
         NEW address \in DOMAIN heap, heap'[address] # heap[address]
  PROVE  \E n \in Nodes : ExecuteMapper(n) /\ MapperWrites(n)
<1>1. ASSUME UNCHANGED heap PROVE FALSE
  BY <1>1
<1>2. ASSUME NEW n \in Nodes,
             \/ ExecuteInput(n) \/ ExecuteSource(n) \/ ExecuteMerger(n)
             \/ ExecuteSchema(n) \/ ExecuteAi(n) \/ ExecuteTerminal(n) \/ ExecutePassthrough(n)
      PROVE  FALSE
  <2>1. Made(n)
    BY <1>2, InputMade, SourceMade, MergerMade, SchemaMade, AiMade, TerminalMade, PassthroughMade
  <2> QED
    BY <1>1, <2>1 DEF Made, Fails, Completes, Grown
<1>3. ASSUME NEW n \in Nodes, ExecuteMapper(n) PROVE ExecuteMapper(n) /\ MapperWrites(n)
  BY <1>3, MapperKeeps
<1>4. CASE ConcludeReport
  BY <1>1, <1>4 DEF ConcludeReport
<1>5. ASSUME NEW n \in Nodes, Refuse(n) \/ Propagate(n), UNCHANGED nodeVars PROVE FALSE
  BY <1>1, <1>5 DEF nodeVars
<1>6. CASE (SortNode \/ SortRest \/ LoadConnections) /\ UNCHANGED nodeVars
  BY <1>1, <1>6 DEF nodeVars
<1>7. CASE UNCHANGED <<vars, nodeVars>>
  BY <1>1, <1>7 DEF nodeVars
<1> QED
  BY <1>2, <1>3, <1>4, <1>5, <1>6, <1>7 DEF NodeNext

(***************************************************************************)
(* What a node has put out stays what it was, for all flows and values,    *)
(* but for a mapper with a rule whose target lies inside an object that it *)
(* was given, or that an earlier rule has put there.                       *)
(***************************************************************************)
THEOREM OutputsStay == NodeSpec => OutputsKept
<1>1. ASSUME Designed, IInv, HeapInv, [NodeNext]_<<vars, nodeVars>>
      PROVE  [\A address \in DOMAIN heap : heap'[address] # heap[address] =>
                \E n \in Nodes : MapperWrites(n)]_nodeVars
  BY <1>1, StepKeeps
<1>2. [][\A address \in DOMAIN heap : heap'[address] # heap[address] =>
            \E n \in Nodes : MapperWrites(n)]_nodeVars => OutputsKept
  BY DEF OutputsKept, MapperWrites
<1> QED
  BY <1>1, <1>2, HeapIsSound, PTL DEF NodeSpec

-------------------------------------------------------------------------------
(***************************************************************************)
(* In a flow without cycles, whose mappers leave alone what they are       *)
(* given, what a node was given and what it has put out stay as they were. *)
(***************************************************************************)
LEMMA ArrivalsKept ==
  ASSUME Designed, UNCHANGED <<design, graph>>, NEW n, FeedersKept(n)
  PROVE  /\ Arrivals(n)' = Arrivals(n)
         /\ \A k \in DOMAIN Arrivals(n) :
              outputs'[Arrivals(n)[k].link.source] = outputs[Arrivals(n)[k].link.source]
<1> DEFINE I == {i \in DOMAIN design.wires :
                   design.wires[i].link.target = n /\ Carries(design.wires[i])}
<1>1. ASSUME NEW i \in DOMAIN design.wires, design.wires[i].link.target = n
      PROVE  Carries(design.wires[i])' <=> Carries(design.wires[i])
  <2>1. design.wires[i].link \in Into(n)
    BY <1>1, Wired DEF Into
  <2>2. /\ Dealt(design.wires[i].link.source, {"completed"})'
             = Dealt(design.wires[i].link.source, {"completed"})
        /\ outputs'[design.wires[i].link.source] = outputs[design.wires[i].link.source]
    BY <2>1 DEF FeedersKept
  <2> QED
    BY <2>2 DEF Carries
<1>2. I' = I
  BY <1>1
<1>3. Arrivals(n)' = Arrivals(n)
  <2>1. Arrivals(n) = Chosen(design.wires, I) /\ Arrivals(n)' = Chosen(design'.wires, I')
    BY DEF Arrivals
  <2> QED
    BY <1>2, <2>1
<1>4. \A k \in DOMAIN Arrivals(n) : Arrivals(n)[k].link \in Into(n)
  BY Arrived
<1> QED
  BY <1>3, <1>4 DEF FeedersKept

\* The nodes that feed a node are dealt with before it.
LEMMA FeedersDealt ==
  ASSUME IInv, Acyclic, NEW m \in Nodes, Dealt(m, Status) \/ (pc = "run" /\ m = Current /\ Len(tries) < Len(order))
  PROVE  \A l \in Into(m) : l.source \in Nodes /\ Dealt(l.source, Status)
<1>1. /\ Len(tries) \in Nat /\ Len(order) \in Nat
      /\ DOMAIN tries = 1..Len(tries) /\ DOMAIN order = 1..Len(order)
      /\ \A i \in DOMAIN tries :
           i \in DOMAIN order /\ tries[i].node = order[i] /\ tries[i].node \in Nodes /\ tries[i].status \in Status
  BY TriesInOrder
<1>2. PICK i \in DOMAIN order : order[i] = m /\ i <= Len(tries) + 1
  <2>1. CASE Dealt(m, Status)
    BY <1>1, <2>1 DEF Dealt
  <2>2. CASE pc = "run" /\ m = Current /\ Len(tries) < Len(order)
    BY <1>1, <2>2 DEF Current
  <2> QED
    BY <2>1, <2>2
<1>3. FedBefore(i)
  BY DEF IInv, OrderInv
<1> SUFFICES ASSUME NEW l \in Into(m) PROVE l.source \in Nodes /\ Dealt(l.source, Status)
  OBVIOUS
<1>4. PICK j \in 1..(i - 1) : order[j] = l.source
  BY <1>2, <1>3 DEF FedBefore
<1>5. j \in DOMAIN tries /\ tries[j].node = l.source
  BY <1>1, <1>2, <1>4
<1> QED
  BY <1>1, <1>5 DEF Dealt

\* The turn of a node as the flow sees it: its executor's, or none.
TurnOf(n) ==
  /\ pc = "run" /\ n = Current /\ Len(tries) < Len(order)
  /\ UNCHANGED <<pc, design, graph, order, report, data>>
  /\ \/ \E status \in Status \ {"completed"}, own \in BOOLEAN :
          Record(n, status, own) /\ UNCHANGED <<heap, outputs, asked>>
     \/ /\ Record(n, "completed", FALSE)
        /\ \A m \in Nodes \ {n} : outputs'[m] = outputs[m] /\ asked'[m] = asked[m]
        /\ DOMAIN asked' = DOMAIN asked
        /\ \/ ExecuteInput(n) \/ ExecuteSource(n) \/ ExecuteMapper(n) \/ ExecuteMerger(n)
           \/ ExecuteSchema(n) \/ ExecuteAi(n) \/ ExecuteTerminal(n) \/ ExecutePassthrough(n)

LEMMA FailsTurn ==
  ASSUME NEW n, Fails(n), UNCHANGED asked
  PROVE  \E status \in Status \ {"completed"}, own \in BOOLEAN :
           Record(n, status, own) /\ UNCHANGED <<heap, outputs, asked>>
<1>1. "failed" \in Status \ {"completed"} /\ TRUE \in BOOLEAN
  BY DEF Status
<1> QED
  BY <1>1 DEF Fails

LEMMA ExecutorTurn ==
  ASSUME HeapInv, DOMAIN asked = Nodes, NEW n \in Nodes,
         \/ ExecuteInput(n) \/ ExecuteSource(n) \/ ExecuteMapper(n) \/ ExecuteMerger(n)
         \/ ExecuteSchema(n) \/ ExecuteAi(n) \/ ExecuteTerminal(n) \/ ExecutePassthrough(n)
  PROVE  TurnOf(n)
<1>1. /\ pc = "run" /\ n = Current /\ Len(tries) < Len(order)
      /\ UNCHANGED <<pc, design, graph, order, report, data>>
  BY Turn
<1>2. \/ Fails(n) /\ UNCHANGED asked
      \/ /\ \E new, ports : Completes(n, new, ports)
         /\ UNCHANGED asked \/ \E to : asked' = [asked EXCEPT ![n] = to]
  BY DEF ExecuteInput, ExecuteSource, ExecuteMapper, ExecuteMerger, ExecuteSchema, ExecuteAi,
         ExecuteTerminal, ExecutePassthrough
<1>3. CASE Fails(n) /\ UNCHANGED asked
  BY <1>1, <1>3, FailsTurn DEF TurnOf
<1>4. CASE /\ \E new, ports : Completes(n, new, ports)
           /\ UNCHANGED asked \/ \E to : asked' = [asked EXCEPT ![n] = to]
  <2>1. \A m \in Nodes \ {n} : outputs'[m] = outputs[m]
    BY <1>4 DEF Completes, HeapInv
  <2>2. (\A m \in Nodes \ {n} : asked'[m] = asked[m]) /\ DOMAIN asked' = DOMAIN asked
    BY <1>4
  <2>3. Record(n, "completed", FALSE)
    BY <1>4 DEF Completes
  <2> QED
    BY <1>1, <2>1, <2>2, <2>3 DEF TurnOf
<1> QED
  BY <1>2, <1>3, <1>4

\* A step is a node's turn, or the end, or leaves what the nodes did alone.
LEMMA StepOrTurn ==
  ASSUME HeapInv, DOMAIN asked = Nodes, [NodeNext]_<<vars, nodeVars>>
  PROVE  \/ UNCHANGED <<design, graph, tries, heap, outputs, asked>>
         \/ \E n \in Nodes : TurnOf(n)
<1>1. ASSUME NEW n \in Nodes,
             \/ ExecuteInput(n) \/ ExecuteSource(n) \/ ExecuteMapper(n) \/ ExecuteMerger(n)
             \/ ExecuteSchema(n) \/ ExecuteAi(n) \/ ExecuteTerminal(n) \/ ExecutePassthrough(n)
      PROVE  TurnOf(n)
  BY <1>1, ExecutorTurn
<1>2. ASSUME NEW n \in Nodes, Propagate(n), UNCHANGED nodeVars PROVE TurnOf(n)
  <2>1. /\ pc = "run" /\ n = Current /\ Len(tries) < Len(order)
        /\ UNCHANGED <<pc, design, graph, order, report, data>> /\ UNCHANGED <<heap, outputs, asked>>
        /\ Record(n, IF graph.required[n] THEN "failed" ELSE "skipped", FALSE)
    BY <1>2 DEF Propagate, At, nodeVars
  <2>2. PICK status \in Status \ {"completed"} : status = IF graph.required[n] THEN "failed" ELSE "skipped"
    BY DEF Status
  <2>3. Record(n, status, FALSE)
    BY <2>1, <2>2
  <2> QED
    BY <2>1, <2>3 DEF TurnOf
<1>3. CASE ConcludeReport
  BY <1>3 DEF ConcludeReport
<1>4. ASSUME NEW n \in Nodes, Refuse(n), UNCHANGED nodeVars
      PROVE  UNCHANGED <<design, graph, tries, heap, outputs, asked>>
  BY <1>4 DEF Refuse, At, nodeVars
<1>5. CASE (SortNode \/ SortRest \/ LoadConnections) /\ UNCHANGED nodeVars
  BY <1>5 DEF SortNode, SortRest, LoadConnections, nodeVars
<1>6. CASE UNCHANGED <<vars, nodeVars>>
  BY <1>6 DEF vars, nodeVars
<1> QED
  BY <1>1, <1>2, <1>3, <1>4, <1>5, <1>6 DEF NodeNext

LEMMA TurnRecords ==
  ASSUME IInv, NEW n \in Nodes, TurnOf(n)
  PROVE  /\ ~Dealt(n, Status) /\ ~Dealt(n, {"completed"})
         /\ \A m \in Nodes \ {n} : \A S : Dealt(m, S)' <=> Dealt(m, S)
<1>1. PICK status, own : Record(n, status, own)
  BY DEF TurnOf
<1>2. /\ \A S : ~Dealt(n, S)
      /\ \A m \in Nodes \ {n} : \A S : Dealt(m, S)' <=> Dealt(m, S)
  BY <1>1, Recorded DEF TurnOf
<1> QED
  BY <1>2

LEMMA CompletedIsDealt ==
  ASSUME NEW m, Dealt(m, {"completed"})
  PROVE  Dealt(m, Status)
BY DEF Dealt, Status

\* What was done about a node stays done.
LEMMA DealtStays ==
  ASSUME IInv, HeapInv, DOMAIN asked = Nodes, [NodeNext]_<<vars, nodeVars>>, NEW m \in Nodes, Dealt(m, Status)
  PROVE  /\ outputs'[m] = outputs[m] /\ asked'[m] = asked[m]
         /\ Dealt(m, {"completed"})' = Dealt(m, {"completed"})
<1>1. CASE UNCHANGED <<design, graph, tries, heap, outputs, asked>>
  BY <1>1 DEF Dealt
<1>2. ASSUME NEW n \in Nodes, TurnOf(n)
      PROVE  /\ outputs'[m] = outputs[m] /\ asked'[m] = asked[m]
             /\ Dealt(m, {"completed"})' <=> Dealt(m, {"completed"})
  <2>1. m # n
    BY <1>2, TurnRecords
  <2>2. Dealt(m, {"completed"})' <=> Dealt(m, {"completed"})
    BY <1>2, <2>1, TurnRecords
  <2>3. outputs'[m] = outputs[m] /\ asked'[m] = asked[m]
    BY <1>2, <2>1 DEF TurnOf
  <2> QED
    BY <2>2, <2>3
<1>3. Dealt(m, {"completed"}) \in BOOLEAN /\ Dealt(m, {"completed"})' \in BOOLEAN
  BY DEF Dealt
<1> QED
  BY <1>1, <1>2, <1>3, StepOrTurn

LEMMA FeedersStay ==
  ASSUME IInv, HeapInv, Acyclic, DOMAIN asked = Nodes, [NodeNext]_<<vars, nodeVars>>, NEW m \in Nodes,
         Dealt(m, Status) \/ TurnOf(m)
  PROVE  FeedersKept(m)
<1>1. \A l \in Into(m) : l.source \in Nodes /\ Dealt(l.source, Status)
  BY FeedersDealt DEF TurnOf
<1> QED
  BY <1>1, DealtStays DEF FeedersKept

\* A mapper that is set up so writes into nothing that comes to it.
LEMMA HeapStays ==
  ASSUME Designed, IInv, HeapInv, ObjectsStay, [NodeNext]_<<vars, nodeVars>>
  PROVE  \A i \in DOMAIN heap : i \in DOMAIN heap' /\ heap'[i] = heap[i]
<1>1. Len(heap) \in Nat /\ Len(heap') \in Nat /\ Len(heap) <= Len(heap')
  <2>1. CASE UNCHANGED heap
    BY <2>1, HeapSize DEF HeapInv, Well
  <2>2. ASSUME NEW n \in Nodes,
               \/ ExecuteInput(n) \/ ExecuteSource(n) \/ ExecuteMerger(n)
               \/ ExecuteSchema(n) \/ ExecuteAi(n) \/ ExecuteTerminal(n) \/ ExecutePassthrough(n)
        PROVE  Len(heap) \in Nat /\ Len(heap') \in Nat /\ Len(heap) <= Len(heap')
    <3>1. Made(n)
      BY <2>2, InputMade, SourceMade, MergerMade, SchemaMade, AiMade, TerminalMade, PassthroughMade
    <3> QED
      BY <2>1, <3>1 DEF Made, Fails, Completes, Grown
  <2>3. ASSUME NEW n \in Nodes, ExecuteMapper(n)
        PROVE  Len(heap) \in Nat /\ Len(heap') \in Nat /\ Len(heap) <= Len(heap')
    <3> DEFINE root == Len(heap) + 1
               new == ApplyRules(Append(heap, KeyedInputs(n)), root, Config(n).rules)
               ports == [out |-> Ref(root)]
    <3>1. Completes(n, new, ports) /\ Len(new) \in Nat /\ Len(heap) <= Len(new)
      BY <2>3, MapperMade
    <3>2. Len(heap) \in Nat
      BY HeapSize DEF HeapInv, Well
    <3> QED
      BY <3>1, <3>2 DEF Completes
  <2>4. CASE ConcludeReport
    BY <2>1, <2>4 DEF ConcludeReport
  <2>5. ASSUME NEW n \in Nodes, Refuse(n) \/ Propagate(n), UNCHANGED nodeVars PROVE UNCHANGED heap
    BY <2>5 DEF nodeVars
  <2>6. CASE (SortNode \/ SortRest \/ LoadConnections) /\ UNCHANGED nodeVars
    BY <2>1, <2>6 DEF nodeVars
  <2>7. CASE UNCHANGED <<vars, nodeVars>>
    BY <2>1, <2>7 DEF nodeVars
  <2> QED
    BY <2>1, <2>2, <2>3, <2>4, <2>5, <2>6, <2>7 DEF NodeNext
<1>2. DOMAIN heap = 1..Len(heap) /\ DOMAIN heap' = 1..Len(heap')
  <2>1. HeapInv'
    BY HeapKept
  <2>2. IsHeap(heap) /\ IsHeap(heap')
    BY <2>1 DEF HeapInv, Well
  <2>3. DOMAIN heap' = 1..Len(heap')
    <3>1. PICK h : h = heap'
      OBVIOUS
    <3>2. DOMAIN h = 1..Len(h)
      BY <2>2, <3>1, HeapSize
    <3> QED
      BY <3>1, <3>2
  <2> QED
    BY <2>2, <2>3, HeapSize
<1>3. ASSUME NEW i \in DOMAIN heap, heap'[i] # heap[i] PROVE FALSE
  <2>1. PICK n \in Nodes : MapperWrites(n)
    BY <1>3, StepKeeps
  <2>2. PICK k \in DOMAIN Config(n).rules : WritesInto(n, ToSet(Ports(n)), k)
    BY <2>1 DEF MapperWrites
  <2> DEFINE possible == {w.link.port : w \in {v \in ToSet(design.wires) : v.link.target = n}}
  <2>3. ToSet(Ports(n)) \subseteq possible
    <3> SUFFICES ASSUME NEW port \in ToSet(Ports(n)) PROVE port \in possible
      OBVIOUS
    <3>1. PICK j \in DOMAIN Arrivals(n) : port = Arrivals(n)[j].link.port
      BY PortsAre
    <3>2. /\ \E x \in DOMAIN design.wires : Arrivals(n)[j] = design.wires[x]
          /\ Arrivals(n)[j].link.target = n
      BY ArrivedAre
    <3> QED
      BY <3>1, <3>2 DEF ToSet
  <2>4. ~WritesInto(n, possible, k)
    BY <2>1 DEF ObjectsStay, MapperWrites
  <2> HIDE DEF possible
  <2> QED
    BY <2>2, <2>3, <2>4 DEF WritesInto
<1> QED
  BY <1>1, <1>2, <1>3

-------------------------------------------------------------------------------
(***************************************************************************)
(* Which value arrives at which port.                                      *)
(***************************************************************************)
LEMMA ChosenOnce ==
  ASSUME NEW s, Len(s) \in Nat, DOMAIN s = 1..Len(s), NEW I \in SUBSET DOMAIN s,
         NEW k \in DOMAIN Chosen(s, I), NEW l \in DOMAIN Chosen(s, I),
         \A i, j \in I : s[i] = s[j] => i = j, Chosen(s, I)[k] = Chosen(s, I)[l]
  PROVE  k = l
<1>1. \A i \in 1..Cardinality(I) : Nth(I, i) \in I /\ Rank(I, Nth(I, i)) = i
  BY Ranked
<1>2. /\ k \in 1..Cardinality(I) /\ l \in 1..Cardinality(I)
      /\ Chosen(s, I)[k] = s[Nth(I, k)] /\ Chosen(s, I)[l] = s[Nth(I, l)]
  BY DEF Chosen
<1>3. Nth(I, k) = Nth(I, l)
  BY <1>1, <1>2
<1> QED
  BY <1>1, <1>2, <1>3

LEMMA ArrivedOnce ==
  ASSUME Designed, NEW n, NEW k \in DOMAIN Arrivals(n), NEW l \in DOMAIN Arrivals(n),
         Arrivals(n)[k] = Arrivals(n)[l]
  PROVE  k = l
<1> DEFINE I == {i \in DOMAIN design.wires :
                   design.wires[i].link.target = n /\ Carries(design.wires[i])}
           wires == design.wires
<1>1. I \in SUBSET DOMAIN wires /\ Arrivals(n) = Chosen(wires, I)
  BY DEF Arrivals
<1>2. \A i, j \in DOMAIN wires : wires[i] = wires[j] => i = j
  BY DesignAssumption DEF Designed, Configured
<1>3. Len(wires) \in Nat /\ DOMAIN wires = 1..Len(wires)
  BY Wired
<1> HIDE DEF I, wires
<1>4. k \in DOMAIN Chosen(wires, I) /\ l \in DOMAIN Chosen(wires, I) /\ Chosen(wires, I)[k] = Chosen(wires, I)[l]
  BY <1>1
<1>5. \A i, j \in I : wires[i] = wires[j] => i = j
  BY <1>1, <1>2
<1> QED
  BY <1>1, <1>3, <1>4, <1>5, ChosenOnce

LEMMA PortsOnce ==
  ASSUME Designed, IInv, NEW n, NEW k \in DOMAIN Ports(n), NEW l \in DOMAIN Ports(n),
         Ports(n)[k] = Ports(n)[l]
  PROVE  k = l
<1> DEFINE came == Arrivals(n)
           at == [i \in DOMAIN came |-> came[i].link.port]
           I == {i \in DOMAIN at : \A j \in 1..(i - 1) : at[j] # at[i]}
<1>1. Len(came) \in Nat /\ DOMAIN came = 1..Len(came)
  BY ArrivedAre
<1>2. Ports(n) = Chosen(at, I)
  BY DEF Ports
<1> HIDE DEF came
<1>3. DOMAIN at = 1..Len(came) /\ at = [i \in 1..Len(came) |-> at[i]]
  BY <1>1
<1> HIDE DEF at
<1>4. Len(at) = Len(came)
  BY <1>1, <1>3, MadeHeap
<1>5. I \in SUBSET DOMAIN at
  OBVIOUS
<1>6. ASSUME NEW i \in I, NEW j \in I, at[i] = at[j] PROVE i = j
  <2>1. i \in 1..Len(came) /\ j \in 1..Len(came)
    BY <1>3, <1>5
  <2>2. (\A x \in 1..(i - 1) : at[x] # at[i]) /\ \A x \in 1..(j - 1) : at[x] # at[j]
    OBVIOUS
  <2>3. i \notin 1..(j - 1) /\ j \notin 1..(i - 1)
    BY <1>6, <2>2
  <2> QED
    BY <1>1, <2>1, <2>3
<1> HIDE DEF I
<1>7. k \in DOMAIN Chosen(at, I) /\ l \in DOMAIN Chosen(at, I) /\ Chosen(at, I)[k] = Chosen(at, I)[l]
  BY <1>2
<1>8. Len(at) \in Nat /\ DOMAIN at = 1..Len(at) /\ \A i, j \in I : at[i] = at[j] => i = j
  BY <1>1, <1>3, <1>4, <1>6
<1> QED
  BY <1>5, <1>7, <1>8, ChosenOnce

\* One value alone at its port.
LEMMA LoneValue ==
  ASSUME Designed, IInv, NEW n, NEW k \in DOMAIN Arrivals(n),
         \A l \in DOMAIN Arrivals(n) \ {k} : Arrivals(n)[l].link.port # Arrivals(n)[k].link.port
  PROVE  LET values == ValuesAt(n, Arrivals(n)[k].link.port)
         IN Len(values) = 1 /\ DOMAIN values = 1..1 /\ values[1] = Value(Arrivals(n)[k])
<1> DEFINE came == Arrivals(n)
           port == came[k].link.port
           I == {i \in DOMAIN came : came[i].link.port = port}
           here == Chosen(came, I)
           values == [i \in DOMAIN here |-> Value(here[i])]
<1>1. Len(came) \in Nat /\ DOMAIN came = 1..Len(came)
  BY ArrivedAre
<1>2. ValuesAt(n, port) = values
  BY DEF ValuesAt, Values
<1>3. I = {k}
  OBVIOUS
<1>4. I \in SUBSET DOMAIN came
  OBVIOUS
<1> HIDE DEF came, port, I
<1>5. Cardinality(I) = 1
  BY <1>3, FS_Singleton
<1>6. /\ DOMAIN here = 1..Cardinality(I)
      /\ \A x \in DOMAIN here : \E i \in I : here[x] = came[i]
  BY <1>1, <1>4, ChosenFrom
<1>7. DOMAIN here = 1..1 /\ here[1] = came[k]
  BY <1>3, <1>5, <1>6
<1> HIDE DEF here
<1>8. DOMAIN values = 1..1 /\ values[1] = Value(came[k]) /\ values = [i \in 1..1 |-> values[i]]
  BY <1>7
<1> HIDE DEF values
<1>9. Len(values) = 1
  BY <1>8, MadeHeap
<1> QED
  BY <1>2, <1>8, <1>9 DEF came, port

LEMMA SinglePart ==
  ASSUME Designed, IInv, HeapInv, NEW n, NEW i \in DOMAIN Ports(n), Len(ValuesAt(n, Ports(n)[i])) = 1
  PROVE  LET value == ValuesAt(n, Ports(n)[i])[1]
         IN /\ value.is = "object" => PortPart(n, i) = heap[value.at] /\ i \in PlainPorts(n) \cap SinglePorts(n)
            /\ value.is # "object" => PortPart(n, i) = Under(n, i, value) /\ i \in SinglePorts(n) \ PlainPorts(n)
<1> DEFINE values == PortValues(n)[i]
<1>1. PortSound(n, i)
  BY PortFacts
<1>2. values = ValuesAt(n, Ports(n)[i]) /\ Len(values) = 1 /\ DOMAIN values = 1..1
  BY <1>1 DEF PortSound
<1>3. /\ DOMAIN PortObjects(n, i) = {j \in DOMAIN values : values[j].is = "object"}
      /\ \A j \in DOMAIN PortObjects(n, i) : PortObjects(n, i)[j] = heap[values[j].at]
  BY <1>1 DEF PortSound
<1> HIDE DEF values
<1>4. i \in SinglePorts(n)
  BY <1>2 DEF SinglePorts, values
<1>5. ASSUME values[1].is = "object"
      PROVE  PortPart(n, i) = heap[values[1].at] /\ i \in PlainPorts(n)
  <2>1. 1 \in DOMAIN PortObjects(n, i) /\ DOMAIN PortObjects(n, i) = DOMAIN values
    BY <1>2, <1>3, <1>5
  <2>2. i \in PlainPorts(n)
    BY <2>1 DEF PlainPorts, values
  <2>3. PortPart(n, i) = PortObjects(n, i)[1]
    BY <1>4, <2>2 DEF PortPart
  <2> QED
    BY <1>3, <2>1, <2>2, <2>3
<1>6. ASSUME values[1].is # "object"
      PROVE  PortPart(n, i) = Under(n, i, values[1]) /\ i \notin PlainPorts(n)
  <2>1. 1 \notin DOMAIN PortObjects(n, i) /\ 1 \in DOMAIN values
    BY <1>2, <1>3, <1>6
  <2>2. i \notin PlainPorts(n)
    BY <2>1 DEF PlainPorts, values
  <2> QED
    BY <1>4, <2>2 DEF PortPart, values
<1> QED
  BY <1>2, <1>4, <1>5, <1>6

\* A key of what a port gives is the port's name, or comes from an object there.
LEMMA PartKeys ==
  ASSUME Designed, IInv, HeapInv, NEW n, NEW i \in DOMAIN Ports(n), NEW key \in DOMAIN PortPart(n, i)
  PROVE  \/ key = Ports(n)[i]
         \/ \E k \in DOMAIN Arrivals(n) :
              /\ Arrivals(n)[k].link.port = Ports(n)[i] /\ Value(Arrivals(n)[k]).is = "object"
              /\ key \in DOMAIN heap[Value(Arrivals(n)[k]).at]
<1> DEFINE port == Ports(n)[i]
           values == PortValues(n)[i]
<1>1. \A value : DOMAIN Under(n, i, value) = {port}
  BY DEF Under
<1>2. CASE i \in PlainPorts(n) \cap SinglePorts(n)
  <2>1. Len(ValuesAt(n, port)) = 1 /\ ValuesAt(n, port) = values
    BY <1>2 DEF SinglePorts, PortValues
  <2>2. PortSound(n, i)
    BY PortFacts
  <2>3. DOMAIN PortObjects(n, i) = DOMAIN values
    BY <1>2 DEF PlainPorts
  <2>4. 1 \in DOMAIN values /\ values[1].is = "object" /\ PortObjects(n, i)[1] = heap[values[1].at]
    BY <2>2, <2>3 DEF PortSound
  <2>5. PortPart(n, i) = PortObjects(n, i)[1]
    BY <1>2 DEF PortPart
  <2>6. \A j \in DOMAIN ValuesAt(n, port) : \E k \in DOMAIN Arrivals(n) :
          Arrivals(n)[k].link.port = port /\ ValuesAt(n, port)[j] = Value(Arrivals(n)[k])
    BY ValuesAtAre
  <2>7. PICK k \in DOMAIN Arrivals(n) :
          Arrivals(n)[k].link.port = port /\ ValuesAt(n, port)[1] = Value(Arrivals(n)[k])
    BY <2>1, <2>4, <2>6
  <2> QED
    BY <2>1, <2>4, <2>5, <2>7
<1>3. CASE i \in PlainPorts(n) \ SinglePorts(n)
  BY <1>1, <1>3 DEF PortPart
<1>4. CASE i \in SinglePorts(n) \ PlainPorts(n)
  BY <1>1, <1>4 DEF PortPart
<1>5. CASE i \notin PlainPorts(n) \cup SinglePorts(n)
  BY <1>1, <1>5 DEF PortPart
<1> QED
  BY <1>2, <1>3, <1>4, <1>5

-------------------------------------------------------------------------------
(***************************************************************************)
(* From the schema to the prompt.                                          *)
(***************************************************************************)
\* A schema node puts out an object that has its schema.
SchemaPut(s) ==
  \E a \in DOMAIN heap : /\ outputs[s] = [schema |-> Ref(a)]
                         /\ "outputSchema" \in DOMAIN heap[a]
                         /\ heap[a]["outputSchema"] = Schema(Config(s).schema)

LEMMA SchemaPuts ==
  ASSUME Designed, IInv, HeapInv, NEW n \in Nodes, ExecuteSchema(n)
  PROVE  SchemaPut(n)'
<1> DEFINE h == Merged(n).heap
           object == Merged(n).object
           wrap == [data |-> Ref(Len(h) + 1), outputSchema |-> Schema(Config(n).schema)]
           t == <<object, wrap>>
           new == h \o t
           ports == [schema |-> Ref(Len(h) + 2)]
<1>1. Completes(n, new, ports) /\ UNCHANGED design
  BY DEF ExecuteSchema, Runs
<1>2. Grown(heap, h)
  BY MergedGrown
<1>3. IsHeap(t) /\ Len(t) = 2
  BY TupleHeaps
<1>4. DOMAIN t = 1..2 /\ t[2] = wrap
  OBVIOUS
<1>5. "outputSchema" \in DOMAIN wrap /\ wrap["outputSchema"] = Schema(Config(n).schema)
  OBVIOUS
<1> HIDE DEF h, object, wrap, t
<1>6. IsHeap(h) /\ Len(h) \in Nat
  BY <1>2 DEF Grown, Well
<1>7. \A i \in DOMAIN t : Len(h) + i \in DOMAIN new /\ new[Len(h) + i] = t[i]
  BY <1>3, <1>6, HeapJoin
<1>8. Len(h) + 2 \in DOMAIN new /\ new[Len(h) + 2] = wrap
  BY <1>4, <1>7
<1>9. outputs'[n] = ports /\ heap' = new
  BY <1>1 DEF Completes, HeapInv
<1>10. Config(n)' = Config(n)
  BY <1>1 DEF Config
<1> HIDE DEF new
<1>11. PICK a : a = Len(h) + 2
  OBVIOUS
<1>12. /\ a \in DOMAIN heap' /\ outputs'[n] = [schema |-> Ref(a)]
       /\ "outputSchema" \in DOMAIN heap'[a] /\ heap'[a]["outputSchema"] = Schema(Config(n)'.schema)
  BY <1>5, <1>8, <1>9, <1>10, <1>11
<1> QED
  BY <1>12 DEF SchemaPut

\* A schema that is alone at its port, with no other around, goes into the prompt.
LEMMA SchemaRead ==
  ASSUME Designed, IInv, HeapInv, NEW n, NEW k \in DOMAIN Arrivals(n),
         SchemaPut(Arrivals(n)[k].link.source),
         \A l \in DOMAIN Arrivals(n) \ {k} :
           LET v == Arrivals(n)[l]
           IN /\ v.link.port \notin {Arrivals(n)[k].link.port, "outputSchema"}
              /\ Value(v).is = "object" => "outputSchema" \notin DOMAIN heap[Value(v).at]
  PROVE  SchemaFor(n, Merged(n)) = Config(Arrivals(n)[k].link.source).schema
<1> DEFINE w == Arrivals(n)[k]
           fields == Config(w.link.source).schema
<1>1. PICK a \in DOMAIN heap : /\ outputs[w.link.source] = [schema |-> Ref(a)]
                               /\ "outputSchema" \in DOMAIN heap[a]
                               /\ heap[a]["outputSchema"] = Schema(fields)
  BY DEF SchemaPut
<1>2. w.from \in DOMAIN outputs[w.link.source]
  BY ArrivedAre
<1>3. Value(w) = Ref(a)
  BY <1>1, <1>2 DEF Value
<1>4. Value(w).is = "object" /\ Value(w).at = a
  BY <1>3 DEF Ref
<1>5. \A l \in DOMAIN Arrivals(n) \ {k} : Arrivals(n)[l].link.port # w.link.port
  OBVIOUS
<1>6. Len(ValuesAt(n, w.link.port)) = 1 /\ ValuesAt(n, w.link.port)[1] = Value(w)
  BY <1>5, LoneValue
<1>7. w.link.port \in ToSet(Ports(n))
  BY PortsAre
<1>8. PICK i \in DOMAIN Ports(n) : Ports(n)[i] = w.link.port
  BY <1>7 DEF ToSet
<1>9. PortPart(n, i) = heap[a]
  <2>1. Len(ValuesAt(n, Ports(n)[i])) = 1 /\ ValuesAt(n, Ports(n)[i])[1] = Value(w)
    BY <1>6, <1>8
  <2>2. ValuesAt(n, Ports(n)[i])[1].is = "object" =>
          PortPart(n, i) = heap[ValuesAt(n, Ports(n)[i])[1].at] /\ i \in PlainPorts(n) \cap SinglePorts(n)
    BY <2>1, SinglePart
  <2> QED
    BY <1>4, <2>1, <2>2
<1>10. ASSUME NEW j \in DOMAIN Ports(n), "outputSchema" \in DOMAIN PortPart(n, j) PROVE j = i
  <2>1. SUFFICES ASSUME j # i PROVE FALSE
    OBVIOUS
  <2>2. Ports(n)[j] # w.link.port
    BY <1>8, <2>1, PortsOnce
  <2>3. CASE "outputSchema" = Ports(n)[j]
    <3>1. Ports(n)[j] \in ToSet(Ports(n))
      BY DEF ToSet
    <3>2. PICK l \in DOMAIN Arrivals(n) : Arrivals(n)[l].link.port = Ports(n)[j]
      BY <3>1, PortsAre
    <3> QED
      BY <2>2, <2>3, <3>2
  <2>4. ASSUME NEW l \in DOMAIN Arrivals(n), Arrivals(n)[l].link.port = Ports(n)[j],
               Value(Arrivals(n)[l]).is = "object",
               "outputSchema" \in DOMAIN heap[Value(Arrivals(n)[l]).at]
        PROVE  FALSE
    BY <2>2, <2>4
  <2> QED
    BY <1>10, <2>3, <2>4, PartKeys
<1> HIDE DEF fields, w
<1> DEFINE parts == PortParts(n)
           m == Len(Ports(n))
<1>11. m \in Nat /\ DOMAIN parts = 1..m /\ DOMAIN Ports(n) = 1..m
       /\ \A j \in DOMAIN Ports(n) : parts[j] = PortPart(n, j)
  BY PortsAre DEF PortParts
<1> HIDE DEF parts, m
<1>12. /\ DOMAIN Assigned(parts) = UNION {DOMAIN parts[j] : j \in DOMAIN parts}
       /\ \A key \in DOMAIN Assigned(parts) : \E j \in DOMAIN parts :
            /\ key \in DOMAIN parts[j] /\ Assigned(parts)[key] = parts[j][key]
            /\ \A x \in DOMAIN parts : key \in DOMAIN parts[x] => x <= j
  BY <1>11, AssignedIs
<1>13. "outputSchema" \in DOMAIN Assigned(parts)
  BY <1>1, <1>9, <1>11, <1>12
<1>14. PICK j \in DOMAIN parts :
         "outputSchema" \in DOMAIN parts[j] /\ Assigned(parts)["outputSchema"] = parts[j]["outputSchema"]
  BY <1>12, <1>13
<1>15. Assigned(parts)["outputSchema"] = Schema(fields)
  BY <1>1, <1>9, <1>10, <1>11, <1>14
<1>16. Merged(n).object = Assigned(parts)
  BY MergedParts DEF parts
<1>17. Key(Merged(n).object, "outputSchema") = Schema(fields)
  BY <1>13, <1>15, <1>16 DEF Key
<1>18. Schema(fields).is = "schema" /\ Schema(fields).fields = fields /\ Schema(fields) # Undefined
  BY DEF Schema, Undefined
<1>19. SchemaFor(n, Merged(n)) = fields
  BY <1>17, <1>18 DEF SchemaFor
<1> QED
  BY <1>19 DEF fields, w

\* What has arrived at a node that is dealt with, or whose turn it is.
LEMMA ArrivedStays ==
  ASSUME Designed, IInv, HeapInv, Acyclic, ObjectsStay, DOMAIN asked = Nodes,
         [NodeNext]_<<vars, nodeVars>>, NEW m \in Nodes, Dealt(m, Status) \/ TurnOf(m)
  PROVE  /\ Arrivals(m)' = Arrivals(m) /\ UNCHANGED <<design, graph>>
         /\ \A k \in DOMAIN Arrivals(m) :
              LET w == Arrivals(m)[k]
              IN /\ outputs'[w.link.source][w.from] = Value(w)
                 /\ Value(w).is = "object" =>
                      /\ Value(w).at \in DOMAIN heap /\ Value(w).at \in DOMAIN heap'
                      /\ heap'[Value(w).at] = heap[Value(w).at]
<1>1. UNCHANGED <<design, graph>>
  <2>1. CASE UNCHANGED <<design, graph, tries, heap, outputs, asked>>
    BY <2>1
  <2>2. ASSUME NEW n \in Nodes, TurnOf(n) PROVE UNCHANGED <<design, graph>>
    BY <2>2 DEF TurnOf
  <2> QED
    BY <2>1, <2>2, StepOrTurn
<1>2. FeedersKept(m)
  BY FeedersStay
<1>3. /\ Arrivals(m)' = Arrivals(m)
      /\ \A k \in DOMAIN Arrivals(m) :
           outputs'[Arrivals(m)[k].link.source] = outputs[Arrivals(m)[k].link.source]
  BY <1>1, <1>2, ArrivalsKept
<1>4. ASSUME NEW k \in DOMAIN Arrivals(m)
      PROVE  LET w == Arrivals(m)[k]
             IN /\ outputs'[w.link.source][w.from] = Value(w)
                /\ Value(w).is = "object" =>
                     /\ Value(w).at \in DOMAIN heap /\ Value(w).at \in DOMAIN heap'
                     /\ heap'[Value(w).at] = heap[Value(w).at]
  <2>1. PICK w : w = Arrivals(m)[k]
    OBVIOUS
  <2>2. Refers(Value(w), Len(heap))
    BY <2>1, ValueRefers
  <2>3. DOMAIN heap = 1..Len(heap)
    BY HeapSize DEF HeapInv, Well
  <2>4. \A i \in DOMAIN heap : i \in DOMAIN heap' /\ heap'[i] = heap[i]
    BY HeapStays
  <2>5. outputs'[w.link.source][w.from] = Value(w)
    BY <1>3, <2>1 DEF Value
  <2>6. Value(w).is = "object" => Value(w).at \in DOMAIN heap
    BY <2>2, <2>3 DEF Refers
  <2> QED
    BY <2>1, <2>4, <2>5, <2>6
<1> QED
  BY <1>1, <1>3, <1>4

LEMMA ExecutorStays ==
  ASSUME UNCHANGED <<design, graph>>
  PROVE  /\ (Acyclic' <=> Acyclic) /\ (ObjectsStay' <=> ObjectsStay)
         /\ \A n : Executor(n)' = Executor(n) /\ Config(n)' = Config(n)
<1>1. \A n : Executor(n)' = Executor(n) /\ Config(n)' = Config(n)
  BY DEF Executor, Config
<1>2. \A n, ports, i : WritesInto(n, ports, i)' <=> WritesInto(n, ports, i)
  BY <1>1 DEF WritesInto
<1> DEFINE into(n) == {w.link.port : w \in {v \in ToSet(design.wires) : v.link.target = n}}
<1>3. \A n : into(n)' = into(n)
  OBVIOUS
<1>4. (ObjectsStay <=> \A n \in Nodes : Executor(n) = "mapper" =>
         \A i \in DOMAIN Config(n).rules : ~WritesInto(n, into(n), i))
  BY DEF ObjectsStay
<1>5. (ObjectsStay' <=> \A n \in Nodes : Executor(n)' = "mapper" =>
         \A i \in DOMAIN Config(n)'.rules : ~WritesInto(n, into(n), i)')
  BY DEF ObjectsStay
<1> HIDE DEF into
<1>6. ObjectsStay' <=> ObjectsStay
  BY <1>1, <1>2, <1>3, <1>4, <1>5
<1>7. Acyclic' <=> Acyclic
  BY DEF Acyclic, Into
<1> QED
  BY <1>1, <1>6, <1>7

-------------------------------------------------------------------------------
(***************************************************************************)
(* The AI nodes that were asked, for the fields that reached them.         *)
(***************************************************************************)
Asked(a) == asked[a].as # "not asked" => Dealt(a, {"completed"}) /\ Executor(a) = "ai"

\* The fields of the schema at one of the ports, unless another value interferes.
AskedFor(a, w) ==
  \/ asked[a].fields = Config(w.link.source).schema
  \/ \E v \in ToSet(Arrivals(a)) \ {w} :
       \/ v.link.port \in {w.link.port, "outputSchema"}
       \/ Value(v).is = "object" /\ "outputSchema" \in DOMAIN heap[Value(v).at]

SchemaArrived(a) ==
  asked[a].as # "not asked" =>
    \A w \in ToSet(Arrivals(a)) : Executor(w.link.source) = "schema" => AskedFor(a, w)

SchemaLeft(s) == Executor(s) = "schema" /\ Dealt(s, {"completed"}) => SchemaPut(s)

AskedInv ==
  /\ DOMAIN asked = Nodes
  /\ \A n \in Nodes : Asked(n)
  /\ Acyclic /\ ObjectsStay => \A n \in Nodes : SchemaLeft(n) /\ SchemaArrived(n)

\* Nothing changes for a node that is dealt with.
LEMMA AskedStays ==
  ASSUME Designed, IInv, HeapInv, Acyclic, ObjectsStay, DOMAIN asked = Nodes,
         [NodeNext]_<<vars, nodeVars>>, NEW m \in Nodes, Dealt(m, Status)
  PROVE  /\ SchemaLeft(m) => SchemaLeft(m)'
         /\ SchemaArrived(m) => SchemaArrived(m)'
<1>1. /\ outputs'[m] = outputs[m] /\ asked'[m] = asked[m]
      /\ Dealt(m, {"completed"})' = Dealt(m, {"completed"})
  BY DealtStays
<1>2. Arrivals(m)' = Arrivals(m) /\ UNCHANGED <<design, graph>>
  BY ArrivedStays
<1>3. \A n : Executor(n)' = Executor(n) /\ Config(n)' = Config(n)
  BY <1>2, ExecutorStays
<1>4. \A i \in DOMAIN heap : i \in DOMAIN heap' /\ heap'[i] = heap[i]
  BY HeapStays
<1>5. ASSUME SchemaLeft(m) PROVE SchemaLeft(m)'
  <2>1. SchemaPut(m) => SchemaPut(m)'
    BY <1>1, <1>3, <1>4 DEF SchemaPut
  <2> QED
    BY <1>1, <1>3, <1>5, <2>1 DEF SchemaLeft
<1>6. ASSUME SchemaArrived(m) PROVE SchemaArrived(m)'
  <2> SUFFICES ASSUME asked[m].as # "not asked", NEW w \in ToSet(Arrivals(m)),
                      Executor(w.link.source) = "schema"
               PROVE  AskedFor(m, w)'
    BY <1>1, <1>2, <1>3 DEF SchemaArrived
  <2>1. AskedFor(m, w)
    BY <1>6 DEF SchemaArrived
  <2>2. CASE asked[m].fields = Config(w.link.source).schema
    BY <1>1, <1>3, <2>2 DEF AskedFor
  <2>3. ASSUME NEW v \in ToSet(Arrivals(m)) \ {w},
               \/ v.link.port \in {w.link.port, "outputSchema"}
               \/ Value(v).is = "object" /\ "outputSchema" \in DOMAIN heap[Value(v).at]
        PROVE  AskedFor(m, w)'
    <3>1. PICK k \in DOMAIN Arrivals(m) : v = Arrivals(m)[k]
      BY DEF ToSet
    <3>2. /\ outputs'[v.link.source][v.from] = Value(v)
          /\ Value(v).is = "object" => heap'[Value(v).at] = heap[Value(v).at]
      BY <3>1, ArrivedStays
    <3>3. Value(v)' = Value(v)
      BY <3>2 DEF Value
    <3> QED
      BY <1>2, <2>3, <3>2, <3>3 DEF AskedFor
  <2> QED
    BY <2>1, <2>2, <2>3 DEF AskedFor
<1> QED
  BY <1>5, <1>6

\* An AI node that is asked for the fields of the schema it was given.
LEMMA AskedNow ==
  ASSUME Designed, IInv, HeapInv, AskedInv, Acyclic, ObjectsStay, [NodeNext]_<<vars, nodeVars>>,
         NEW n \in Nodes, TurnOf(n), ExecuteAi(n), Record(n, "completed", FALSE)
  PROVE  SchemaArrived(n)'
<1> DEFINE in == Merged(n)
           fields == SchemaFor(n, in)
<1>2. asked[n].as = "not asked"
  <2>1. ~Dealt(n, {"completed"})
    BY TurnRecords
  <2> QED
    BY <2>1 DEF AskedInv, Asked
<1>3. asked'[n].as = "not asked" \/ asked'[n].fields = fields
  <2>1. DOMAIN asked = Nodes
    BY DEF AskedInv
  <2> HIDE DEF fields
  <2>2. CASE asked' = asked
    BY <1>2, <2>2
  <2>3. ASSUME NEW as, asked' = [asked EXCEPT ![n] = [fields |-> fields, as |-> as]]
        PROVE  asked'[n].fields = fields
    <3>1. asked'[n] = [fields |-> fields, as |-> as]
      BY <2>1, <2>3
    <3> QED
      BY <3>1
  <2>4. asked' = asked \/ \E as : asked' = [asked EXCEPT ![n] = [fields |-> fields, as |-> as]]
    BY DEF ExecuteAi, fields
  <2> QED
    BY <2>2, <2>3, <2>4
<1>4. DOMAIN asked = Nodes
  BY DEF AskedInv
<1>5. Arrivals(n)' = Arrivals(n) /\ UNCHANGED <<design, graph>>
  BY <1>4, ArrivedStays
<1>6. \A m : Executor(m)' = Executor(m) /\ Config(m)' = Config(m)
  BY <1>5, ExecutorStays
<1> HIDE DEF in
<1> SUFFICES ASSUME asked'[n].as # "not asked", NEW w \in ToSet(Arrivals(n)),
                    Executor(w.link.source) = "schema"
             PROVE  AskedFor(n, w)'
  BY <1>5, <1>6 DEF SchemaArrived
<1>7. asked'[n].fields = fields
  BY <1>3
<1>8. PICK k \in DOMAIN Arrivals(n) : w = Arrivals(n)[k]
  BY DEF ToSet
<1>9. Carries(w) /\ w.link.source \in Nodes
  BY <1>8, ArrivedAre
<1>10. SchemaPut(w.link.source)
  BY <1>9 DEF Carries, AskedInv, SchemaLeft
<1>11. CASE \A l \in DOMAIN Arrivals(n) \ {k} :
              LET v == Arrivals(n)[l]
              IN /\ v.link.port \notin {Arrivals(n)[k].link.port, "outputSchema"}
                 /\ Value(v).is = "object" => "outputSchema" \notin DOMAIN heap[Value(v).at]
  <2>1. SchemaFor(n, Merged(n)) = Config(Arrivals(n)[k].link.source).schema
    BY <1>8, <1>10, <1>11, SchemaRead
  <2>2. fields = Config(w.link.source).schema
    BY <1>8, <2>1 DEF in
  <2> QED
    BY <1>6, <1>7, <2>2 DEF AskedFor
<1>12. ASSUME NEW l \in DOMAIN Arrivals(n) \ {k},
              \/ Arrivals(n)[l].link.port \in {Arrivals(n)[k].link.port, "outputSchema"}
              \/ /\ Value(Arrivals(n)[l]).is = "object"
                 /\ "outputSchema" \in DOMAIN heap[Value(Arrivals(n)[l]).at]
       PROVE  AskedFor(n, w)'
  <2>1. PICK v : v = Arrivals(n)[l]
    OBVIOUS
  <2>2. v \in ToSet(Arrivals(n)) /\ v # w
    BY <1>8, <2>1, ArrivedOnce DEF ToSet
  <2>3. /\ outputs'[v.link.source][v.from] = Value(v)
        /\ Value(v).is = "object" => heap'[Value(v).at] = heap[Value(v).at]
    BY <1>4, <2>1, ArrivedStays
  <2>4. Value(v)' = Value(v)
    BY <2>3 DEF Value
  <2> QED
    BY <1>5, <1>8, <1>12, <2>1, <2>2, <2>3, <2>4 DEF AskedFor
<1> QED
  BY <1>11, <1>12

LEMMA AskedKept ==
  ASSUME Designed, IInv, HeapInv, AskedInv, [NodeNext]_<<vars, nodeVars>>
  PROVE  AskedInv'
<1>1. CASE UNCHANGED <<design, graph, tries, heap, outputs, asked>>
  <2>1. /\ (Acyclic' <=> Acyclic) /\ (ObjectsStay' <=> ObjectsStay)
        /\ \A n : Executor(n)' = Executor(n) /\ Config(n)' = Config(n)
    BY <1>1, ExecutorStays
  <2>2. \A n : Dealt(n, {"completed"})' <=> Dealt(n, {"completed"})
    BY <1>1 DEF Dealt
  <2>3. \A n : Arrivals(n)' = Arrivals(n)
    BY <1>1 DEF Arrivals, Carries, Dealt
  <2>4. \A n : (Asked(n)' <=> Asked(n)) /\ (SchemaLeft(n)' <=> SchemaLeft(n))
    BY <1>1, <2>1, <2>2 DEF Asked, SchemaLeft, SchemaPut
  <2>5. \A n, w : AskedFor(n, w)' <=> AskedFor(n, w)
    BY <1>1, <2>1, <2>3 DEF AskedFor, Value
  <2>6. \A n : SchemaArrived(n)' <=> SchemaArrived(n)
    BY <1>1, <2>1, <2>3, <2>5 DEF SchemaArrived
  <2> QED
    BY <1>1, <2>1, <2>4, <2>6 DEF AskedInv
<1>2. ASSUME NEW n \in Nodes, TurnOf(n) PROVE AskedInv'
  <2>1. DOMAIN asked = Nodes /\ UNCHANGED <<design, graph>>
    BY <1>2 DEF AskedInv, TurnOf
  <2>2. /\ (Acyclic' <=> Acyclic) /\ (ObjectsStay' <=> ObjectsStay)
        /\ \A m : Executor(m)' = Executor(m) /\ Config(m)' = Config(m)
    BY <2>1, ExecutorStays
  <2>3. /\ ~Dealt(n, {"completed"})
        /\ \A m \in Nodes \ {n} : Dealt(m, {"completed"})' <=> Dealt(m, {"completed"})
    BY <1>2, TurnRecords
  <2>4. asked[n].as = "not asked"
    BY <2>3 DEF AskedInv, Asked
  <2>5. ASSUME NEW m \in Nodes \ {n} PROVE Asked(m)'
    <3>1. asked'[m] = asked[m]
      BY <1>2 DEF TurnOf
    <3> QED
      BY <2>2, <2>3, <3>1 DEF AskedInv, Asked
  <2>6. ASSUME NEW m \in Nodes \ {n}, Acyclic, ObjectsStay PROVE SchemaLeft(m)' /\ SchemaArrived(m)'
    <3>1. CASE Dealt(m, Status)
      BY <2>1, <2>6, <3>1, AskedStays DEF AskedInv
    <3>2. CASE ~Dealt(m, Status)
      <4>1. ~Dealt(m, {"completed"}) /\ ~Dealt(m, {"completed"})'
        BY <2>3, <3>2, CompletedIsDealt
      <4>2. asked'[m].as = "not asked"
        BY <2>5, <4>1 DEF Asked
      <4> QED
        BY <4>1, <4>2 DEF SchemaLeft, SchemaArrived
    <3> QED
      BY <3>1, <3>2
  <2>7. ASSUME NEW status \in Status \ {"completed"}, NEW own, Record(n, status, own),
               UNCHANGED <<heap, outputs, asked>>
        PROVE  /\ DOMAIN asked' = Nodes /\ Asked(n)'
               /\ SchemaLeft(n)' /\ SchemaArrived(n)'
    <3>1. ~Dealt(n, {"completed"})'
      <4>1. \A S : Dealt(n, S)' <=> status \in S
        BY <1>2, <2>7, Recorded DEF TurnOf
      <4> QED
        BY <4>1
    <3> QED
      BY <2>1, <2>4, <2>7, <3>1 DEF Asked, SchemaLeft, SchemaArrived
  <2>8. ASSUME Record(n, "completed", FALSE),
               DOMAIN asked' = DOMAIN asked,
               \/ ExecuteInput(n) \/ ExecuteSource(n) \/ ExecuteMapper(n) \/ ExecuteMerger(n)
               \/ ExecuteSchema(n) \/ ExecuteAi(n) \/ ExecuteTerminal(n) \/ ExecutePassthrough(n)
        PROVE  /\ DOMAIN asked' = Nodes /\ Asked(n)'
               /\ Acyclic /\ ObjectsStay => SchemaLeft(n)' /\ SchemaArrived(n)'
    <3>1. Dealt(n, {"completed"})'
      <4>1. \A S : Dealt(n, S)' <=> "completed" \in S
        BY <1>2, <2>8, Recorded DEF TurnOf
      <4> QED
        BY <4>1
    <3>2. CASE ExecuteAi(n)
      <4>1. Executor(n) = "ai"
        BY <3>2 DEF ExecuteAi, Runs
      <4>2. Asked(n)' /\ SchemaLeft(n)'
        BY <2>2, <3>1, <4>1 DEF Asked, SchemaLeft
      <4>3. Acyclic /\ ObjectsStay => SchemaArrived(n)'
        BY <1>2, <2>8, <3>2, AskedNow
      <4> QED
        BY <2>1, <2>8, <4>2, <4>3
    <3>3. CASE ExecuteSchema(n)
      <4>1. SchemaPut(n)' /\ asked' = asked
        BY <3>3, SchemaPuts DEF ExecuteSchema
      <4> QED
        BY <2>1, <2>4, <4>1 DEF Asked, SchemaLeft, SchemaArrived
    <3>4. CASE \/ ExecuteInput(n) \/ ExecuteSource(n) \/ ExecuteMapper(n) \/ ExecuteMerger(n)
               \/ ExecuteTerminal(n) \/ ExecutePassthrough(n)
      <4>1. asked' = asked /\ Executor(n) # "schema"
        BY <3>4 DEF ExecuteInput, ExecuteSource, ExecuteMapper, ExecuteMerger, ExecuteTerminal,
                    ExecutePassthrough, Runs
      <4> QED
        BY <2>1, <2>2, <2>4, <4>1 DEF Asked, SchemaLeft, SchemaArrived
    <3> QED
      BY <2>8, <3>2, <3>3, <3>4
  <2>9. /\ DOMAIN asked' = Nodes /\ Asked(n)'
        /\ Acyclic /\ ObjectsStay => SchemaLeft(n)' /\ SchemaArrived(n)'
    BY <1>2, <2>7, <2>8 DEF TurnOf
  <2> QED
    BY <2>2, <2>5, <2>6, <2>9 DEF AskedInv
<1>3. DOMAIN asked = Nodes
  BY DEF AskedInv
<1> QED
  BY <1>1, <1>2, <1>3, StepOrTurn

LEMMA AskedInit == NodeInit => AskedInv
<1> SUFFICES ASSUME NodeInit PROVE AskedInv
  OBVIOUS
<1>1. /\ asked = [n \in Nodes |-> [fields |-> <<>>, as |-> "not asked"]] /\ tries = <<>>
  BY DEF NodeInit, Init
<1>2. \A n \in Nodes : asked[n].as = "not asked" /\ ~Dealt(n, {"completed"})
  <2>1. DOMAIN tries = {}
    <3>1. Len(tries) = 0 /\ tries \in Seq({})
      BY <1>1, EmptySeq
    <3> QED
      BY <3>1, LenProperties
  <2>2. \A n : ~Dealt(n, {"completed"})
    BY <2>1 DEF Dealt
  <2> QED
    BY <1>1, <2>2
<1> QED
  BY <1>1, <1>2 DEF AskedInv, Asked, SchemaLeft, SchemaArrived

-------------------------------------------------------------------------------
(***************************************************************************)
(* From the prompt to the answer.                                          *)
(***************************************************************************)
\* Fields that can be told apart, by their keys and by their labels.
Distinct(fields) ==
  /\ \A i, j \in DOMAIN fields : fields[i].key = fields[j].key => i = j
  /\ \A i \in DOMAIN fields : fields[i].key \in DOMAIN Label

Keys(fields) == {fields[i].key : i \in DOMAIN fields}

\* A value that a model gives to a field.
Stands(field, value) ==
  IF field.type = "column_chart" THEN value.is = "object" ELSE value = Text(field.key)

\* The object that has such values under the keys of the fields, or their labels.
ByKey(object, fields) ==
  /\ DOMAIN object = Keys(fields)
  /\ \A i \in DOMAIN fields : Stands(fields[i], object[fields[i].key])

ByLabel(object, fields) ==
  /\ DOMAIN object = {Label[key] : key \in Keys(fields)}
  /\ \A i \in DOMAIN fields : Stands(fields[i], object[Label[fields[i].key]])

LEMMA SchemasDistinct ==
  /\ \A fields \in NodeSchemas : Distinct(fields)
  /\ Distinct(<<>>)
<1>1. ASSUME NEW fields \in NodeSchemas PROVE Distinct(fields)
  <2>1. PICK d \in Designs, m \in Nodes : fields = d.node[m].schema
    BY DEF NodeSchemas
  <2>2. \A i, j \in DOMAIN fields : fields[i].key = fields[j].key => i = j
    BY <2>1, DesignAssumption DEF Configured, SchemaFields
  <2>3. \A i \in DOMAIN fields : fields[i].key \in DOMAIN Label
    BY <2>1, LabelAssumption
  <2> QED
    BY <2>2, <2>3 DEF Distinct
<1>2. Distinct(<<>>)
  <2>1. DOMAIN <<>> = {}
    BY EmptySeq, LenProperties
  <2> QED
    BY <2>1 DEF Distinct
<1> QED
  BY <1>1, <1>2

\* The fields that an AI node is asked for can be told apart.
LEMMA AskedDistinct ==
  ASSUME Designed, IInv, HeapInv, NEW n \in Nodes
  PROVE  Distinct(SchemaFor(n, Merged(n)))
<1> DEFINE h == Merged(n).heap
           object == Merged(n).object
           under == Key(object, "schema")
           below == Follow(h, under, "outputSchema")
           own == Key(object, "outputSchema")
           first == IF own # Undefined THEN own ELSE below
<1>1. SchemaFor(n, Merged(n)) =
        CASE first = Undefined -> Config(n).schema
          [] first.is = "schema" -> first.fields
          [] OTHER -> <<>>
  BY DEF SchemaFor
<1>2. Grown(heap, h) /\ Referring(object, Len(h))
  BY MergedGrown
<1> HIDE DEF h, object
<1>3. IsHeap(h) /\ Sounds(h, Len(h)) /\ Len(h) \in Nat
  BY <1>2 DEF Grown, Well
<1>4. Refers(own, Len(h)) /\ Refers(under, Len(h))
  BY <1>2, <1>3, RefersPlain DEF Key, Referring
<1> HIDE DEF own, under
<1>5. Refers(below, Len(h))
  BY <1>3, <1>4, FollowRefers
<1> HIDE DEF below
<1>6. Refers(first, Len(h))
  BY <1>4, <1>5
<1> HIDE DEF first
<1>7. first.is = "schema" => first.fields \in NodeSchemas /\ first # Undefined
  BY <1>6 DEF Refers, Undefined
<1>8. Config(n).schema \in NodeSchemas
  BY DEF Config, Designed, NodeSchemas
<1>9. SchemaFor(n, Merged(n)) \in NodeSchemas \cup {<<>>}
  <2>1. CASE first = Undefined
    <3>1. first.is # "schema"
      BY <2>1 DEF Undefined
    <3> QED
      BY <1>1, <1>8, <2>1, <3>1
  <2>2. CASE first.is = "schema"
    BY <1>1, <1>7, <2>2
  <2>3. CASE first # Undefined /\ first.is # "schema"
    BY <1>1, <2>3
  <2> QED
    BY <2>1, <2>2, <2>3
<1> QED
  BY <1>9, SchemasDistinct

LEMMA AnswerForms ==
  ASSUME NEW fields, Distinct(fields), NEW base \in Nat, NEW answer \in Answers(fields, base),
         answer.as \in {"exact", "labelled", "wrapped"}
  PROVE  \E object, chart, value :
           /\ answer.objects = <<object, chart, value>>
           /\ ByKey(value, fields)
           /\ answer.as = "exact" => object = value
           /\ answer.as = "labelled" => ByLabel(object, fields)
           /\ answer.as = "wrapped" => object = [in |-> Ref(base + 3)]
<1> DEFINE keys == {fields[i].key : i \in DOMAIN fields}
           Chart(key) == \E i \in DOMAIN fields : fields[i].key = key /\ fields[i].type = "column_chart"
           value == [key \in keys |-> IF Chart(key) THEN Ref(base + 2) ELSE Text(key)]
           labelled == [l \in {Label[key] : key \in keys} |->
                          value[CHOOSE key \in keys : Label[key] = l]]
           chart == [labels |-> List(<<Text("x")>>)]
           wrapped == [in |-> Ref(base + 3)]
           other == [insight |-> Text("insight")]
           Formed(object, as) == [objects |-> <<object, chart, value>>, as |-> as]
<1>0. answer \in {Formed(value, "exact"), Formed(labelled, "labelled"),
                  Formed(wrapped, "wrapped"), Formed(other, "other")}
  BY DEF Answers
<1>1. keys = Keys(fields) /\ \A i \in DOMAIN fields : fields[i].key \in keys
  BY DEF Keys
<1>2. ASSUME NEW i \in DOMAIN fields PROVE Stands(fields[i], value[fields[i].key])
  <2>1. Chart(fields[i].key) <=> fields[i].type = "column_chart"
    BY DEF Distinct
  <2>2. value[fields[i].key] = IF Chart(fields[i].key) THEN Ref(base + 2) ELSE Text(fields[i].key)
    BY <1>1
  <2> HIDE DEF Chart, value
  <2> QED
    BY <2>1, <2>2 DEF Stands, Ref
<1>3. DOMAIN value = keys
  OBVIOUS
<1>4. ByKey(value, fields)
  <2> HIDE DEF value, keys
  <2> QED
    BY <1>1, <1>2, <1>3 DEF ByKey
<1>5. ByLabel(labelled, fields)
  <2>1. ASSUME NEW key \in keys PROVE labelled[Label[key]] = value[key]
    <3>1. \A k \in keys : Label[k] = Label[key] => k = key
      <4>1. keys \subseteq DOMAIN Label
        BY DEF Distinct
      <4> QED
        BY <4>1, LabelAssumption
    <3> HIDE DEF value, keys
    <3>2. (CHOOSE k \in keys : Label[k] = Label[key]) = key
      BY <3>1
    <3>3. labelled[Label[key]] = value[CHOOSE k \in keys : Label[k] = Label[key]]
      OBVIOUS
    <3> QED
      BY <3>2, <3>3
  <2>2. DOMAIN labelled = {Label[key] : key \in keys}
    OBVIOUS
  <2> HIDE DEF value, keys, labelled
  <2>3. \A i \in DOMAIN fields : Stands(fields[i], labelled[Label[fields[i].key]])
    BY <1>1, <1>2, <2>1
  <2> QED
    BY <1>1, <2>2, <2>3 DEF ByLabel
<1> HIDE DEF value, labelled, chart, other, keys
<1>6. \/ answer.as = "exact" /\ answer.objects = <<value, chart, value>>
      \/ answer.as = "labelled" /\ answer.objects = <<labelled, chart, value>>
      \/ answer.as = "wrapped" /\ answer.objects = <<wrapped, chart, value>>
  BY <1>0
<1> QED
  BY <1>4, <1>5, <1>6


\* An AI node that was asked puts out an object with the fields, unless its
\* model answered with something else or there is just one field with the name
\* of a port.
AnswerLeft(a) ==
  asked[a].as # "not asked" =>
    LET fields == asked[a].fields
    IN /\ Distinct(fields)
       /\ asked[a].as \in {"exact", "labelled", "wrapped", "other"}
       /\ asked[a].as # "other" /\ (\A port \in PortNames : Keys(fields) # {port}) =>
            \E u \in DOMAIN heap : /\ outputs[a] = [result |-> Ref(u)]
                                   /\ ByKey(heap[u], fields) \/ ByLabel(heap[u], fields)

LEMMA AnswerKinds ==
  ASSUME NEW fields, NEW base, NEW answer \in Answers(fields, base)
  PROVE  answer.as \in {"exact", "labelled", "wrapped", "other"}
<1> DEFINE keys == {fields[i].key : i \in DOMAIN fields}
           Chart(key) == \E i \in DOMAIN fields : fields[i].key = key /\ fields[i].type = "column_chart"
           value == [key \in keys |-> IF Chart(key) THEN Ref(base + 2) ELSE Text(key)]
           labelled == [l \in {Label[key] : key \in keys} |->
                          value[CHOOSE key \in keys : Label[key] = l]]
           chart == [labels |-> List(<<Text("x")>>)]
           wrapped == [in |-> Ref(base + 3)]
           other == [insight |-> Text("insight")]
           Formed(object, as) == [objects |-> <<object, chart, value>>, as |-> as]
<1>1. answer \in {Formed(value, "exact"), Formed(labelled, "labelled"),
                  Formed(wrapped, "wrapped"), Formed(other, "other")}
  BY DEF Answers
<1> HIDE DEF value, labelled, chart, wrapped, other, keys
<1> QED
  BY <1>1

LEMMA NotUnwrapped ==
  ASSUME NEW h, NEW address, \A port \in PortNames : DOMAIN h[address] # {port}
  PROVE  Unwrapped(h, address) = address
<1> DEFINE keys == DOMAIN h[address]
           names == {"in", "out", "input", "output", "schema", "data"}
<1>1. names \subseteq PortNames
  BY DEF PortNames
<1>2. ASSUME Cardinality(keys) = 1, keys \subseteq names PROVE FALSE
  <2>1. IsFiniteSet(names)
    <3>1. IsFiniteSet({}) /\ names = {} \cup {"in"} \cup {"out"} \cup {"input"} \cup {"output"} \cup {"schema"} \cup {"data"}
      BY FS_EmptySet
    <3> HIDE DEF names
    <3> QED
      BY <3>1, FS_AddElement
  <2> HIDE DEF names, keys
  <2>2. IsFiniteSet(keys)
    BY <1>2, <2>1, FS_Subset
  <2>3. PICK x : keys = {x}
    BY <1>2, <2>2, FS_Singleton
  <2> QED
    BY <1>1, <1>2, <2>3 DEF keys
<1> QED
  BY <1>2 DEF Unwrapped

LEMMA WrapperUnwrapped ==
  ASSUME NEW h, NEW address, NEW at, h[address] = [in |-> Ref(at)]
  PROVE  Unwrapped(h, address) = at
<1> DEFINE object == [in |-> Ref(at)]
<1>1. DOMAIN object = {"in"} /\ object["in"] = Ref(at)
  OBVIOUS
<1> HIDE DEF object
<1>2. h[address] = object
  BY DEF object
<1>3. Cardinality(DOMAIN h[address]) = 1
  BY <1>1, <1>2, FS_Singleton
<1>4. Ref(at).is = "object" /\ Ref(at).at = at
  BY DEF Ref
<1>5. (CHOOSE key \in DOMAIN h[address] : TRUE) = "in"
  BY <1>1, <1>2
<1> QED
  BY <1>1, <1>2, <1>3, <1>4, <1>5 DEF Unwrapped

LEMMA ThreeJoin ==
  ASSUME NEW h, IsHeap(h), NEW a, NEW b, NEW c, NEW new, new = h \o <<a, b, c>>
  PROVE  /\ Len(h) + 1 \in DOMAIN new /\ new[Len(h) + 1] = a
         /\ Len(h) + 3 \in DOMAIN new /\ new[Len(h) + 3] = c
<1> DEFINE t == <<a, b, c>>
<1>1. IsHeap(t) /\ Len(t) = 3
  BY TupleHeaps
<1>2. DOMAIN t = 1..3 /\ t[1] = a /\ t[3] = c
  OBVIOUS
<1>4. new = h \o t
  OBVIOUS
<1> HIDE DEF t
<1>3. \A i \in DOMAIN t : Len(h) + i \in DOMAIN new /\ new[Len(h) + i] = t[i]
  BY <1>1, <1>4, HeapJoin
<1> QED
  BY <1>2, <1>3

\* What the answer becomes has the fields.
LEMMA AnswerFound ==
  ASSUME NEW h, Well(h), NEW fields, Distinct(fields), NEW answer \in Answers(fields, Len(h)),
         answer.as # "other", \A port \in PortNames : Keys(fields) # {port},
         NEW new, new = h \o answer.objects
  PROVE  LET at == Unwrapped(new, Len(h) + 1)
         IN at \in DOMAIN new /\ (ByKey(new[at], fields) \/ ByLabel(new[at], fields))
<1> DEFINE at == Unwrapped(new, Len(h) + 1)
<1>1. IsHeap(h) /\ Len(h) \in Nat
  BY HeapSize DEF Well
<1>2. answer.as \in {"exact", "labelled", "wrapped"}
  BY AnswerKinds
<1>3. PICK object, chart, value :
        /\ answer.objects = <<object, chart, value>>
        /\ ByKey(value, fields)
        /\ answer.as = "exact" => object = value
        /\ answer.as = "labelled" => ByLabel(object, fields)
        /\ answer.as = "wrapped" => object = [in |-> Ref(Len(h) + 3)]
  BY <1>1, <1>2, AnswerForms
<1>4. new = h \o <<object, chart, value>>
  BY <1>3
<1>5. /\ Len(h) + 1 \in DOMAIN new /\ new[Len(h) + 1] = object
      /\ Len(h) + 3 \in DOMAIN new /\ new[Len(h) + 3] = value
  BY <1>1, <1>4, ThreeJoin
<1>6. CASE answer.as = "exact"
  <2>1. ByKey(new[Len(h) + 1], fields)
    BY <1>3, <1>5, <1>6
  <2>2. \A port \in PortNames : DOMAIN new[Len(h) + 1] # {port}
    BY <2>1 DEF ByKey
  <2>3. at = Len(h) + 1
    BY <2>2, NotUnwrapped
  <2> QED
    BY <1>5, <2>1, <2>3
<1>7. CASE answer.as = "labelled"
  <2>1. ByLabel(new[Len(h) + 1], fields)
    BY <1>3, <1>5, <1>7
  <2>2. DOMAIN new[Len(h) + 1] = {Label[key] : key \in Keys(fields)}
    BY <2>1 DEF ByLabel
  <2>3. \A key \in Keys(fields) : Label[key] \notin PortNames
    BY LabelAssumption DEF Distinct, Keys
  <2>4. \A port \in PortNames : DOMAIN new[Len(h) + 1] # {port}
    BY <2>2, <2>3
  <2>5. at = Len(h) + 1
    BY <2>4, NotUnwrapped
  <2> QED
    BY <1>5, <2>1, <2>5
<1>8. CASE answer.as = "wrapped"
  <2>1. new[Len(h) + 1] = [in |-> Ref(Len(h) + 3)]
    BY <1>3, <1>5, <1>8
  <2>2. at = Len(h) + 3
    BY <2>1, WrapperUnwrapped
  <2> QED
    BY <1>3, <1>5, <2>2
<1> QED
  BY <1>2, <1>6, <1>7, <1>8

LEMMA AiAnswers ==
  ASSUME Designed, IInv, HeapInv, DOMAIN asked = Nodes, NEW n \in Nodes, ExecuteAi(n),
         asked[n].as = "not asked"
  PROVE  AnswerLeft(n)'
<1>1. CASE UNCHANGED asked
  BY <1>1 DEF AnswerLeft
<1>2. CASE asked' # asked
  <2> DEFINE h == Merged(n).heap
             fields == SchemaFor(n, Merged(n))
             base == Len(h)
  <2>1. PICK answer \in Answers(fields, base) :
          LET new == h \o answer.objects
          IN /\ Completes(n, new, [result |-> Ref(Unwrapped(new, base + 1))])
             /\ asked' = [asked EXCEPT ![n] = [fields |-> fields, as |-> answer.as]]
    BY <1>2 DEF ExecuteAi
  <2>2. Grown(heap, h)
    BY MergedGrown
  <2>3. Distinct(fields)
    BY AskedDistinct
  <2> HIDE DEF h, fields
  <2>4. Well(h) /\ Len(h) \in Nat /\ IsHeap(h)
    BY <2>2 DEF Grown, Well
  <2>5. asked'[n].fields = fields /\ asked'[n].as = answer.as
    BY <2>1
  <2>6. answer.as \in {"exact", "labelled", "wrapped", "other"}
    BY AnswerKinds
  <2>7. ASSUME answer.as # "other", \A port \in PortNames : Keys(fields) # {port}
        PROVE  \E u \in DOMAIN heap' : /\ outputs'[n] = [result |-> Ref(u)]
                                       /\ ByKey(heap'[u], fields) \/ ByLabel(heap'[u], fields)
    <3>1. PICK new : new = h \o answer.objects
      OBVIOUS
    <3> DEFINE at == Unwrapped(new, base + 1)
    <3>2. at \in DOMAIN new /\ (ByKey(new[at], fields) \/ ByLabel(new[at], fields))
      BY <2>3, <2>4, <2>7, <3>1, AnswerFound
    <3>3. Completes(n, new, [result |-> Ref(at)])
      BY <2>1, <3>1
    <3> HIDE DEF at
    <3>4. heap' = new /\ outputs'[n] = [result |-> Ref(at)]
      BY <3>3 DEF Completes, HeapInv
    <3> QED
      BY <3>2, <3>4
  <2> QED
    BY <2>3, <2>5, <2>6, <2>7 DEF AnswerLeft
<1> QED
  BY <1>1, <1>2


-------------------------------------------------------------------------------
(***************************************************************************)
(* What a terminal makes of a single value that arrives, and a merger of   *)
(* all of them.                                                            *)
(***************************************************************************)
\* The keys that the value on a wire brings.
Brought(w) ==
  IF Value(w).is = "object" THEN heap[Value(w).at] ELSE [port \in {w.link.port} |-> Value(w)]

Alike(object, other) ==
  DOMAIN object = DOMAIN other /\ \A key \in DOMAIN other : object[key] = other[key]

TerminalLeft(t) ==
  /\ Executor(t) = "terminal" /\ Dealt(t, {"completed"}) /\ Len(Arrivals(t)) = 1
  /\ {"result", "data", "schema"} \cap DOMAIN Brought(Arrivals(t)[1]) = {}
  =>
      \E b \in DOMAIN heap :
        outputs[t] = [data |-> Ref(b)] /\ Alike(heap[b], Brought(Arrivals(t)[1]))

MergerLeft(g) ==
  Executor(g) = "merger" /\ Dealt(g, {"completed"}) =>
    outputs[g] = [out |-> List(Values(Arrivals(g)))]

LEMMA OneArrival ==
  ASSUME Designed, IInv, HeapInv, NEW n, Len(Arrivals(n)) = 1
  PROVE  Alike(Merged(n).object, Brought(Arrivals(n)[1]))
<1> DEFINE came == Arrivals(n)
           w == came[1]
           port == w.link.port
<1>1. DOMAIN came = 1..1 /\ 1 \in DOMAIN came
  BY ArrivedAre
<1>2. \A l \in DOMAIN came \ {1} : came[l].link.port # came[1].link.port
  BY <1>1
<1>3. Len(ValuesAt(n, port)) = 1 /\ ValuesAt(n, port)[1] = Value(w)
  BY <1>1, <1>2, LoneValue
<1>4. ToSet(Ports(n)) = {port} /\ Len(Ports(n)) \in Nat /\ DOMAIN Ports(n) = 1..Len(Ports(n))
  BY <1>1, PortsAre
<1>5. PICK i \in DOMAIN Ports(n) : Ports(n)[i] = port
  BY <1>4 DEF ToSet
<1>6. \A j \in DOMAIN Ports(n) : j = i
  <2> SUFFICES ASSUME NEW j \in DOMAIN Ports(n) PROVE j = i
    OBVIOUS
  <2>1. Ports(n)[j] = Ports(n)[i]
    BY <1>4, <1>5 DEF ToSet
  <2> QED
    BY <2>1, PortsOnce
<1>7. /\ Value(w).is = "object" => PortPart(n, i) = heap[Value(w).at]
      /\ Value(w).is # "object" => PortPart(n, i) = Under(n, i, Value(w))
  <2>1. Len(ValuesAt(n, Ports(n)[i])) = 1 /\ ValuesAt(n, Ports(n)[i])[1] = Value(w)
    BY <1>3, <1>5
  <2>2. /\ ValuesAt(n, Ports(n)[i])[1].is = "object" =>
             PortPart(n, i) = heap[ValuesAt(n, Ports(n)[i])[1].at] /\ i \in PlainPorts(n) \cap SinglePorts(n)
        /\ ValuesAt(n, Ports(n)[i])[1].is # "object" =>
             /\ PortPart(n, i) = Under(n, i, ValuesAt(n, Ports(n)[i])[1])
             /\ i \in SinglePorts(n) \ PlainPorts(n)
    BY <2>1, SinglePart
  <2> QED
    BY <2>1, <2>2
<1>8. PortPart(n, i) = Brought(w)
  <2> HIDE DEF w
  <2>1. CASE Value(w).is = "object"
    BY <1>7, <2>1 DEF Brought
  <2>2. CASE Value(w).is # "object"
    BY <1>5, <1>7, <2>2 DEF Brought, Under
  <2> QED
    BY <2>1, <2>2
<1> DEFINE parts == PortParts(n)
           m == Len(Ports(n))
<1>9. m \in Nat /\ DOMAIN parts \subseteq 1..m /\ DOMAIN parts = {i} /\ parts[i] = Brought(w)
  BY <1>4, <1>6, <1>8 DEF PortParts
<1>10. Merged(n).object = Assigned(parts)
  BY MergedParts
<1> HIDE DEF parts, m, w, came
<1>11. /\ DOMAIN Assigned(parts) = UNION {DOMAIN parts[j] : j \in DOMAIN parts}
       /\ \A key \in DOMAIN Assigned(parts) : \E j \in DOMAIN parts :
            /\ key \in DOMAIN parts[j] /\ Assigned(parts)[key] = parts[j][key]
            /\ \A x \in DOMAIN parts : key \in DOMAIN parts[x] => x <= j
  BY <1>9, AssignedIs
<1>12. Alike(Assigned(parts), Brought(w))
  BY <1>9, <1>11 DEF Alike
<1> QED
  BY <1>10, <1>12 DEF w, came

LEMMA TerminalLeaves ==
  ASSUME Designed, IInv, HeapInv, NEW n \in Nodes, ExecuteTerminal(n), Len(Arrivals(n)) = 1,
         {"result", "data", "schema"} \cap DOMAIN Brought(Arrivals(n)[1]) = {}
  PROVE  \E b \in DOMAIN heap' :
           outputs'[n] = [data |-> Ref(b)] /\ Alike(heap'[b], Brought(Arrivals(n)[1]))
<1> DEFINE h == Merged(n).heap
           object == Merged(n).object
           keys == IF Config(n).mode = "schemaResult"
                     THEN <<"data", "result", "schema">> ELSE <<"result", "data", "schema">>
           given == {k \in DOMAIN keys : Truthy(Key(object, keys[k]))}
           new == Append(h, object)
<1>1. IF given # {} THEN Completes(n, h, [data |-> object[keys[Least(given)]]])
      ELSE Completes(n, new, [data |-> Ref(Len(h) + 1)])
  BY DEF ExecuteTerminal
<1>2. Grown(heap, h)
  BY MergedGrown
<1>3. Alike(object, Brought(Arrivals(n)[1]))
  BY OneArrival
<1>4. \A k \in DOMAIN keys : keys[k] \in {"result", "data", "schema"}
  OBVIOUS
<1> HIDE DEF h, object, keys
<1>5. given = {}
  <2> SUFFICES ASSUME NEW k \in DOMAIN keys, Truthy(Key(object, keys[k])) PROVE FALSE
    OBVIOUS
  <2>1. keys[k] \in DOMAIN object
    BY DEF Truthy, Key
  <2> QED
    BY <1>3, <1>4, <2>1 DEF Alike
<1> HIDE DEF given
<1>6. Completes(n, new, [data |-> Ref(Len(h) + 1)])
  BY <1>1, <1>5
<1>7. IsHeap(h) /\ Len(h) \in Nat
  BY <1>2 DEF Grown, Well
<1>8. Len(h) + 1 \in DOMAIN new /\ new[Len(h) + 1] = object
  BY <1>7, HeapAppend
<1> HIDE DEF new
<1>9. heap' = new /\ outputs'[n] = [data |-> Ref(Len(h) + 1)]
  BY <1>6 DEF Completes, HeapInv
<1> QED
  BY <1>3, <1>8, <1>9


\* What the nodes leave for the others stays.
LeftBy(n) == AnswerLeft(n) /\ TerminalLeft(n) /\ MergerLeft(n)

LeftInv == Acyclic /\ ObjectsStay => \A n \in Nodes : LeftBy(n)

LEMMA ValuesStay ==
  ASSUME Designed, IInv, HeapInv, Acyclic, ObjectsStay, DOMAIN asked = Nodes,
         [NodeNext]_<<vars, nodeVars>>, NEW m \in Nodes, Dealt(m, Status) \/ TurnOf(m)
  PROVE  /\ Values(Arrivals(m))' = Values(Arrivals(m))
         /\ \A k \in DOMAIN Arrivals(m) : Brought(Arrivals(m)[k])' = Brought(Arrivals(m)[k])
<1>1. Arrivals(m)' = Arrivals(m)
  BY ArrivedStays
<1>2. ASSUME NEW k \in DOMAIN Arrivals(m), NEW w, w = Arrivals(m)[k]
      PROVE  Value(w)' = Value(w) /\ Brought(w)' = Brought(w)
  <2>1. /\ outputs'[w.link.source][w.from] = Value(w)
        /\ Value(w).is = "object" => heap'[Value(w).at] = heap[Value(w).at]
    BY <1>2, ArrivedStays
  <2>2. Value(w)' = Value(w)
    BY <2>1 DEF Value
  <2>3. Brought(w)' = Brought(w)
    BY <2>1, <2>2 DEF Brought
  <2> QED
    BY <2>2, <2>3
<1>3. \A k \in DOMAIN Arrivals(m) : Brought(Arrivals(m)[k])' = Brought(Arrivals(m)[k])
  BY <1>1, <1>2
<1>4. Values(Arrivals(m))' = Values(Arrivals(m))
  <2> DEFINE came == Arrivals(m)
  <2>1. Values(came) = [k \in DOMAIN came |-> Value(came[k])]
    BY DEF Values
  <2>2. Values(came)' = [k \in DOMAIN came |-> Value(came[k])']
    BY <1>1 DEF Values
  <2>3. \A k \in DOMAIN came : Value(came[k])' = Value(came[k])
    BY <1>1, <1>2
  <2> QED
    BY <2>1, <2>2, <2>3
<1> QED
  BY <1>3, <1>4

LEMMA LeftStays ==
  ASSUME Designed, IInv, HeapInv, Acyclic, ObjectsStay, DOMAIN asked = Nodes,
         [NodeNext]_<<vars, nodeVars>>, NEW m \in Nodes, Dealt(m, Status), LeftBy(m)
  PROVE  LeftBy(m)'
<1>1. /\ outputs'[m] = outputs[m] /\ asked'[m] = asked[m]
      /\ Dealt(m, {"completed"})' = Dealt(m, {"completed"})
  BY DealtStays
<1>2. Arrivals(m)' = Arrivals(m) /\ UNCHANGED <<design, graph>>
  BY ArrivedStays
<1>3. Executor(m)' = Executor(m)
  BY <1>2, ExecutorStays
<1>4. \A i \in DOMAIN heap : i \in DOMAIN heap' /\ heap'[i] = heap[i]
  BY HeapStays
<1>5. /\ Values(Arrivals(m))' = Values(Arrivals(m))
      /\ \A k \in DOMAIN Arrivals(m) : Brought(Arrivals(m)[k])' = Brought(Arrivals(m)[k])
  BY ValuesStay
<1>6. AnswerLeft(m)'
  <2> SUFFICES ASSUME asked[m].as # "not asked"
               PROVE  AnswerLeft(m)'
    BY <1>1 DEF AnswerLeft
  <2> DEFINE fields == asked[m].fields
  <2>1. /\ Distinct(fields)
        /\ asked[m].as \in {"exact", "labelled", "wrapped", "other"}
        /\ asked[m].as # "other" /\ (\A port \in PortNames : Keys(fields) # {port}) =>
             \E u \in DOMAIN heap : /\ outputs[m] = [result |-> Ref(u)]
                                    /\ ByKey(heap[u], fields) \/ ByLabel(heap[u], fields)
    BY DEF LeftBy, AnswerLeft
  <2>2. asked[m].as # "other" /\ (\A port \in PortNames : Keys(fields) # {port}) =>
             \E u \in DOMAIN heap' : /\ outputs'[m] = [result |-> Ref(u)]
                                     /\ ByKey(heap'[u], fields) \/ ByLabel(heap'[u], fields)
    BY <1>1, <1>4, <2>1
  <2> QED
    BY <1>1, <2>1, <2>2 DEF AnswerLeft
<1>7. TerminalLeft(m)'
  <2> SUFFICES ASSUME Executor(m) = "terminal", Dealt(m, {"completed"}), Len(Arrivals(m)) = 1,
                      {"result", "data", "schema"} \cap DOMAIN Brought(Arrivals(m)[1])' = {}
               PROVE  \E b \in DOMAIN heap' :
                        outputs'[m] = [data |-> Ref(b)] /\ Alike(heap'[b], Brought(Arrivals(m)[1])')
    BY <1>1, <1>2, <1>3 DEF TerminalLeft
  <2>1. 1 \in DOMAIN Arrivals(m)
    BY ArrivedAre
  <2>2. Brought(Arrivals(m)[1])' = Brought(Arrivals(m)[1])
    BY <1>5, <2>1
  <2>3. PICK b \in DOMAIN heap : outputs[m] = [data |-> Ref(b)] /\ Alike(heap[b], Brought(Arrivals(m)[1]))
    BY <2>2 DEF LeftBy, TerminalLeft
  <2> QED
    BY <1>1, <1>4, <2>2, <2>3
<1>8. MergerLeft(m)'
  BY <1>1, <1>2, <1>3, <1>5 DEF LeftBy, MergerLeft
<1> QED
  BY <1>6, <1>7, <1>8 DEF LeftBy

LEMMA LeftKept ==
  ASSUME Designed, IInv, HeapInv, AskedInv, AskedInv', LeftInv, [NodeNext]_<<vars, nodeVars>>
  PROVE  LeftInv'
<1>1. DOMAIN asked = Nodes
  BY DEF AskedInv
<1>2. UNCHANGED <<design, graph>>
  BY <1>1, StepOrTurn DEF TurnOf
<1>3. (Acyclic' <=> Acyclic) /\ (ObjectsStay' <=> ObjectsStay) /\ \A n : Executor(n)' = Executor(n)
  BY <1>2, ExecutorStays
<1> SUFFICES ASSUME Acyclic, ObjectsStay, NEW m \in Nodes PROVE LeftBy(m)'
  BY <1>3 DEF LeftInv
<1>4. LeftBy(m)
  BY DEF LeftInv
<1>5. CASE Dealt(m, Status)
  BY <1>1, <1>4, <1>5, LeftStays
<1>6. CASE ~Dealt(m, {"completed"})'
  <2>1. asked'[m].as = "not asked"
    BY <1>6 DEF AskedInv, Asked
  <2> QED
    BY <1>6, <2>1 DEF LeftBy, AnswerLeft, TerminalLeft, MergerLeft
<1>7. CASE ~Dealt(m, Status) /\ Dealt(m, {"completed"})'
  <2>1. ~Dealt(m, {"completed"})
    BY <1>7, CompletedIsDealt
  <2>2. asked[m].as = "not asked"
    BY <2>1 DEF AskedInv, Asked
  <2>3. PICK n \in Nodes : TurnOf(n)
    <3>1. ~UNCHANGED <<design, graph, tries, heap, outputs, asked>>
      BY <1>7, <2>1 DEF Dealt
    <3> QED
      BY <1>1, <3>1, StepOrTurn
  <2>4. n = m
    BY <1>7, <2>1, <2>3, TurnRecords
  <2>5. \/ ExecuteInput(m) \/ ExecuteSource(m) \/ ExecuteMapper(m) \/ ExecuteMerger(m)
        \/ ExecuteSchema(m) \/ ExecuteAi(m) \/ ExecuteTerminal(m) \/ ExecutePassthrough(m)
    <3>1. ASSUME NEW status \in Status \ {"completed"}, NEW own, Record(m, status, own) PROVE FALSE
      <4>1. \A S : Dealt(m, S)' <=> status \in S
        BY <2>3, <2>4, <3>1, Recorded DEF TurnOf
      <4> QED
        BY <1>7, <4>1
    <3> QED
      BY <2>3, <2>4, <3>1 DEF TurnOf
  <2>6. Arrivals(m)' = Arrivals(m) /\ Values(Arrivals(m))' = Values(Arrivals(m))
    BY <1>1, <2>3, <2>4, ArrivedStays, ValuesStay
  <2>7. CASE ExecuteAi(m)
    <3>1. Executor(m) = "ai"
      BY <2>7 DEF ExecuteAi, Runs
    <3>2. AnswerLeft(m)'
      BY <1>1, <2>2, <2>7, AiAnswers
    <3> QED
      BY <1>3, <3>1, <3>2 DEF LeftBy, TerminalLeft, MergerLeft
  <2>8. CASE ExecuteTerminal(m)
    <3>1. Executor(m) = "terminal" /\ asked' = asked
      BY <2>8 DEF ExecuteTerminal, Runs
    <3>2. TerminalLeft(m)'
      <4> SUFFICES ASSUME Len(Arrivals(m)) = 1,
                          {"result", "data", "schema"} \cap DOMAIN Brought(Arrivals(m)[1])' = {}
                   PROVE  \E b \in DOMAIN heap' :
                            outputs'[m] = [data |-> Ref(b)] /\ Alike(heap'[b], Brought(Arrivals(m)[1])')
        BY <2>6 DEF TerminalLeft
      <4>1. 1 \in DOMAIN Arrivals(m)
        BY ArrivedAre
      <4>2. Brought(Arrivals(m)[1])' = Brought(Arrivals(m)[1])
        BY <1>1, <2>3, <2>4, <4>1, ValuesStay
      <4> QED
        BY <2>8, <4>2, TerminalLeaves
    <3> QED
      BY <1>3, <2>2, <3>1, <3>2 DEF LeftBy, AnswerLeft, MergerLeft
  <2>9. CASE ExecuteMerger(m)
    <3>1. Executor(m) = "merger" /\ asked' = asked
      BY <2>9 DEF ExecuteMerger, Runs
    <3>2. outputs'[m] = [out |-> List(Values(Arrivals(m)))]
      BY <2>9 DEF ExecuteMerger, Completes, HeapInv
    <3>3. MergerLeft(m)'
      BY <2>6, <3>2 DEF MergerLeft
    <3> QED
      BY <1>3, <2>2, <3>1, <3>3 DEF LeftBy, AnswerLeft, TerminalLeft
  <2>10. CASE \/ ExecuteInput(m) \/ ExecuteSource(m) \/ ExecuteMapper(m)
              \/ ExecuteSchema(m) \/ ExecutePassthrough(m)
    <3>1. asked' = asked /\ Executor(m) \notin {"terminal", "merger"}
      BY <2>10 DEF ExecuteInput, ExecuteSource, ExecuteMapper, ExecuteSchema, ExecutePassthrough, Runs
    <3> QED
      BY <1>3, <2>2, <3>1 DEF LeftBy, AnswerLeft, TerminalLeft, MergerLeft
  <2> QED
    BY <2>5, <2>7, <2>8, <2>9, <2>10
<1> QED
  BY <1>5, <1>6, <1>7

LEMMA LeftInit == NodeInit => LeftInv
<1> SUFFICES ASSUME NodeInit PROVE LeftInv
  OBVIOUS
<1>1. /\ asked = [n \in Nodes |-> [fields |-> <<>>, as |-> "not asked"]] /\ tries = <<>>
  BY DEF NodeInit, Init
<1>2. \A n \in Nodes : asked[n].as = "not asked" /\ ~Dealt(n, {"completed"})
  <2>1. DOMAIN tries = {}
    <3>1. Len(tries) = 0 /\ tries \in Seq({})
      BY <1>1, EmptySeq
    <3> QED
      BY <3>1, LenProperties
  <2>2. \A n : ~Dealt(n, {"completed"})
    BY <2>1 DEF Dealt
  <2> QED
    BY <1>1, <2>2
<1> QED
  BY <1>2 DEF LeftInv, LeftBy, AnswerLeft, TerminalLeft, MergerLeft


-------------------------------------------------------------------------------
(***************************************************************************)
(* From the outputs to the report.                                         *)
(***************************************************************************)
LEMMA LevelFacts ==
  ASSUME NEW flat, Len(heap) \in Nat
  PROVE  /\ Levels(flat)[0] = flat
         /\ \A k \in 0..(Len(heap) - 1) : Levels(flat)[k + 1] = Behind(Levels(flat)[k])
<1> DEFINE Found(f, n) == f = [k \in 0..n |-> IF k = 0 THEN flat ELSE Behind(f[k - 1])]
           P == {n \in Nat : \E f : Found(f, n)}
<1>1. 0 \in P
  <2>1. Found([k \in 0..0 |-> flat], 0)
    OBVIOUS
  <2> QED
    BY <2>1
<1>2. ASSUME NEW n \in Nat, n \in P PROVE n + 1 \in P
  <2>1. PICK f : Found(f, n)
    BY <1>2
  <2> DEFINE g == [k \in 0..(n + 1) |-> IF k = n + 1 THEN Behind(f[n]) ELSE f[k]]
  <2>2. ASSUME NEW k \in 0..(n + 1)
        PROVE  g[k] = IF k = 0 THEN flat ELSE Behind(g[k - 1])
    <3>1. CASE k = n + 1
      BY <3>1
    <3>2. CASE k \in 0..n
      BY <2>1, <3>2
    <3> QED
      BY <3>1, <3>2
  <2>3. Found(g, n + 1)
    BY <2>2
  <2> HIDE DEF g, Found
  <2> QED
    BY <2>3
<1>3. \E f : Found(f, Len(heap))
  BY <1>1, <1>2, AllNaturals
<1> DEFINE found == CHOOSE f : Found(f, Len(heap))
<1>4. Found(found, Len(heap))
  BY <1>3
<1>5. Levels(flat) = found
  BY DEF Levels
<1> HIDE DEF found
<1>6. found[0] = flat
  BY <1>4
<1>7. \A k \in 0..(Len(heap) - 1) : found[k + 1] = Behind(found[k])
  BY <1>4
<1> QED
  BY <1>5, <1>6, <1>7

LEMMA LeastZero ==
  ASSUME NEW I \in SUBSET Nat, 0 \in I
  PROVE  Least(I) = 0
<1>1. \A j \in I : 0 <= j
  OBVIOUS
<1>2. Least(I) \in I /\ \A j \in I : Least(I) <= j
  <2>1. \E i \in I : \A j \in I : i <= j
    BY <1>1
  <2> QED
    BY <2>1 DEF Least
<1>3. PICK m : m = Least(I)
  OBVIOUS
<1>4. m \in Nat /\ m <= 0
  BY <1>2, <1>3
<1>5. m = 0
  BY <1>4
<1> QED
  BY <1>3, <1>5

\* An object that has fields of the schema is looked no further into.
LEMMA PickedFirst ==
  ASSUME NEW flat, Len(heap) \in Nat, DOMAIN FieldsIn(flat) # {}
  PROVE  Picked(flat) = FieldsIn(flat)
<1> DEFINE level == Levels(flat)
           levels == {k \in 0..Len(heap) : DOMAIN FieldsIn(level[k]) # {}}
           items == Key(level[Len(heap)], "items")
           slots == IF items.is # "list" THEN 0
                    ELSE CHOOSE k \in {Len(items.items), Len(ReportSchema)} :
                           k <= Len(items.items) /\ k <= Len(ReportSchema)
           listed == [key \in {ReportSchema[i].key : i \in 1..slots} |->
                        Scalar(items.items[CHOOSE i \in 1..slots : ReportSchema[i].key = key])]
<1>1. Picked(flat) = IF levels # {} THEN FieldsIn(level[Least(levels)]) ELSE listed
  BY DEF Picked
<1>2. level[0] = flat
  BY LevelFacts
<1> HIDE DEF level, listed
<1>3. 0 \in levels /\ levels \subseteq Nat
  BY <1>2
<1> HIDE DEF levels
<1>4. Least(levels) = 0
  BY <1>3, LeastZero
<1> QED
  BY <1>1, <1>2, <1>3, <1>4

\* The fields that the model answered are picked, under their keys.
LEMMA AnswerPicked ==
  ASSUME Len(heap) \in Nat, NEW fields, Distinct(fields), NEW flat, NEW object,
         ByKey(object, fields) \/ ByLabel(object, fields), Alike(flat, object),
         NEW i \in DOMAIN fields, fields[i].key \in SchemaKeys
  PROVE  /\ fields[i].key \in DOMAIN Picked(flat)
         /\ Stands(fields[i], Picked(flat)[fields[i].key])
<1> DEFINE key == fields[i].key
<1>1. key \in Keys(fields) /\ key \in DOMAIN Label
  BY DEF Keys, Distinct
<1>2. Stands(fields[i], ForField(flat, key))
  <2>1. CASE ByKey(object, fields)
    <3>1. key \in DOMAIN flat /\ flat[key] = object[key] /\ Stands(fields[i], object[key])
      BY <1>1, <2>1 DEF ByKey, Alike
    <3> QED
      BY <3>1 DEF ForField, Key
  <2>2. CASE ByLabel(object, fields)
    <3>1. DOMAIN object = {Label[k] : k \in Keys(fields)} /\ Stands(fields[i], object[Label[key]])
      BY <2>2 DEF ByLabel
    <3>2. Label[key] \in DOMAIN flat /\ flat[Label[key]] = object[Label[key]] /\ DOMAIN flat = DOMAIN object
      BY <1>1, <3>1 DEF Alike
    <3>3. \A k \in Keys(fields) : Label[k] # key
      <4>1. Keys(fields) \subseteq DOMAIN Label
        BY DEF Keys, Distinct
      <4> QED
        BY <1>1, <4>1, LabelAssumption
    <3>4. key \notin DOMAIN flat
      BY <3>1, <3>2, <3>3
    <3> QED
      BY <1>1, <3>1, <3>2, <3>4 DEF ForField, Key
  <2> QED
    BY <2>1, <2>2
<1> HIDE DEF key
<1>3. ForField(flat, key) # Undefined
  BY <1>2 DEF Stands, Undefined, Text
<1>4. FieldsIn(flat) = [k \in {k \in SchemaKeys : ForField(flat, k) # Undefined} |-> ForField(flat, k)]
  BY DEF FieldsIn
<1>5. key \in SchemaKeys
  BY DEF key
<1>6. key \in DOMAIN FieldsIn(flat) /\ FieldsIn(flat)[key] = ForField(flat, key)
  BY <1>3, <1>4, <1>5
<1>7. Picked(flat) = FieldsIn(flat)
  BY <1>6, PickedFirst
<1> QED
  BY <1>2, <1>6, <1>7 DEF key

\* What a terminal gives to the report, if it is in it.
LEMMA ReportHas ==
  ASSUME Designed, IInv, HeapInv, ConcludeReport, NEW n, NEW t \in Delivering(n)'
  PROVE  /\ t \in Nodes /\ Executor(t) = "terminal" /\ Dealt(t, {"completed"})
         /\ Len(Arrivals(t)) = 1 /\ Arrivals(t)[1].link.source = n
         /\ report'[ReportKey(t)] = Cells(Key(outputs[t], "data"))
<1>1. UNCHANGED <<design, graph, outputs, tries, heap>>
  BY DEF ConcludeReport
<1>2. /\ \A m : Arrivals(m)' = Arrivals(m) /\ Executor(m)' = Executor(m) /\ ReportKey(m)' = ReportKey(m)
      /\ OfKind("terminal")' = OfKind("terminal")
  <2>1. \A m : Config(m)' = Config(m)
    BY <1>1 DEF Config
  <2>2. \A m : Arrivals(m)' = Arrivals(m)
    BY <1>1 DEF Arrivals, Carries, Dealt
  <2>3. OfKind("terminal")' = OfKind("terminal")
    BY <1>1 DEF OfKind
  <2> QED
    BY <1>1, <2>1, <2>2, <2>3, ExecutorStays DEF ReportKey
<1>3. /\ t \in data' \cap OfKind("terminal") /\ Executor(t) = "terminal"
      /\ t = LastOf({u \in data' : ReportKey(u) = ReportKey(t)})
      /\ Len(Arrivals(t)) = 1 /\ Arrivals(t)[1].link.source = n
  BY <1>2 DEF Delivering
<1>4. t \in Nodes
  BY <1>3 DEF OfKind
<1>5. Dealt(t, {"completed"})
  <2>1. data' \in {{}, CompletedOf("terminal"), Answering}
    BY DEF ConcludeReport
  <2>2. Answering \subseteq CompletedOf("ai")
    BY DEF Answering, First
  <2> QED
    BY <1>3, <2>1, <2>2 DEF CompletedOf
<1>6. report'[ReportKey(t)] = Cells(Given(t))
  <2> DEFINE of(key) == Cells(Given(LastOf({u \in data' : ReportKey(u) = key})))
  <2>1. report' = [key \in {ReportKey(u) : u \in data'} |-> of(key)]
    BY DEF ConcludeReport
  <2>2. ReportKey(t) \in {ReportKey(u) : u \in data'}
    BY <1>3
  <2> HIDE DEF of
  <2>3. report'[ReportKey(t)] = of(ReportKey(t))
    BY <2>1, <2>2
  <2> QED
    BY <1>3, <2>3 DEF of
<1>7. Given(t) = Key(outputs[t], "data")
  BY <1>3 DEF Given
<1> QED
  BY <1>3, <1>4, <1>5, <1>6, <1>7


LEMMA SchemaStays ==
  ASSUME UNCHANGED design
  PROVE  ReportSchema' = ReportSchema /\ SchemaKeys' = SchemaKeys
<1>1. \A n : Config(n)' = Config(n)
  BY DEF Config
<1>2. ReportSchema' = ReportSchema
  BY <1>1 DEF ReportSchema
<1> QED
  BY <1>2 DEF SchemaKeys

\* The model answered with the fields, none of which is taken for a port.
FieldsAnswered(a) ==
  /\ asked[a].as \notin {"other", "not asked"}
  /\ \A port \in PortNames : Keys(asked[a].fields) # {port}
  /\ Keys(asked[a].fields) \cap {"result", "data", "schema"} = {}

\* The object in the report comes from the AI node as it is.
LEMMA AnswerGiven ==
  ASSUME Designed, IInv, HeapInv, NEW a \in Nodes, NEW t \in Nodes, AnswerLeft(a), TerminalLeft(t),
         Executor(t) = "terminal", Dealt(t, {"completed"}),
         Len(Arrivals(t)) = 1, Arrivals(t)[1].link.source = a, FieldsAnswered(a)
  PROVE  \E b, u \in DOMAIN heap :
           /\ outputs[t] = [data |-> Ref(b)] /\ Alike(heap[b], heap[u])
           /\ ByKey(heap[u], asked[a].fields) \/ ByLabel(heap[u], asked[a].fields)
<1> DEFINE fields == asked[a].fields
<1>0. PICK w : w = Arrivals(t)[1]
  OBVIOUS
<1>1. PICK u \in DOMAIN heap : /\ outputs[a] = [result |-> Ref(u)]
                               /\ ByKey(heap[u], fields) \/ ByLabel(heap[u], fields)
  BY DEF AnswerLeft, FieldsAnswered
<1>2. Distinct(fields)
  BY DEF AnswerLeft, FieldsAnswered
<1>3. w.from \in DOMAIN outputs[w.link.source]
  <2>1. DOMAIN Arrivals(t) = 1..Len(Arrivals(t))
    BY ArrivedAre
  <2>2. 1 \in DOMAIN Arrivals(t)
    BY <2>1
  <2> QED
    BY <1>0, <2>2, ArrivedAre
<1>4. Value(w) = Ref(u)
  <2>1. w.link.source = a
    BY <1>0
  <2> QED
    BY <1>1, <1>3, <2>1 DEF Value
<1>5. Brought(w) = heap[u]
  BY <1>4 DEF Brought, Ref
<1>6. {"result", "data", "schema"} \cap DOMAIN heap[u] = {}
  <2>1. CASE ByKey(heap[u], fields)
    BY <2>1 DEF ByKey, FieldsAnswered
  <2>2. CASE ByLabel(heap[u], fields)
    <3>1. \A key \in Keys(fields) : Label[key] \notin PortNames
      BY <1>2, LabelAssumption DEF Distinct, Keys
    <3>2. {"result", "data", "schema"} \subseteq PortNames
      BY DEF PortNames
    <3>3. DOMAIN heap[u] = {Label[key] : key \in Keys(fields)}
      BY <2>2 DEF ByLabel
    <3> QED
      BY <3>1, <3>2, <3>3
  <2> QED
    BY <1>1, <2>1, <2>2
<1>7. PICK b \in DOMAIN heap : outputs[t] = [data |-> Ref(b)] /\ Alike(heap[b], Brought(w))
  BY <1>0, <1>5, <1>6 DEF TerminalLeft
<1> QED
  BY <1>1, <1>5, <1>7

AnswerReported(a, t) ==
  LET fields == asked[a].fields
  IN \/ asked[a].as \in {"other", "not asked"}
     \/ \E port \in PortNames : Keys(fields) = {port}
     \/ Keys(fields) \cap {"result", "data", "schema"} # {}
     \/ \A i \in DOMAIN fields : fields[i].key \in SchemaKeys =>
          /\ fields[i].key \in DOMAIN report[ReportKey(t)]
          /\ Stands(fields[i], report[ReportKey(t)][fields[i].key].value)

LEMMA AnswersReported ==
  ASSUME Designed, IInv, HeapInv, LeftInv, Acyclic, ObjectsStay, ConcludeReport
  PROVE  AnswersArrive'
<1>1. UNCHANGED <<design, graph, asked>> /\ OfKind("ai")' = OfKind("ai")
  BY DEF ConcludeReport, OfKind
<1>2. SchemaKeys' = SchemaKeys /\ \A n : ReportKey(n)' = ReportKey(n)
  BY <1>1, SchemaStays DEF ReportKey, OfKind, Config
<1>3. ASSUME NEW a \in OfKind("ai"), NEW t \in Delivering(a)', FieldsAnswered(a),
             NEW i \in DOMAIN asked[a].fields, asked[a].fields[i].key \in SchemaKeys
      PROVE  /\ asked[a].fields[i].key \in DOMAIN report'[ReportKey(t)]
             /\ Stands(asked[a].fields[i], report'[ReportKey(t)][asked[a].fields[i].key].value)
  <2> DEFINE fields == asked[a].fields
             field == asked[a].fields[i]
  <2>1. /\ t \in Nodes /\ Executor(t) = "terminal" /\ Dealt(t, {"completed"})
        /\ Len(Arrivals(t)) = 1 /\ Arrivals(t)[1].link.source = a
        /\ report'[ReportKey(t)] = Cells(Key(outputs[t], "data"))
    BY ReportHas
  <2>2. a \in Nodes
    BY DEF OfKind
  <2>3. LeftBy(a) /\ LeftBy(t)
    BY <2>1, <2>2 DEF LeftInv
  <2>4. AnswerLeft(a) /\ TerminalLeft(t)
    BY <2>3 DEF LeftBy
  <2>5. PICK b, u \in DOMAIN heap :
          /\ outputs[t] = [data |-> Ref(b)] /\ Alike(heap[b], heap[u])
          /\ ByKey(heap[u], fields) \/ ByLabel(heap[u], fields)
    BY <1>3, <2>1, <2>2, <2>4, AnswerGiven
  <2>6. Key(outputs[t], "data") = Ref(b)
    BY <2>5 DEF Key
  <2>7. Flat(Ref(b)) = heap[b]
    BY DEF Flat, Ref
  <2> DEFINE picked == Picked(heap[b])
  <2>8. report'[ReportKey(t)] = [key \in DOMAIN picked |-> Cell(key, picked[key])]
    BY <2>1, <2>6, <2>7 DEF Cells
  <2>9. Distinct(fields)
    BY <1>3, <2>4 DEF AnswerLeft, FieldsAnswered
  <2>10. Len(heap) \in Nat
    BY HeapSize DEF HeapInv, Well
  <2>11. field.key \in DOMAIN picked /\ Stands(field, picked[field.key])
    BY <1>3, <2>5, <2>9, <2>10, AnswerPicked
  <2> HIDE DEF picked
  <2>12. Cell(field.key, picked[field.key]).value = picked[field.key]
    BY DEF Cell
  <2> QED
    BY <2>8, <2>11, <2>12
<1>4. ASSUME NEW a \in OfKind("ai"), NEW t \in Delivering(a)' PROVE AnswerReported(a, t)'
  <2> DEFINE fields == asked[a].fields
  <2>1. CASE ~FieldsAnswered(a)
    BY <1>1, <2>1 DEF AnswerReported, FieldsAnswered
  <2>2. CASE \A i \in DOMAIN fields : fields[i].key \in SchemaKeys =>
               /\ fields[i].key \in DOMAIN report'[ReportKey(t)]
               /\ Stands(fields[i], report'[ReportKey(t)][fields[i].key].value)
    BY <1>1, <1>2, <2>2 DEF AnswerReported
  <2> QED
    BY <1>3, <2>1, <2>2
<1>5. AnswersArrive' <=> (pc' = "done" => \A a \in OfKind("ai")' : \A t \in Delivering(a)' : AnswerReported(a, t)')
  BY DEF AnswersArrive, AnswerReported, Stands, Keys
<1> QED
  BY <1>1, <1>4, <1>5

-------------------------------------------------------------------------------
(***************************************************************************)
(* From a merger's list to the report.                                     *)
(***************************************************************************)
LEMMA ConcatenatedAre ==
  ASSUME NEW S, NEW schemas \in Seq(Seq(S))
  PROVE  Concatenated(schemas) \in Seq(S)
<1> DEFINE more(s, k) == s \o schemas[k]
           Found(f, n) == f = [k \in 0..n |-> IF k = 0 THEN <<>> ELSE more(f[k - 1], k)]
           P == {n \in Nat : \E f : Found(f, n)}
<1> DEFINE found == CHOOSE f : Found(f, Len(schemas))
<1>0. Concatenated(schemas) = found[Len(schemas)]
  BY DEF Concatenated
<1> HIDE DEF more
<1>1. 0 \in P
  <2>1. Found([k \in 0..0 |-> <<>>], 0)
    OBVIOUS
  <2> QED
    BY <2>1
<1>2. ASSUME NEW n \in Nat, n \in P PROVE n + 1 \in P
  <2>1. PICK f : Found(f, n)
    BY <1>2
  <2> DEFINE g == [k \in 0..(n + 1) |-> IF k = n + 1 THEN more(f[n], n + 1) ELSE f[k]]
  <2>2. ASSUME NEW k \in 0..(n + 1)
        PROVE  g[k] = IF k = 0 THEN <<>> ELSE more(g[k - 1], k)
    <3>1. CASE k = n + 1
      BY <3>1
    <3>2. CASE k \in 0..n
      BY <2>1, <3>2
    <3> QED
      BY <3>1, <3>2
  <2>3. Found(g, n + 1)
    BY <2>2
  <2> HIDE DEF g, Found
  <2> QED
    BY <2>3
<1>3. Len(schemas) \in Nat /\ DOMAIN schemas = 1..Len(schemas)
  BY LenProperties
<1>4. \E f : Found(f, Len(schemas))
  BY <1>1, <1>2, <1>3, AllNaturals
<1>5. Found(found, Len(schemas))
  BY <1>4
<1> HIDE DEF found
<1>7. found[0] = <<>>
  BY <1>3, <1>5
<1>8. \A k \in 0..(Len(schemas) - 1) : found[k + 1] = more(found[k], k + 1)
  BY <1>3, <1>5
<1> DEFINE Q == {k \in 0..Len(schemas) : found[k] \in Seq(S)}
<1>9. 0 \in Q
  <2>1. found[0] \in Seq(S)
    BY <1>7, EmptySeq
  <2> QED
    BY <1>3, <2>1
<1>10. \A k \in 0..(Len(schemas) - 1) : k \in Q => k + 1 \in Q
  <2> SUFFICES ASSUME NEW k \in 0..(Len(schemas) - 1), found[k] \in Seq(S)
               PROVE  found[k + 1] \in Seq(S)
    BY <1>3
  <2>1. schemas[k + 1] \in Seq(S)
    BY <1>3, ElementOfSeq
  <2>2. found[k] \o schemas[k + 1] \in Seq(S)
    BY <2>1, ConcatProperties
  <2> QED
    BY <1>8, <2>2 DEF more
<1> HIDE DEF Q
<1>11. \A k \in 0..Len(schemas) : k \in Q
  BY <1>3, <1>9, <1>10, UpTo
<1> QED
  BY <1>0, <1>3, <1>11 DEF Q

\* Each field of the gathered ones is there once.
LEMMA GatheredAre ==
  ASSUME NEW S, NEW fields \in Seq(S)
  PROVE  LET all == Gathered(fields)
         IN /\ Len(all) \in Nat /\ DOMAIN all = 1..Len(all)
            /\ \A i, j \in DOMAIN all : all[i].key = all[j].key => i = j
<1> DEFINE same(key) == {i \in DOMAIN fields : fields[i].key = key}
           s == [i \in DOMAIN fields |-> fields[Greatest(same(fields[i].key))]]
           I == {i \in DOMAIN fields : \A j \in 1..(i - 1) : fields[j].key # fields[i].key}
<1>1. Len(fields) \in Nat /\ DOMAIN fields = 1..Len(fields)
  BY LenProperties
<1>2. Gathered(fields) = Chosen(s, I)
  BY DEF Gathered
<1>3. DOMAIN s = 1..Len(fields) /\ Len(s) = Len(fields)
  BY <1>1
<1>4. ASSUME NEW i \in DOMAIN fields PROVE s[i].key = fields[i].key
  <2>1. same(fields[i].key) # {} /\ same(fields[i].key) \in SUBSET (1..Len(fields))
    BY <1>1
  <2>2. s[i] = fields[Greatest(same(fields[i].key))]
    OBVIOUS
  <2> HIDE DEF s
  <2>3. Greatest(same(fields[i].key)) \in same(fields[i].key)
    <3> HIDE DEF same
    <3> QED
      BY <1>1, <2>1, MaxOf
  <2> QED
    BY <2>2, <2>3
<1>5. \A i, j \in I : fields[i].key = fields[j].key => i = j
  BY <1>1
<1>6. I \in SUBSET DOMAIN fields /\ DOMAIN fields = DOMAIN s
  OBVIOUS
<1> HIDE DEF s, I
<1>7. /\ DOMAIN Chosen(s, I) = 1..Cardinality(I) /\ Cardinality(I) \in Nat
      /\ Len(Chosen(s, I)) = Cardinality(I)
  BY <1>1, <1>3, <1>6, ChosenFrom
<1>8. ASSUME NEW k \in DOMAIN Chosen(s, I), NEW l \in DOMAIN Chosen(s, I),
             Chosen(s, I)[k].key = Chosen(s, I)[l].key
      PROVE  k = l
  <2>1. \A i \in 1..Cardinality(I) : Nth(I, i) \in I /\ Rank(I, Nth(I, i)) = i
    BY <1>1, <1>6, Ranked
  <2>2. /\ k \in 1..Cardinality(I) /\ l \in 1..Cardinality(I)
        /\ Chosen(s, I)[k] = s[Nth(I, k)] /\ Chosen(s, I)[l] = s[Nth(I, l)]
    BY DEF Chosen
  <2>3. Nth(I, k) \in I /\ Nth(I, l) \in I
    BY <2>1, <2>2
  <2>4. fields[Nth(I, k)].key = fields[Nth(I, l)].key
    BY <1>4, <1>6, <1>8, <2>2, <2>3
  <2>5. Nth(I, k) = Nth(I, l)
    BY <1>5, <2>3, <2>4
  <2> QED
    BY <2>1, <2>2, <2>5
<1> QED
  BY <1>2, <1>7, <1>8

LEMMA ReportFields ==
  ASSUME Designed
  PROVE  /\ Len(ReportSchema) \in Nat /\ DOMAIN ReportSchema = 1..Len(ReportSchema)
         /\ \A i, j \in DOMAIN ReportSchema : ReportSchema[i].key = ReportSchema[j].key => i = j
<1> DEFINE S == [key : STRING, type : STRING]
           own(n) == IF Config(n).category = "schema" THEN Config(n).schema ELSE <<>>
           schemas == [k \in DOMAIN Insertion |-> own(Insertion[k])]
<1>1. ReportSchema = Gathered(Concatenated(schemas))
  BY DEF ReportSchema
<1>2. Len(Insertion) \in Nat /\ DOMAIN Insertion = 1..Len(Insertion) /\ \A k \in DOMAIN Insertion : Insertion[k] \in Nodes
  BY FlowAssumption DEF ToSet
<1>3. \A n \in Nodes : own(n) \in Seq(S)
  <2> SUFFICES ASSUME NEW n \in Nodes PROVE own(n) \in Seq(S)
    OBVIOUS
  <2>1. Config(n).schema \in Seq(S)
    BY DesignAssumption DEF Designed, Configured, SchemaFields, Config
  <2>2. <<>> \in Seq(S)
    BY EmptySeq
  <2> QED
    BY <2>1, <2>2
<1> HIDE DEF own, S
<1>4. schemas \in Seq(Seq(S))
  <2>1. \A k \in 1..Len(Insertion) : own(Insertion[k]) \in Seq(S)
    BY <1>2, <1>3
  <2> QED
    BY <1>2, <2>1
<1> HIDE DEF schemas
<1>5. Concatenated(schemas) \in Seq(S)
  BY <1>4, ConcatenatedAre
<1> QED
  BY <1>1, <1>5, GatheredAre

\* Places that no wire before them is left out of are the same among all the
\* wires and among those with a value.
LEMMA PlacesKept ==
  ASSUME NEW m \in Nat, NEW J \in SUBSET (1..m), NEW I \in SUBSET J, NEW i \in 1..Cardinality(J),
         \A j \in 1..i : Nth(J, j) \in I
  PROVE  i \in 1..Cardinality(I) /\ Nth(I, i) = Nth(J, i)
<1>1. /\ IsFiniteSet(J) /\ Cardinality(J) \in Nat
      /\ \A k \in 1..Cardinality(J) : Nth(J, k) \in J /\ Rank(J, Nth(J, k)) = k
      /\ \A j \in J : \E k \in 1..Cardinality(J) : Nth(J, k) = j
  BY Ranked
<1>2. /\ Cardinality(I) \in Nat
      /\ \A k \in 1..Cardinality(I) : Rank(I, Nth(I, k)) = k
      /\ \A j \in I : \E k \in 1..Cardinality(I) : Nth(I, k) = j
  <2>1. I \in SUBSET (1..m)
    OBVIOUS
  <2> QED
    BY <2>1, Ranked
<1>3. PICK x \in J : x = Nth(J, i) /\ Rank(J, x) = i
  BY <1>1
<1>4. i \in 1..i /\ x \in I /\ x \in Nat
  <2>1. i \in 1..i
    BY <1>1
  <2> QED
    BY <1>3, <2>1
<1>5. ASSUME NEW y \in J, y <= x PROVE y \in I
  <2>1. PICK k \in 1..Cardinality(J) : Nth(J, k) = y /\ Rank(J, y) = k
    BY <1>1
  <2>2. {j \in J : j <= y} \subseteq {j \in J : j <= x}
    <3> SUFFICES ASSUME NEW j \in J, j <= y PROVE j <= x
      OBVIOUS
    <3>1. j \in Nat /\ y \in Nat
      OBVIOUS
    <3> QED
      BY <1>4, <1>5, <3>1
  <2>3. IsFiniteSet({j \in J : j <= x})
    <3>1. {j \in J : j <= x} \subseteq J
      OBVIOUS
    <3> QED
      BY <1>1, <3>1, FS_Subset
  <2>4. Cardinality({j \in J : j <= y}) <= Cardinality({j \in J : j <= x})
    BY <2>2, <2>3, FS_Subset
  <2>5. Rank(J, y) <= Rank(J, x)
    BY <2>4 DEF Rank
  <2>6. k \in 1..i
    BY <1>1, <1>3, <2>1, <2>5
  <2> QED
    BY <2>1, <2>6
<1>6. Rank(I, x) = Rank(J, x)
  <2>1. {j \in I : j <= x} = {j \in J : j <= x}
    BY <1>5
  <2> QED
    BY <2>1 DEF Rank
<1>7. PICK k \in 1..Cardinality(I) : Nth(I, k) = x
  BY <1>2, <1>4
<1>8. k = i
  BY <1>2, <1>3, <1>6, <1>7
<1> QED
  BY <1>3, <1>7, <1>8

\* The connections into node n, in their order.
Wires(n) == Chosen(design.wires, {i \in DOMAIN design.wires : design.wires[i].link.target = n})

LEMMA SlotFilled ==
  ASSUME Designed, IInv, NEW g, NEW i \in DOMAIN Wires(g), \A j \in 1..i : Wires(g)[j] \in ToSet(Arrivals(g))
  PROVE  i \in DOMAIN Arrivals(g) /\ Arrivals(g)[i] = Wires(g)[i]
<1> DEFINE wires == design.wires
           J == {k \in DOMAIN wires : wires[k].link.target = g}
           I == {k \in DOMAIN wires : wires[k].link.target = g /\ Carries(wires[k])}
<1>1. Len(wires) \in Nat /\ DOMAIN wires = 1..Len(wires)
  BY Wired
<1>2. \A k, l \in DOMAIN wires : wires[k] = wires[l] => k = l
  BY DesignAssumption DEF Designed, Configured
<1>3. Wires(g) = Chosen(wires, J) /\ Arrivals(g) = Chosen(wires, I)
  BY DEF Wires, Arrivals
<1>4. \A w \in ToSet(Arrivals(g)) : Carries(w)
  BY ArrivedAre DEF ToSet
<1>5. J \in SUBSET DOMAIN wires /\ I \in SUBSET J /\ \A k \in J : Carries(wires[k]) => k \in I
  OBVIOUS
<1> HIDE DEF wires, J, I
<1>6. DOMAIN Wires(g) = 1..Cardinality(J) /\ \A k \in DOMAIN Wires(g) : Wires(g)[k] = wires[Nth(J, k)]
  BY <1>3 DEF Chosen
<1>7. DOMAIN Arrivals(g) = 1..Cardinality(I) /\ \A k \in DOMAIN Arrivals(g) : Arrivals(g)[k] = wires[Nth(I, k)]
  BY <1>3 DEF Chosen
<1>8. J \in SUBSET (1..Len(wires)) /\ i \in 1..Cardinality(J)
  BY <1>1, <1>5, <1>6
<1>9. Cardinality(J) \in Nat /\ \A k \in 1..Cardinality(J) : Nth(J, k) \in J
  BY <1>1, <1>8, Ranked
<1>10. ASSUME NEW j \in 1..i PROVE Nth(J, j) \in I
  <2>1. j \in 1..Cardinality(J)
    BY <1>8, <1>9
  <2>2. Carries(wires[Nth(J, j)])
    BY <1>4, <1>6, <2>1
  <2> QED
    BY <1>5, <1>9, <2>1, <2>2
<1>11. i \in 1..Cardinality(I) /\ Nth(I, i) = Nth(J, i)
  BY <1>1, <1>5, <1>8, <1>10, PlacesKept
<1> QED
  BY <1>6, <1>7, <1>11

\* An object with nothing but a list under the name of a port.
ListUnder(object, list) ==
  \E port \in {"in", "out", "items"} : DOMAIN object = {port} /\ object[port] = list

\* The list is looked for below the ports, and stays where it is found.
LEMMA BehindList ==
  ASSUME NEW object, NEW list, list.is = "list", ListUnder(object, list)
  PROVE  DOMAIN Behind(object) = {"items"} /\ Behind(object)["items"] = list
<1> DEFINE in == Key(object, "in")
           inner == IF in.is \in {"list", "object"} THEN in ELSE Key(object, "out")
<1>1. Behind(object) =
        CASE ~(DOMAIN object \subseteq {"in", "out"}) -> object
          [] inner.is = "list" -> [items |-> inner]
          [] inner.is = "object" -> heap[inner.at]
          [] OTHER -> object
  BY DEF Behind
<1>2. PICK port \in {"in", "out", "items"} : DOMAIN object = {port} /\ object[port] = list
  BY DEF ListUnder
<1>3. CASE port = "items"
  <2>1. Key(object, "in") = Undefined /\ Key(object, "out") = Undefined
    BY <1>2, <1>3 DEF Key
  <2>2. inner = Undefined
    BY <2>1 DEF Undefined
  <2>3. inner.is = "undefined"
    BY <2>2 DEF Undefined
  <2> HIDE DEF inner
  <2>4. ~(DOMAIN object \subseteq {"in", "out"})
    BY <1>2, <1>3
  <2>5. Behind(object) = object
    BY <1>1, <2>3, <2>4
  <2> QED
    BY <1>2, <1>3, <2>5
<1>4. CASE port \in {"in", "out"}
  <2>1. inner = list
    <3>1. CASE port = "in"
      BY <1>2, <3>1 DEF Key
    <3>2. CASE port = "out"
      <4>1. in = Undefined /\ Key(object, "out") = list
        BY <1>2, <3>2 DEF Key
      <4> HIDE DEF in
      <4> QED
        BY <4>1 DEF Undefined
    <3> QED
      BY <1>4, <3>1, <3>2
  <2> HIDE DEF inner
  <2>2. DOMAIN object \subseteq {"in", "out"}
    BY <1>2, <1>4
  <2>3. Behind(object) = [items |-> list]
    BY <1>1, <2>1, <2>2
  <2> QED
    BY <2>3
<1> QED
  BY <1>3, <1>4

LEMMA ListLevels ==
  ASSUME NEW object, NEW list, list.is = "list", ListUnder(object, list), Len(heap) \in Nat \ {0}
  PROVE  /\ \A k \in 0..Len(heap) : ListUnder(Levels(object)[k], list)
         /\ Key(Levels(object)[Len(heap)], "items") = list
<1> DEFINE level == Levels(object)
           P == {k \in 0..Len(heap) : ListUnder(level[k], list)}
<1>1. /\ level[0] = object
      /\ \A k \in 0..(Len(heap) - 1) : level[k + 1] = Behind(level[k])
  BY LevelFacts
<1> HIDE DEF level
<1>2. 0 \in P
  BY <1>1
<1>3. ASSUME NEW k \in 0..(Len(heap) - 1), ListUnder(level[k], list)
      PROVE  DOMAIN level[k + 1] = {"items"} /\ level[k + 1]["items"] = list
  <2>1. level[k + 1] = Behind(level[k])
    BY <1>1
  <2> QED
    BY <1>3, <2>1, BehindList
<1>4. \A k \in 0..(Len(heap) - 1) : k \in P => k + 1 \in P
  <2> SUFFICES ASSUME NEW k \in 0..(Len(heap) - 1), ListUnder(level[k], list)
               PROVE  k + 1 \in 0..Len(heap) /\ ListUnder(level[k + 1], list)
    OBVIOUS
  <2>1. k + 1 \in 0..Len(heap)
    OBVIOUS
  <2>2. ListUnder(level[k + 1], list)
    BY <1>3 DEF ListUnder
  <2> QED
    BY <2>1, <2>2
<1> HIDE DEF P
<1>5. \A k \in 0..Len(heap) : k \in P
  BY <1>2, <1>4, UpTo
<1>6. \A k \in 0..Len(heap) : ListUnder(level[k], list)
  BY <1>5 DEF P
<1>7. Key(level[Len(heap)], "items") = list
  <2>1. PICK k \in 0..(Len(heap) - 1) : k + 1 = Len(heap)
    <3>1. Len(heap) - 1 \in 0..(Len(heap) - 1) /\ Len(heap) - 1 + 1 = Len(heap)
      OBVIOUS
    <3> QED
      BY <3>1
  <2>2. k \in 0..Len(heap)
    OBVIOUS
  <2>3. DOMAIN level[k + 1] = {"items"} /\ level[k + 1]["items"] = list
    BY <1>3, <1>6, <2>2
  <2> QED
    BY <2>1, <2>3 DEF Key
<1> QED
  BY <1>6, <1>7 DEF level

\* No field of the schema is found in such an object.
LEMMA ListNoField ==
  ASSUME NEW object, NEW list, ListUnder(object, list), SchemaKeys # {},
         {"in", "out", "items"} \cap SchemaKeys = {}
  PROVE  DOMAIN FieldsIn(object) = {}
<1>1. DOMAIN FieldsIn(object) = {k \in SchemaKeys : ForField(object, k) # Undefined}
  BY DEF FieldsIn
<1>2. PICK port \in {"in", "out", "items"} : DOMAIN object = {port}
  BY DEF ListUnder
<1>3. ASSUME NEW k \in SchemaKeys PROVE ForField(object, k) = Undefined
  <2>1. k \notin DOMAIN object
    BY <1>2
  <2>2. ASSUME k \in DOMAIN Label PROVE Label[k] \notin DOMAIN object
    BY <1>2, <2>2, LabelAssumption DEF PortNames
  <2> QED
    BY <2>1, <2>2 DEF ForField, Key
<1> QED
  BY <1>1, <1>3

\* The fields of the schema get the elements of the list, in their order.
LEMMA ListPicked ==
  ASSUME Designed, Len(heap) \in Nat \ {0}, NEW values, Len(values) \in Nat, NEW object,
         ListUnder(object, List(values)), {"in", "out", "items"} \cap SchemaKeys = {},
         NEW i \in DOMAIN ReportSchema, i <= Len(values)
  PROVE  /\ ReportSchema[i].key \in DOMAIN Picked(object)
         /\ Picked(object)[ReportSchema[i].key] = Scalar(values[i])
<1> DEFINE level == Levels(object)
           levels == {k \in 0..Len(heap) : DOMAIN FieldsIn(level[k]) # {}}
           items == Key(level[Len(heap)], "items")
           at(slots, key) == CHOOSE j \in 1..slots : ReportSchema[j].key = key
           slots == IF items.is # "list" THEN 0
                    ELSE CHOOSE k \in {Len(items.items), Len(ReportSchema)} :
                           k <= Len(items.items) /\ k <= Len(ReportSchema)
           listed == [key \in {ReportSchema[j].key : j \in 1..slots} |->
                        Scalar(items.items[at(slots, key)])]
<1>1. Picked(object) = IF levels # {} THEN FieldsIn(level[Least(levels)]) ELSE listed
  BY DEF Picked
<1> DEFINE list == List(values)
<1>2. list.is = "list" /\ list.items = values
  BY DEF List
<1>3. SchemaKeys # {}
  BY DEF SchemaKeys
<1> HIDE DEF list
<1>4. ListUnder(object, list)
  BY DEF list
<1>5. /\ \A k \in 0..Len(heap) : ListUnder(level[k], list)
      /\ items = list
  BY <1>2, <1>4, ListLevels
<1> HIDE DEF level
<1>6. ASSUME NEW k \in 0..Len(heap) PROVE DOMAIN FieldsIn(level[k]) = {}
  BY <1>3, <1>5, ListNoField
<1>7. Picked(object) = listed
  BY <1>1, <1>6
<1>8. /\ Len(ReportSchema) \in Nat /\ DOMAIN ReportSchema = 1..Len(ReportSchema)
      /\ \A j, k \in DOMAIN ReportSchema : ReportSchema[j].key = ReportSchema[k].key => j = k
  BY ReportFields
<1> HIDE DEF items
<1>9. slots \in Nat /\ slots <= Len(ReportSchema) /\ i \in 1..slots
  <2>1. slots = CHOOSE k \in {Len(values), Len(ReportSchema)} :
                  k <= Len(values) /\ k <= Len(ReportSchema)
    BY <1>2, <1>5
  <2>2. \E k \in {Len(values), Len(ReportSchema)} : k <= Len(values) /\ k <= Len(ReportSchema)
    BY <1>8
  <2> HIDE DEF slots
  <2>3. /\ slots \in {Len(values), Len(ReportSchema)}
        /\ slots <= Len(values) /\ slots <= Len(ReportSchema)
    BY <2>1, <2>2
  <2> QED
    BY <1>8, <2>3
<1> HIDE DEF slots
<1>10. at(slots, ReportSchema[i].key) = i
  BY <1>8, <1>9
<1>11. ReportSchema[i].key \in {ReportSchema[j].key : j \in 1..slots}
  BY <1>9
<1> HIDE DEF at
<1>12. ReportSchema[i].key \in DOMAIN listed /\ listed[ReportSchema[i].key] = Scalar(items.items[i])
  BY <1>10, <1>11
<1> HIDE DEF listed
<1> QED
  BY <1>2, <1>5, <1>7, <1>12

\* The terminal holds the merger's list under the name of the port.
LEMMA ListGiven ==
  ASSUME Designed, IInv, HeapInv, NEW g \in Nodes, NEW t \in Nodes, MergerLeft(g), TerminalLeft(t),
         Executor(t) = "terminal", Dealt(t, {"completed"}), Executor(g) = "merger",
         Len(Arrivals(t)) = 1, Arrivals(t)[1].link.source = g,
         Arrivals(t)[1].link.port \in {"in", "out", "items"}
  PROVE  \E b \in DOMAIN heap :
           /\ outputs[t] = [data |-> Ref(b)]
           /\ ListUnder(heap[b], List(Values(Arrivals(g))))
<1>1. PICK w : w = Arrivals(t)[1]
  OBVIOUS
<1>2. /\ w.from \in DOMAIN outputs[w.link.source] /\ Carries(w)
  <2>1. DOMAIN Arrivals(t) = 1..Len(Arrivals(t))
    BY ArrivedAre
  <2>2. 1 \in DOMAIN Arrivals(t)
    BY <2>1
  <2> QED
    BY <1>1, <2>2, ArrivedAre
<1> DEFINE list == List(Values(Arrivals(g)))
<1>3. outputs[g] = [out |-> list]
  <2>1. w.link.source = g
    BY <1>1
  <2>2. Dealt(g, {"completed"})
    BY <1>2, <2>1 DEF Carries
  <2> QED
    BY <2>2 DEF MergerLeft
<1>4. list.is = "list"
  BY DEF List
<1> HIDE DEF list
<1>5. Value(w) = list
  <2>1. w.link.source = g
    BY <1>1
  <2> QED
    BY <1>2, <1>3, <2>1 DEF Value
<1>6. Brought(w) = [port \in {w.link.port} |-> list]
  BY <1>4, <1>5 DEF Brought
<1>7. w.link.port \in {"in", "out", "items"}
  BY <1>1
<1>8. DOMAIN Brought(w) = {w.link.port} /\ Brought(w)[w.link.port] = list
  BY <1>6
<1>9. {"result", "data", "schema"} \cap DOMAIN Brought(w) = {}
  BY <1>7, <1>8
<1>10. PICK b \in DOMAIN heap : outputs[t] = [data |-> Ref(b)] /\ Alike(heap[b], Brought(w))
  BY <1>1, <1>9 DEF TerminalLeft
<1>11. ListUnder(heap[b], list)
  BY <1>7, <1>8, <1>10 DEF ListUnder, Alike
<1> QED
  BY <1>10, <1>11 DEF list

\* What the report has of merger g by terminal t.
SlotReported(g, t) ==
  Executor(g) = "merger" /\ {"in", "out", "items"} \cap SchemaKeys = {}
    /\ Arrivals(t)[1].link.port \in {"in", "out", "items"} =>
  \A i \in DOMAIN Wires(g) \cap DOMAIN ReportSchema :
    (\A j \in 1..i : Wires(g)[j] \in ToSet(Arrivals(g))) =>
      /\ ReportSchema[i].key \in DOMAIN report[ReportKey(t)]
      /\ report[ReportKey(t)][ReportSchema[i].key].value = Scalar(Value(Wires(g)[i]))

\* The end of the run, and what comes after it, leave what was computed alone.
LEMMA ComputedStays ==
  ASSUME UNCHANGED <<design, graph, heap, outputs, tries>>
  PROVE  /\ ReportSchema' = ReportSchema /\ SchemaKeys' = SchemaKeys
         /\ \A n : /\ Arrivals(n)' = Arrivals(n) /\ Wires(n)' = Wires(n)
                   /\ Executor(n)' = Executor(n) /\ ReportKey(n)' = ReportKey(n)
         /\ \A kind : OfKind(kind)' = OfKind(kind)
         /\ \A value : Scalar(value)' = Scalar(value)
         /\ \A w : Value(w)' = Value(w)
<1>1. \A n : Config(n)' = Config(n)
  BY DEF Config
<1>2. \A kind : OfKind(kind)' = OfKind(kind)
  BY DEF OfKind
<1>3. \A n : Arrivals(n)' = Arrivals(n) /\ Wires(n)' = Wires(n)
  BY DEF Arrivals, Wires, Carries, Dealt
<1>4. \A n : Executor(n)' = Executor(n) /\ ReportKey(n)' = ReportKey(n)
  BY <1>1, <1>2, ExecutorStays DEF ReportKey
<1>5. \A value : Scalar(value)' = Scalar(value)
  BY DEF Scalar
<1>6. \A w : Value(w)' = Value(w)
  BY DEF Value
<1> QED
  BY <1>2, <1>3, <1>4, <1>5, <1>6, SchemaStays

LEMMA SlotsReported ==
  ASSUME Designed, IInv, HeapInv, LeftInv, Acyclic, ObjectsStay, ConcludeReport
  PROVE  SlotsInOrder'
<1>1. UNCHANGED <<design, graph, heap, outputs, tries>>
  BY DEF ConcludeReport
<1>2. /\ ReportSchema' = ReportSchema /\ SchemaKeys' = SchemaKeys
      /\ \A n : /\ Arrivals(n)' = Arrivals(n) /\ Wires(n)' = Wires(n)
                /\ Executor(n)' = Executor(n) /\ ReportKey(n)' = ReportKey(n)
      /\ \A value : Scalar(value)' = Scalar(value)
      /\ \A w : Value(w)' = Value(w)
  BY <1>1, ComputedStays
<1>3. ASSUME NEW g \in Nodes, NEW t \in Delivering(g)',
             Executor(g) = "merger", {"in", "out", "items"} \cap SchemaKeys = {},
             Arrivals(t)[1].link.port \in {"in", "out", "items"},
             NEW i \in DOMAIN Wires(g) \cap DOMAIN ReportSchema,
             \A j \in 1..i : Wires(g)[j] \in ToSet(Arrivals(g))
      PROVE  /\ ReportSchema[i].key \in DOMAIN report'[ReportKey(t)]
             /\ report'[ReportKey(t)][ReportSchema[i].key].value = Scalar(Value(Wires(g)[i]))
  <2>1. /\ t \in Nodes /\ Executor(t) = "terminal" /\ Dealt(t, {"completed"})
        /\ Len(Arrivals(t)) = 1 /\ Arrivals(t)[1].link.source = g
        /\ report'[ReportKey(t)] = Cells(Key(outputs[t], "data"))
    BY ReportHas
  <2>2. MergerLeft(g) /\ TerminalLeft(t)
    BY <2>1 DEF LeftInv, LeftBy
  <2> DEFINE values == Values(Arrivals(g))
             key == ReportSchema[i].key
  <2>3. PICK b \in DOMAIN heap : outputs[t] = [data |-> Ref(b)] /\ ListUnder(heap[b], List(values))
    BY <1>3, <2>1, <2>2, ListGiven
  <2>4. Key(outputs[t], "data") = Ref(b)
    BY <2>3 DEF Key
  <2>5. Flat(Ref(b)) = heap[b]
    BY DEF Flat, Ref
  <2> DEFINE picked == Picked(heap[b])
  <2>6. report'[ReportKey(t)] = [k \in DOMAIN picked |-> Cell(k, picked[k])]
    BY <2>1, <2>4, <2>5 DEF Cells
  <2>7. Len(heap) \in Nat \ {0}
    <3>1. Len(heap) \in Nat /\ DOMAIN heap = 1..Len(heap)
      BY HeapSize DEF HeapInv, Well
    <3> QED
      BY <3>1
  <2>8. i \in DOMAIN Arrivals(g) /\ Arrivals(g)[i] = Wires(g)[i]
    BY <1>3, SlotFilled
  <2>9. Len(values) \in Nat /\ i <= Len(values) /\ values[i] = Value(Wires(g)[i])
    <3>1. Len(Arrivals(g)) \in Nat /\ DOMAIN Arrivals(g) = 1..Len(Arrivals(g))
      BY ArrivedAre
    <3>2. values = [k \in DOMAIN Arrivals(g) |-> Value(Arrivals(g)[k])]
      BY DEF Values
    <3> HIDE DEF values
    <3>3. Len(values) = Len(Arrivals(g)) /\ values[i] = Value(Arrivals(g)[i])
      BY <2>8, <3>1, <3>2
    <3> QED
      BY <2>8, <3>1, <3>3
  <2> HIDE DEF values
  <2>10. key \in DOMAIN picked /\ picked[key] = Scalar(values[i])
    BY <1>3, <2>3, <2>7, <2>9, ListPicked
  <2> HIDE DEF picked
  <2>11. Cell(key, picked[key]).value = picked[key]
    BY DEF Cell
  <2> QED
    BY <2>6, <2>9, <2>10, <2>11
<1>4. ASSUME NEW g \in Nodes, NEW t \in Delivering(g)' PROVE SlotReported(g, t)'
  BY <1>2, <1>3 DEF SlotReported
<1>5. SlotsInOrder' <=>
        (pc' = "done" => \A g \in Nodes : \A t \in Delivering(g)' : SlotReported(g, t)')
  BY DEF SlotsInOrder, SlotReported, Wires
<1> QED
  BY <1>4, <1>5

-------------------------------------------------------------------------------
(***************************************************************************)
(* The report stays as it was put together.                                *)
(***************************************************************************)
Reported == Acyclic /\ ObjectsStay => AnswersArrive /\ SlotsInOrder

LEMMA ReportStays ==
  ASSUME UNCHANGED <<vars, nodeVars>>
  PROVE  (AnswersArrive' <=> AnswersArrive) /\ (SlotsInOrder' <=> SlotsInOrder)
<1>1. UNCHANGED <<design, graph, heap, outputs, tries, asked, report, data, pc>>
  BY DEF vars, nodeVars
<1>2. /\ ReportSchema' = ReportSchema /\ SchemaKeys' = SchemaKeys
      /\ \A n : /\ Arrivals(n)' = Arrivals(n) /\ Wires(n)' = Wires(n)
                /\ Executor(n)' = Executor(n) /\ ReportKey(n)' = ReportKey(n)
      /\ \A kind : OfKind(kind)' = OfKind(kind)
      /\ \A value : Scalar(value)' = Scalar(value)
      /\ \A w : Value(w)' = Value(w)
  BY <1>1, ComputedStays
<1>3. \A n : Delivering(n)' = Delivering(n)
  BY <1>1, <1>2 DEF Delivering
<1>4. \A a, t : AnswerReported(a, t)' <=> AnswerReported(a, t)
  BY <1>1, <1>2 DEF AnswerReported
<1>5. \A g, t : SlotReported(g, t)' <=> SlotReported(g, t)
  BY <1>1, <1>2 DEF SlotReported
<1>6. /\ AnswersArrive <=>
           (pc = "done" => \A a \in OfKind("ai") : \A t \in Delivering(a) : AnswerReported(a, t))
      /\ AnswersArrive' <=>
           (pc' = "done" => \A a \in OfKind("ai")' : \A t \in Delivering(a)' : AnswerReported(a, t)')
  BY DEF AnswersArrive, AnswerReported, Stands, Keys
<1>7. /\ SlotsInOrder <=>
           (pc = "done" => \A g \in Nodes : \A t \in Delivering(g) : SlotReported(g, t))
      /\ SlotsInOrder' <=>
           (pc' = "done" => \A g \in Nodes : \A t \in Delivering(g)' : SlotReported(g, t)')
  BY DEF SlotsInOrder, SlotReported, Wires
<1>8. AnswersArrive' <=> AnswersArrive
  BY <1>1, <1>2, <1>3, <1>4, <1>6
<1>9. SlotsInOrder' <=> SlotsInOrder
  BY <1>1, <1>3, <1>5, <1>7
<1> QED
  BY <1>8, <1>9

\* There is a report only after the step that puts it together.
LEMMA DoneBy ==
  ASSUME [NodeNext]_<<vars, nodeVars>>
  PROVE  pc' # "done" \/ ConcludeReport \/ UNCHANGED <<vars, nodeVars>>
<1>1. ASSUME NEW n \in Nodes,
             \/ ExecuteInput(n) \/ ExecuteSource(n) \/ ExecuteMapper(n) \/ ExecuteMerger(n)
             \/ ExecuteSchema(n) \/ ExecuteAi(n) \/ ExecuteTerminal(n) \/ ExecutePassthrough(n)
      PROVE  pc' # "done"
  BY <1>1, Turn
<1>2. ASSUME NEW n \in Nodes, Refuse(n) \/ Propagate(n) PROVE pc' # "done"
  BY <1>2 DEF Refuse, Propagate, At
<1>3. ASSUME SortNode \/ SortRest \/ LoadConnections PROVE pc' # "done"
  BY <1>3 DEF SortNode, SortRest, LoadConnections
<1> QED
  BY <1>1, <1>2, <1>3 DEF NodeNext

LEMMA ReportedKept ==
  ASSUME Designed, IInv, HeapInv, LeftInv, Reported, [NodeNext]_<<vars, nodeVars>>
  PROVE  Reported'
<1>1. UNCHANGED <<design, graph>>
  BY DEF NodeNext, vars, nodeVars, SortNode, SortRest, LoadConnections, Refuse, Propagate, At,
         ExecuteInput, ExecuteSource, ExecuteMapper, ExecuteMerger, ExecuteSchema, ExecuteAi,
         ExecuteTerminal, ExecutePassthrough, Runs, ConcludeReport
<1>2. (Acyclic' <=> Acyclic) /\ (ObjectsStay' <=> ObjectsStay)
  BY <1>1, ExecutorStays
<1> SUFFICES ASSUME Acyclic, ObjectsStay PROVE AnswersArrive' /\ SlotsInOrder'
  BY <1>2 DEF Reported
<1>3. CASE pc' # "done"
  BY <1>3 DEF AnswersArrive, SlotsInOrder
<1>4. CASE ConcludeReport
  BY <1>4, AnswersReported, SlotsReported
<1>5. CASE UNCHANGED <<vars, nodeVars>>
  BY <1>5, ReportStays DEF Reported
<1> QED
  BY <1>3, <1>4, <1>5, DoneBy

LEMMA ReportedInit == NodeInit => Reported
BY DEF NodeInit, Init, Reported, AnswersArrive, SlotsInOrder

(***************************************************************************)
(* The fields of a schema node reach the prompt of the AI node that it     *)
(* feeds, what a model answers to them reaches the report, and the values  *)
(* of a merger fill the fields of the schema in their order: in every flow *)
(* without cycles whose mappers write only into what they made.            *)
(***************************************************************************)
THEOREM FieldsArrive == NodeSpec => []FieldsReachReport
<1>1. NodeInit => AskedInv /\ LeftInv /\ Reported
  BY AskedInit, LeftInit, ReportedInit
<1>2. Designed /\ IInv /\ HeapInv /\ AskedInv /\ [NodeNext]_<<vars, nodeVars>> => AskedInv'
  BY AskedKept
<1>3. Designed /\ IInv /\ HeapInv /\ AskedInv /\ AskedInv' /\ LeftInv
        /\ [NodeNext]_<<vars, nodeVars>> => LeftInv'
  BY LeftKept
<1>4. Designed /\ IInv /\ HeapInv /\ LeftInv /\ Reported /\ [NodeNext]_<<vars, nodeVars>> => Reported'
  BY ReportedKept
<1>5. AskedInv /\ Reported => FieldsReachReport
  <2>1. (\A n \in Nodes : SchemaArrived(n)) => SchemaArrives
    BY DEF SchemaArrived, SchemaArrives, AskedFor
  <2> QED
    BY <2>1 DEF AskedInv, Reported, FieldsReachReport
<1> QED
  BY <1>1, <1>2, <1>3, <1>4, <1>5, HeapIsSound, PTL DEF NodeSpec

===============================================================================
