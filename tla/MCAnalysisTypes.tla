--------------------------- MODULE MCAnalysisTypes ---------------------------
(***************************************************************************)
(* The three catalogues for TLC: two data sources, two definitions of a    *)
(* builder category and a node type, a report type with a published        *)
(* version, one with a draft, and an analysis type.                        *)
(***************************************************************************)
EXTENDS AnalysisTypes

CONSTANTS e1, e2

Seeded(slug, key, provider, active) ==
  [slug |-> slug, provider |-> provider, providerSlug |-> slug, providerKey |-> key,
   isActive |-> active, catalogSource |-> "", oauth |-> "none"]

TwoSources ==
  {1 :> Seeded("insta", "", "Instagram", TRUE) @@ 2 :> Seeded("web", "web_key", "Scraper", FALSE)}

Names == {"insta", "web", "web_key", "new_key", "Logos"}

NamesLower == [name \in Names |-> IF name = "Logos" THEN "logos" ELSE name]

NamesDashed == [name \in Names |-> CASE name = "web_key" -> "web-key"
                                     [] name = "new_key" -> "new-key"
                                     [] OTHER -> NamesLower[name]]

Rows == {Seeded("fresh", "", "Logos", TRUE)}

CatalogRows ==
  {[key |-> "new_key", implClass |-> "Logos", isEnabled |-> FALSE],
   [key |-> "Logos", implClass |-> "", isEnabled |-> TRUE]}

RowChanges == {"provider" :> "Scraper", "providerSlug" :> "site"}

KeyChanges == {"providerKey" :> "new_key"}

Definition(category, type, provider, ports) ==
  [status |-> "active", category |-> category, type |-> type, provider |-> provider, ports |-> ports]

OneBuilder ==
  {[categories |-> <<[key |-> "sources", slug |-> "src"]>>,
    nodeTypes |-> <<[key |-> "scrape", slug |-> "scr", category |-> "sources"]>>,
    definitions |-> <<Definition("src", "", "", "in"), Definition("sources", "", "", "in")>>,
    reports |-> <<[status |-> "published", current |-> 1, draft |-> 0],
                  [status |-> "draft", current |-> 0, draft |-> 2]>>,
    versions |-> <<[flow |-> {}, flowAt |-> 0, snapshot |-> {1}, snapshotAt |-> 0],
                   [flow |-> {2}, flowAt |-> 0, snapshot |-> {}, snapshotAt |-> 0]>>]}

Definitions == {Definition("sources", "scr", "", "in")}

ArchiveOrType == {"status" :> "archived", "type" :> "scrape", "provider" :> "web", "ports" :> "none"}

Plain == {"status" :> "archived", [category |-> "any", type |-> "any", provider |-> "web", ports |-> "out"]}

OtherTypes == {[key |-> "crawl", slug |-> "scr2", category |-> "none"]}

Moves == {"category" :> "none"}

Renames == {"key" :> "inputs"}

Contracts == "web" :> "url"

DraftFlows == {{2}}

Ref(version, order) == [report |-> 1, version |-> version, order |-> order]

OneType == {<<[status |-> "draft", refs |-> {Ref(1, 1)}]>>}

Attached == {{Ref(0, 0)}}

TypeUpdates == {"status" :> "published", "refs" :> {Ref(0, 1), Ref(2, 2)}}

Symmetry == Permutations({e1, e2})

===============================================================================
