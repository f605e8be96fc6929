---------------------------- MODULE MCConnections ----------------------------
(***************************************************************************)
(* One data source with an OAuth client, or two, the second of which may    *)
(* take the slug of the first.                                             *)
(***************************************************************************)
EXTENDS Connections

Seeded(slug, key, provider, client) ==
  [slug |-> slug, provider |-> provider, providerSlug |-> slug, providerKey |-> key,
   isActive |-> TRUE, catalogSource |-> "", oauth |-> client]

Insta == Seeded("insta", "my-key", "Instagram", "client1")

OneOrTwo == {1 :> Insta, 1 :> Insta @@ 2 :> Seeded("face", "", "Facebook", "client2")}

Names == {"insta", "face", "my_key", "my-key"}

NamesLower == [name \in Names |-> name]

NamesDashed == [name \in Names |-> IF name = "my_key" THEN "my-key" ELSE name]

Renames == {"providerSlug" :> "insta"}

RowSlugs == <<"face", "insta">>

Symmetry == Permutations(Callers)

\* One connection is looked for where round trips look for theirs, the other,
\* for all its userId, nowhere.
Creations ==
  {[scope |-> "organization", user |-> FALSE, apiKey |-> FALSE],
   [scope |-> "system", user |-> TRUE, apiKey |-> TRUE]}

ApiBodies == {[apiKey |-> TRUE, status |-> "revoked"], [apiKey |-> TRUE, status |-> ""]}

===============================================================================
