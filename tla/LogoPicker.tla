------------------------------ MODULE LogoPicker ------------------------------
(***************************************************************************)
(* How LogoPickerService finds a logo on a page: it collects candidates    *)
(* from JSON-LD, img tags and inline SVGs, scores them, and takes the best *)
(* if it is good enough.                                                   *)
(*                                                                         *)
(* A URL, a tag or a block of SVG is abstracted to the set of patterns of  *)
(* logo-candidate.scoring.ts that match it.                                *)
(***************************************************************************)
EXTENDS Integers, SequencesExt

\* "logo" is the one strong word that isClearlyNonLogoImageUrl asks for by
\* itself; "mark" stands for all the others of RE_LOGO_STRONG.  "ad" is
\* RE_AD_OR_TRACK, whose first alternative matches wherever the letters "ad"
\* occur, as in "uploads".
Words ==
  {"logo", "mark", "mild", "bad", "ad", "hero", "svg", "sprite", "favicon",
   "small", "touch", "user", "unresolved", "malformed"}

\* The sections around a position in the page; a nav inside a header has a
\* name of its own.
Sections == {"header_nav", "header", "nav", "footer"}

Image == [href : SUBSET Words, tag : SUBSET {"logo", "mild"}, inside : SUBSET Sections]

\* The code of an SVG and the 500 characters before it.
Svg == [code : SUBSET {"mark", "hero", "short"}, inside : SUBSET Sections,
        before : SUBSET {"header", "nav", "mark"}]

Page == [jsonLd : Seq(SUBSET Words), images : Seq(Image), svgs : Seq(Svg)]

Strong(words) == words \cap {"logo", "mark"} # {}

Region(inside) ==
  CASE "header_nav" \in inside -> "header_nav"
    [] "header" \in inside     -> "header"
    [] "nav" \in inside        -> "nav"
    [] "footer" \in inside     -> "footer"
    [] OTHER                   -> "other"

InHeader(inside) == Region(inside) \in {"header", "header_nav"}

Points(holds, n) == IF holds THEN n ELSE 0

\* isClearlyNonLogoImageUrl.
ClearlyNotLogo(href) ==
  \/ "bad" \in href /\ ~Strong(href)
  \/ "ad" \in href /\ "logo" \notin href

\* scoreImageTagForBrandLogo.
ImageScore(image) ==
  LET href == image.href
      strong == Strong(href) \/ Strong(image.tag)
  IN IF href \cap {"bad", "ad"} # {} THEN -200
     ELSE IF "hero" \in href /\ ~strong THEN -40
     ELSE (CASE InHeader(image.inside)           -> 35
             [] Region(image.inside) = "nav"     -> 28
             [] Region(image.inside) = "footer"  -> 8
             [] Region(image.inside) = "other"   -> 0)
          + (IF Strong(image.tag) THEN 55 ELSE Points(Strong(href), 50))
          + Points("mild" \in image.tag, 12)
          + Points("mild" \in href /\ strong, 8)
          + Points("svg" \in href, 6)
          - Points("sprite" \in href /\ ~Strong(href), 25)
          - Points("hero" \in href, 20)
          - Points("favicon" \in href /\ ~strong, 15)
          - Points("small" \in href, 25)
          - Points("touch" \in href /\ ~Strong(image.tag), 10)
          - Points("user" \in href /\ ~strong, 30)

\* scoreInlineSvg.
SvgScore(svg) ==
  IF "hero" \in svg.code /\ "mark" \notin svg.code THEN -20
  ELSE Points("header" \in svg.before, 30) + Points("nav" \in svg.before, 20)
       + Points("mark" \in svg.code \cup svg.before, 50) - Points("short" \in svg.code, 5)

\* Mutant of JsonLdScore: the points that scoreImageTagForBrandLogo would give.
JsonLdScoreOfImage == 105

JsonLdScore == 130

\* A candidate has its place in the order in which they are collected.
JsonLdCandidates(page) ==
  {[kind |-> "url", words |-> page.jsonLd[i], from |-> "jsonLd", score |-> JsonLdScore, place |-> i] :
     i \in {k \in DOMAIN page.jsonLd : ~ClearlyNotLogo(page.jsonLd[k])}}

ImageCandidates(page) ==
  {[kind |-> "url", words |-> page.images[i].href, from |-> "img",
    score |-> ImageScore(page.images[i]), place |-> Len(page.jsonLd) + i] :
     i \in {k \in DOMAIN page.images : "unresolved" \notin page.images[k].href
                                         /\ ~ClearlyNotLogo(page.images[k].href)}}

SvgCandidates(page) ==
  {[kind |-> "svg", words |-> page.svgs[i].code, from |-> "svg",
    score |-> SvgScore(page.svgs[i]) + Points(InHeader(page.svgs[i].inside), 10),
    place |-> Len(page.jsonLd) + Len(page.images) + i] :
     i \in {k \in DOMAIN page.svgs : SvgScore(page.svgs[k]) >= 5}}

Candidates(page) ==
  JsonLdCandidates(page) \cup ImageCandidates(page) \cup SvgCandidates(page)

\* The first of the best candidates, as a stable sort leaves it, or none.
\* Below 8 points a candidate will do only if the page has JSON-LD logos,
\* plausible or not.
Pick(page) ==
  {c \in Candidates(page) :
     /\ \A d \in Candidates(page) :
          d.score < c.score \/ (d.score = c.score /\ c.place <= d.place)
     /\ c.score >= 0
     /\ c.score >= 8 \/ page.jsonLd # <<>>}

===============================================================================
