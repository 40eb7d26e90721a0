---------------------------- MODULE FeedIdentity ----------------------------
(***************************************************************************)
(* Which feeds are one feed (packages/rss/src/discovery and deduplication):*)
(* discovery brings what is known of a feed to a common form and gives it  *)
(* an identity and a fingerprint; deduplication compares every two of the  *)
(* feeds it is given by a weighted score, lists their conflicts, and draws *)
(* a graph of them.  The two normalize text and addresses on their own.    *)
(*                                                                         *)
(* An address is a site and a form, text is a word and a form.             *)
(***************************************************************************)
EXTENDS Absent, Naturals, Sequences, FiniteSets, FiniteSetsExt

CONSTANTS
    Words,              \* the sites, the texts and the categories there are
    DiscoveryRequests,  \* what may be asked to be discovered
    Listed,             \* candidates that were not discovered
    MaxFeeds            \* bound of the candidates compared

VARIABLES
    candidates,  \* the feeds found so far, with how they were found
    verdicts     \* of each two of them, once compared

identityVars == <<candidates, verdicts>>

\* An address or a text, as it is spelled
Spelled == [word : Words, form : {"plain", "spaced", "upper", "regional", "hash"}]

\* What the parser or the metadata may say of a feed
Told ==
    [title : Spelled \cup {None}, publisher : Spelled \cup {None},
     description : Spelled \cup {None}, language : Spelled \cup {None},
     canonical : Spelled \cup {None}, website : Spelled \cup {None},
     categories : SUBSET Words, images : SUBSET Spelled, updatedAt : Nat \cup {None}]

First(x, y) == IF x # None THEN x ELSE y

Plain(x) == [x EXCEPT !.form = "plain"]

------------------------------------------------------------------------------
(* The discovery's forms *)

\* The fragment, a default port, the user and a last slash are dropped.
NormalUrl(url) == IF url = None THEN None ELSE Plain(url)

\* Mutant: the white space within is kept.
TextAsIs(text) == text

\* White space is collapsed; upper case stays.
NormalText(text) == IF text # None /\ text.form = "spaced" THEN Plain(text) ELSE text

\* The region is cut off.
NormalLanguage(text) == IF text = None THEN None ELSE Plain(text)

\* FeedNormalizer.normalize: what the parser says goes before the metadata.
Normalized(request) ==
    LET parsed == request.parsed
        given == request.metadata
        resolved == NormalUrl(First(request.resolved, request.original))
        homepage == NormalUrl(First(given.website, First(given.canonical, resolved)))
        text(field) == NormalText(First(parsed[field], given[field]))
    IN  [canonicalUrl |-> NormalUrl(First(given.canonical, resolved)),
         originalUrl |-> request.original, resolvedUrl |-> resolved, homepageUrl |-> homepage,
         websiteUrl |-> NormalUrl(First(given.website, homepage)),
         title |-> text("title"), publisher |-> text("publisher"),
         description |-> text("description"),
         language |-> NormalLanguage(text("language")),
         categories |-> parsed.categories \cup given.categories,
         mediaUrls |-> parsed.images \cup given.images,
         updatedAt |-> First(parsed.updatedAt, given.updatedAt)]

\* FeedIdentityResolver: the canonical address, which there always is, is the key.
Identity(request, feed) ==
    LET canonical == First(feed.canonicalUrl, First(feed.resolvedUrl, request.original))
        signals == {field \in {"websiteUrl", "title", "language", "publisher"} : feed[field] # None}
    IN  [primaryKey |-> canonical, normalizedUrl |-> canonical, feedGuid |-> feed.canonicalUrl,
         confidence |-> Min({95, 60 + 10 * Cardinality(signals)})]

\* FeedValidator: a feed without title or language is not valid, nor an empty document.
Validation(request, feed) ==
    LET lacks(field, warning) == IF feed[field] = None THEN {warning} ELSE {}
    IN  [valid |-> feed.title # None /\ feed.language # None /\ request.content,
         warnings |-> lacks("title", "missing-title") \cup lacks("language", "missing-language")]

\* FeedQualityAssessor: ten for each indicator there is, on top of forty
Quality(feed) ==
    LET indicators ==
            <<feed.title # None, feed.description # None, feed.language # None,
              feed.categories # {}, feed.publisher # None, feed.mediaUrls # {},
              feed.updatedAt # None,
              feed.title # None /\ feed.language # None /\ feed.description # None>>
        score == Min({100, 40 + 10 * Cardinality({i \in DOMAIN indicators : indicators[i]})})
    IN  [score |-> score,
         level |-> IF score >= 80 THEN "excellent" ELSE IF score >= 60 THEN "good" ELSE "fair"]

\* FeedHealthAssessor: only an invalid feed has two reasons, and a quality is never below 40.
DiscoveryHealth(validation) == IF validation.valid THEN "healthy" ELSE "broken"

\* FingerprintGenerator: the hash of these, no two of which have the same one
Fingerprint(request, feed, identity) ==
    [key |-> identity.primaryKey, canonical |-> feed.canonicalUrl, website |-> feed.websiteUrl,
     title |-> feed.title, language |-> feed.language, publisher |-> feed.publisher,
     original |-> request.original]

\* FeedDiscoveryService.discover, and what it says of the feed as a candidate
Discovered(request) ==
    LET feed == Normalized(request)
        identity == Identity(request, feed)
        validation == Validation(request, feed)
    IN  [discovered |-> TRUE, canonicalUrl |-> feed.canonicalUrl,
         originalUrl |-> feed.originalUrl, resolvedUrl |-> feed.resolvedUrl,
         websiteUrl |-> feed.websiteUrl, title |-> feed.title, language |-> feed.language,
         publisher |-> feed.publisher, description |-> feed.description,
         categories |-> feed.categories,
         artworkUrl |-> IF feed.mediaUrls = {} THEN None ELSE CHOOSE u \in feed.mediaUrls : TRUE,
         fingerprint |-> Fingerprint(request, feed, identity), identity |-> identity,
         updatedAt |-> feed.updatedAt,
         quality |-> Quality(feed), health |-> DiscoveryHealth(validation)]

------------------------------------------------------------------------------
(* The deduplication's comparison *)

\* The scorer compares addresses in the discovery's form and text in lower case, with its
\* white space collapsed; an address that is not there may be another one's.
AddressOf(feed) == First(feed.canonicalUrl, First(feed.resolvedUrl, feed.originalUrl))

\* A request names an address, as does a candidate; a feed has finitely many categories.
ASSUME FeedAssumption ==
    /\ None \notin Spelled \cup {"canonical"} /\ MaxFeeds \in Nat
    /\ DiscoveryRequests \subseteq [original : Spelled, resolved : Spelled \cup {None},
                                    parsed : Told, metadata : Told, content : BOOLEAN]
    /\ \A request \in DiscoveryRequests :
            IsFiniteSet(request.parsed.categories \cup request.metadata.categories)
    /\ \A feed \in Listed : /\ ~feed.discovered /\ AddressOf(feed) \in Spelled
                            /\ IsFiniteSet(feed.categories)

Lowered(text) == IF text # None /\ text.form \in {"spaced", "upper"} THEN Plain(text) ELSE text

IdentityOf(feed, field) == IF feed.identity = None THEN None ELSE feed.identity[field]

\* What the scorer compares, and its weight in hundredths
Compared(feed) ==
    [canonicalUrl |-> NormalUrl(AddressOf(feed)),
     normalizedUrl |-> NormalUrl(First(IdentityOf(feed, "normalizedUrl"), AddressOf(feed))),
     websiteUrl |-> NormalUrl(feed.websiteUrl),
     feedGuid |-> NormalUrl(IdentityOf(feed, "feedGuid")),
     title |-> Lowered(feed.title), language |-> Lowered(feed.language),
     publisher |-> Lowered(feed.publisher), fingerprint |-> feed.fingerprint,
     artworkUrl |-> NormalUrl(feed.artworkUrl), description |-> Lowered(feed.description)]

Weight ==
    [canonicalUrl |-> 22, normalizedUrl |-> 20, websiteUrl |-> 12, feedGuid |-> 14,
     title |-> 9, language |-> 5, publisher |-> 6, fingerprint |-> 12,
     artworkUrl |-> 3, description |-> 3]

CategoryWeight == 4
TotalWeight == 110

\* The attributes that speak for the two being one feed
Signals(left, right) ==
    LET l == Compared(left)
        r == Compared(right)
    IN  {field \in DOMAIN Weight : l[field] # None /\ l[field] = r[field]}

\* compareStringArrays: the share of the larger set of categories that they have in common;
\* feeds have one category or two here, so that the share of the weight is whole.
CategoryShare(left, right) ==
    IF left.categories = {} \/ right.categories = {} THEN 0
    ELSE (CategoryWeight * Cardinality(left.categories \cap right.categories))
            \div Max({Cardinality(left.categories), Cardinality(right.categories)})

\* WeightedSimilarityScorer.score, of TotalWeight: what one side lacks counts against it.
Score(left, right) ==
    LET signals == Signals(left, right)
        of(field) == IF field \in signals THEN Weight[field] ELSE 0
    IN  of("canonicalUrl") + of("normalizedUrl") + of("websiteUrl") + of("feedGuid")
            + of("title") + of("language") + of("publisher") + of("fingerprint")
            + of("artworkUrl") + of("description") + CategoryShare(left, right)

\* score / TotalWeight >= percent / 100
Reaches(score, percent) == 100 * score >= percent * TotalWeight

\* DuplicateDetector.detect
Classification(left, right) ==
    LET score == Score(left, right)
        same == left.fingerprint # None /\ left.fingerprint = right.fingerprint
    IN  CASE same \/ Reaches(score, 95) -> "exact-duplicate"
          [] ~same /\ Reaches(score, 82) /\ ~Reaches(score, 95) -> "strong-duplicate"
          [] ~same /\ Reaches(score, 62) /\ ~Reaches(score, 82) -> "possible-duplicate"
          [] ~same /\ Reaches(score, 35) /\ ~Reaches(score, 62) -> "related-feed"
          [] OTHER -> "different-feed"

\* BasicConflictDetector compares what both sides have as it is written, but for the case.
Written(text) == IF text.form = "upper" THEN Plain(text) ELSE text

Contents(feed) ==
    [title |-> feed.title, canonicalUrl |-> feed.canonicalUrl, websiteUrl |-> feed.websiteUrl,
     language |-> feed.language, publisher |-> feed.publisher,
     description |-> feed.description, feedGuid |-> IdentityOf(feed, "feedGuid"),
     artworkUrl |-> feed.artworkUrl]

Conflicts(left, right) ==
    LET l == Contents(left)
        r == Contents(right)
    IN  {field \in DOMAIN l : l[field] # None /\ r[field] # None
                                /\ Written(l[field]) # Written(r[field])}

\* InMemoryIdentityGraphBuilder: addresses are compared as they are.
Relation(left, right) ==
    IF AddressOf(left) = AddressOf(right) THEN "canonical"
    ELSE IF left.websiteUrl # None /\ left.websiteUrl = right.websiteUrl THEN "related"
    ELSE None

\* What the three strategies recommend to keep, of the left and the right one.  Of two
\* feeds without dates the right one is the newest.
Recommended(left, right) ==
    <<IF left.canonicalUrl # None /\ left.canonicalUrl = right.canonicalUrl THEN "left" ELSE None,
      IF /\ left.updatedAt # None /\ right.updatedAt # None
         /\ left.updatedAt >= right.updatedAt THEN "left" ELSE "right",
      None>>

\* The confidence is the score, but .99 for equal fingerprints.  The score of 66 of 110 is
\* a hair below .6 in floating point.
Confident(left, right, percent) ==
    \/ left.fingerprint # None /\ left.fingerprint = right.fingerprint
    \/ Reaches(Score(left, right), percent) /\ ~(percent = 60 /\ Score(left, right) = 66)

\* What FeedDeduplicationService.deduplicate says of two of the feeds
Verdict(left, right) ==
    [class |-> Classification(left, right), conflicts |-> Conflicts(left, right),
     edge |-> Relation(left, right), recommended |-> Recommended(left, right),
     level |-> IF Confident(left, right, 85) THEN "high"
               ELSE IF Confident(left, right, 60) THEN "medium" ELSE "low",
     warnings |->
        (IF Confident(left, right, 60) THEN {} ELSE {"weak-confidence"})
        \cup (IF Conflicts(left, right) = {} THEN {} ELSE {"conflicting-metadata"})
        \cup (IF left.identity # None /\ right.identity # None THEN {}
              ELSE {"missing-identifiers"})]

------------------------------------------------------------------------------

IdentityInit == candidates = <<>> /\ verdicts = <<>>

\* discover, of a feed that is put beside the others
Discover(request) ==
    /\ Len(candidates) < MaxFeeds /\ verdicts = <<>>
    /\ candidates' = Append(candidates, Discovered(request))
    /\ UNCHANGED verdicts

\* A candidate that came another way
List(feed) ==
    /\ Len(candidates) < MaxFeeds /\ verdicts = <<>>
    /\ candidates' = Append(candidates, feed)
    /\ UNCHANGED verdicts

Pairs == {p \in (DOMAIN candidates) \X (DOMAIN candidates) : p[1] < p[2]}

\* deduplicate: each feed with each later one
Deduplicate ==
    /\ Pairs # {} /\ verdicts = <<>>
    /\ verdicts' = [p \in Pairs |-> Verdict(candidates[p[1]], candidates[p[2]])]
    /\ UNCHANGED candidates

IdentityNext ==
    \/ \E request \in DiscoveryRequests : Discover(request)
    \/ \E feed \in Listed : List(feed)
    \/ Deduplicate

IdentitySpec == IdentityInit /\ [][IdentityNext]_identityVars

------------------------------------------------------------------------------
(* Properties *)

IdentityTypeOK ==
    /\ Len(candidates) <= MaxFeeds
    /\ \A p \in DOMAIN verdicts : verdicts[p].level \in {"high", "medium", "low"}

Both(p) == {candidates[p[1]], candidates[p[2]]}

\* The address a feed was recorded at, if any, is its own.
IsAtItsIdentity(feed) == IdentityOf(feed, "normalizedUrl") \in {None, NormalUrl(AddressOf(feed))}

\* Two feeds at one address, however each spells it, wherever they were found and however
\* little else is known of them, are held related at least, if neither was recorded at
\* another address than its own: also where the graph, which compares addresses as they are
\* spelled, does not join them.  Exact duplicates are said with high confidence.
SameAddressIsRelated ==
    \A p \in DOMAIN verdicts :
        /\ /\ NormalUrl(AddressOf(candidates[p[1]])) = NormalUrl(AddressOf(candidates[p[2]]))
           /\ \A feed \in Both(p) : IsAtItsIdentity(feed)
           => verdicts[p].class # "different-feed"
        /\ verdicts[p].class = "exact-duplicate" => verdicts[p].level = "high"

\* Of two feeds that were discovered, nothing but a spelled-out artwork speaks both for
\* them being one and against it, and those with one fingerprint differ in nothing the
\* fingerprint was made of.
EvidenceIsOneSided ==
    \A p \in DOMAIN verdicts :
        LET left == candidates[p[1]]
            right == candidates[p[2]]
            against == verdicts[p].conflicts \ {"artworkUrl"}
        IN  left.discovered /\ right.discovered =>
                /\ against \cap Signals(left, right) = {}
                /\ left.fingerprint = right.fingerprint => against \subseteq {"description"}

\* A verdict and its confidence belong together, and conflicts never go unmentioned.
VerdictsAreExplained ==
    \A p \in DOMAIN verdicts :
        LET said == verdicts[p]
        IN  /\ "weak-confidence" \in said.warnings =>
                    said.class \in {"related-feed", "different-feed"}
            /\ said.class \in {"strong-duplicate", "possible-duplicate"} => said.level # "low"
            /\ said.conflicts # {} <=> "conflicting-metadata" \in said.warnings

\* What two feeds are held for follows from what is known of them, and is said with the
\* confidence it has: of any two, feeds at one address are related unless one was recorded
\* elsewhere; of two that were discovered, what conflicts is no evidence for them being one,
\* their artwork aside (discover, deduplicate, relate).
IdentitiesHold == IdentityTypeOK /\ SameAddressIsRelated /\ EvidenceIsOneSided /\ VerdictsAreExplained
==============================================================================
