----------------------------- MODULE FeedDocument -----------------------------
(***************************************************************************)
(* What packages/rss/src/parser makes of the text of a feed, and what the  *)
(* import keeps of it.                                                     *)
(*                                                                         *)
(* Of a text is kept what the code decides by: whether the strict reader   *)
(* finds an error in it, its root, and per item the identity, the link and *)
(* the dates.  Names, descriptions and images are carried along.           *)
(***************************************************************************)
EXTENDS Naturals, Sequences

CONSTANTS
    Guids,
    Urls,    \* the URLs of episodes and of their media, all well formed
    Titles,
    FeedIds,
    None,    \* undefined
    Bad      \* a URL or a date that does not parse

\* isLink: it has the form of a URL.  None is not looked at.
Entry == [guid : Guids \cup {None}, link : Urls \cup {None, Bad}, media : Urls \cup {None},
          date : {"date", None, Bad}]

\* encoding: the one the declaration names is one the detector knows.  xml: there is
\* a declaration or a tag by which the provider takes it for a feed.
Document == [text : BOOLEAN, xml : BOOLEAN, encoding : BOOLEAN, sound : BOOLEAN,
             root : {"rss", "rdf", "feed", "html"}, atom : BOOLEAN,
             version : {"2.0", "1.0", None}, channel : BOOLEAN, title : Titles \cup {None},
             feedId : FeedIds \cup {None}, link : Urls \cup {None, Bad},
             entries : Seq(Entry)]

\* GenericProvider.download takes the text for a feed.
LooksLikeFeed(doc) == doc.text /\ doc.xml

\* XmlDocumentFactory.create throws.
Unreadable(doc) == ~doc.text \/ ~doc.encoding

\* XmlReader: a document with an error has no root.
HasRoot(doc) == doc.sound

\* ParserRegistry.select over canParse of the two adapters
Selected(doc) ==
    CASE HasRoot(doc) /\ doc.root \in {"rss", "rdf"} -> "RssParser"
      [] HasRoot(doc) /\ doc.root = "feed" /\ doc.atom -> "AtomParser"
      [] OTHER -> "none"

\* RssValidators.validateRoot: rdf, which the adapter selects, is refused here.
RootIssues(doc) ==
    (IF doc.root # "rss" THEN {"InvalidRssDocumentError"} ELSE {})
    \cup (CASE doc.version = None -> {"InvalidRssDocumentError"}
            [] doc.version = "2.0" -> {}
            [] OTHER -> {"UnsupportedVersionError"})
    \cup (IF doc.channel THEN {} ELSE {"InvalidRssDocumentError"})

\* validateUrl, validateLink
LinkIssues(link, issue) == IF link = Bad THEN {issue} ELSE {}

DateWarnings(entries) == {i \in DOMAIN entries : entries[i].date = Bad}

\* What a parser gives an episode: its id and its link.  The RSS adapter drops the
\* enclosure, and neither sets mediaUrl.
Episode(entry) == [id |-> entry.guid, link |-> entry.link]

Episodes(doc) == [i \in DOMAIN doc.entries |-> Episode(doc.entries[i])]

NoFeed == [title |-> None]

Refused(issues) == [success |-> FALSE, feed |-> NoFeed, episodes |-> <<>>,
                    issues |-> issues, warnings |-> {}]

Parsed(doc, issue) ==
    LET issues == LinkIssues(doc.link, issue)
                  \cup UNION {LinkIssues(doc.entries[i].link, issue) : i \in DOMAIN doc.entries}
    IN  [success |-> issues = {}, feed |-> [title |-> doc.title],
         episodes |-> Episodes(doc), issues |-> issues,
         warnings |-> DateWarnings(doc.entries)]

\* RssParser.parse
RssParse(doc) ==
    IF RootIssues(doc) # {} THEN Refused(RootIssues(doc))
    ELSE Parsed(doc, "ChannelValidationError")

\* AtomParser.parse, once the adapter has seen its root and its namespace
AtomParse(doc) == Parsed(doc, "LinkValidationError")

\* ParserFactory.parse
FactoryParse(doc) ==
    CASE Selected(doc) = "RssParser" -> RssParse(doc)
      [] Selected(doc) = "AtomParser" -> AtomParse(doc)
      [] OTHER -> Refused({"UNSUPPORTED_FEED"})

\* ImportService.normalize.  It does not look at success, and reads guid, url and
\* audioUrl, which an episode of the parser factory does not have: what the generic
\* provider parsed has no identity.  A provider that parses by itself may set them.
Normalized(doc, own) ==
    IF own
    THEN [title |-> doc.title, feedId |-> doc.feedId,
          episodes |-> [i \in DOMAIN doc.entries |->
                           [guid |-> doc.entries[i].guid, url |-> doc.entries[i].link,
                            media |-> doc.entries[i].media]]]
    ELSE LET result == FactoryParse(doc)
         IN  [title |-> result.feed.title, feedId |-> None,
              episodes |-> [i \in DOMAIN result.episodes |->
                               [guid |-> None, url |-> None, media |-> None]]]
==============================================================================
