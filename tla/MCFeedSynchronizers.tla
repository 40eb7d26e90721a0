------------------------- MODULE MCFeedSynchronizers -------------------------
(* Three feeds: one whose host has a provider that parses by itself, and which
   publishes one more episode; one that the generic provider reads; and one whose provider
   cannot download.  *)
EXTENDS FeedSynchronizers, TLC

CONSTANTS c1, c2, own, plain, silent, g1, u1, u2, t1, id1

first == [guid |-> g1, link |-> u1, media |-> None, date |-> "date"]
second == [guid |-> None, link |-> u2, media |-> None, date |-> Bad]

rss == [text |-> TRUE, xml |-> TRUE, encoding |-> TRUE, sound |-> TRUE, root |-> "rss",
        atom |-> FALSE, version |-> "2.0", channel |-> TRUE, title |-> t1, feedId |-> None,
        link |-> None, entries |-> <<first>>]

MCDocuments ==
    own :> {[rss EXCEPT !.feedId = id1], [rss EXCEPT !.feedId = id1, !.entries = <<first, second>>]}
    @@ plain :> {rss}
    @@ silent :> {[rss EXCEPT !.sound = FALSE]}

MCProviders ==
    <<[id |-> "generic", priority |-> 0, capabilities |-> {"rss", "atom"}, claims |-> {},
       supports |-> Feeds, downloads |-> TRUE, own |-> FALSE],
      [id |-> "host", priority |-> 10, capabilities |-> {"rss"}, claims |-> {own},
       supports |-> {own}, downloads |-> TRUE, own |-> TRUE],
      [id |-> "index", priority |-> 10, capabilities |-> {"rss"}, claims |-> {silent},
       supports |-> {silent}, downloads |-> FALSE, own |-> FALSE]>>

MCOutcomes == {[status |-> 200, type |-> "xml"], [status |-> 503, type |-> ""],
               [status |-> 0, type |-> "timeout"]}

plainCall == [engine |-> "core", feed |-> own, mode |-> "automatic", dryRun |-> FALSE,
              validateOnly |-> FALSE, preview |-> FALSE, force |-> FALSE, strategy |-> None,
              fingerprint |-> FALSE, version |-> 1, checkpoint |-> None]

incremental == [plainCall EXCEPT !.engine = "incremental"]

\* The second caller imports the first feed.
MCCalls ==
    c2 :> {plainCall}
    @@ c1 :>
    {plainCall,
     [plainCall EXCEPT !.feed = plain, !.strategy = "full", !.fingerprint = TRUE],
     [plainCall EXCEPT !.feed = silent],
     [plainCall EXCEPT !.dryRun = TRUE],
     [plainCall EXCEPT !.mode = "dry-run", !.fingerprint = TRUE],
     [plainCall EXCEPT !.fingerprint = TRUE],
     incremental,
     [incremental EXCEPT !.mode = "preview", !.checkpoint = [version |-> 1, etag |-> 1]],
     [incremental EXCEPT !.version = 2, !.checkpoint = [version |-> 2, etag |-> 1]],
     [incremental EXCEPT !.version = 2, !.checkpoint = [version |-> 1, etag |-> 1]]}
==============================================================================
