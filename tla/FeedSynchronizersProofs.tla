---------------------- MODULE FeedSynchronizersProofs ----------------------
(***************************************************************************)
(* Proofs about the engines and the imports they call: what is stored is   *)
(* accounted for, and what is answered is true.                            *)
(***************************************************************************)
EXTENDS FeedSynchronizers, FiniteSetTheorems, SequenceTheorems, TLAPS

------------------------------------------------------------------------------
(* The inductive invariant of the imports *)

Item == [guid : Guids \cup {None}, url : Urls \cup {None, Bad}, media : Urls \cup {None}]

ParsedFeed == [title : Titles \cup {None}, feedId : FeedIds \cup {None}, episodes : Seq(Item)]

Ids == {p.id : p \in podcasts}

IsMap(f) == f = [c \in Importers |-> f[c]]

AreMaps ==
    /\ IsMap(step) /\ IsMap(request) /\ IsMap(attempt) /\ IsMap(parsed)
    /\ IsMap(known) /\ IsMap(looking) /\ IsMap(tally) /\ IsMap(requests)

ServedOK ==
    /\ served = [f \in Feeds |-> served[f]]
    /\ \A f \in Feeds : served[f].version \in 1..MaxVersion /\ served[f].doc \in Documents[f]

\* Podcasts are numbered, each has one number, and its row is typed.
PodcastsOK ==
    /\ IsFiniteSet(podcasts)
    /\ \A p, q \in podcasts : p.id = q.id => p = q
    /\ \A p \in podcasts :
           /\ p.id \in 1..Cardinality(podcasts) /\ p.rssUrl \in Feeds
           /\ p.slug \in FeedIds \cup {None} /\ p.title \in Titles \cup {None}

EpisodesOK ==
    /\ IsFiniteSet(episodes)
    /\ \A e \in episodes : e.podcast \in Ids /\ e.by \in Importers

TypedAt(c) ==
    /\ step[c] \in {"idle"} \cup Running \cup Ended
    /\ request[c] \in Request \cup {None} /\ attempt[c] \in 0..MaxRetries
    /\ parsed[c] \in ParsedFeed /\ known[c] \in Ids \cup {None}
    /\ looking[c] \in 1..3 /\ tally[c] \in Tally /\ requests[c] \in Nat

Early == {"idle", "resolving", "requesting"}
Finding == {"downloading", "findingById", "findingByUrl"}

\* Where an import is tells what it has done.
Doing(c) ==
    /\ step[c] # "idle" => request[c] \in Request
    /\ requests[c] <= attempt[c] + 1
    /\ step[c] \in Early => requests[c] = attempt[c]
    /\ step[c] \in Early \cup Finding \cup {"writing"} => tally[c] = NothingDone
    /\ step[c] \in {"writing", "detecting", "creating", "reporting"} => ~SkipsPersistence(request[c])
    /\ tally[c] # NothingDone => ~SkipsPersistence(request[c])
    /\ step[c] \in {"detecting", "creating"} =>
            known[c] # None /\ Done(c) < Len(parsed[c].episodes)
    /\ step[c] \notin {"detecting", "rejected"} => looking[c] = 1
    /\ step[c] \in {"imported", "reporting"} /\ ~SkipsPersistence(request[c]) =>
            known[c] # None /\ Done(c) = Len(parsed[c].episodes)

\* The import is done with the first episodes of its feed, each of which is there, and it
\* has stored what it counts.
Stored(c) ==
    /\ tally[c].created = Cardinality({e \in episodes : e.by = c})
    /\ \A e \in episodes : e.by = c => e.at \in 1..Done(c)
    /\ \A i \in 1..Done(c) :
           \/ \E e \in episodes : e.by = c /\ e.at = i
           \/ Has({e \in episodes : e.podcast = known[c]}, parsed[c].episodes[i])

\* It has looked for the URL of its next episode.
Looked(c) == step[c] = "creating" \/ (step[c] = "detecting" /\ looking[c] = 3)

\* What has the URL, although the import has not found it, was stored meanwhile.
Alone(c) ==
    Looked(c) =>
        \A e \in episodes :
            e.podcast = known[c] /\ Current(c).url # None /\ e.url = Current(c).url =>
                <<c, e.by>> \in together /\ <<e.by, c>> \in together

\* Imports that run have met.
Met == \A c, d \in Importers : c # d /\ step[c] \in Running /\ step[d] \in Running =>
                                   <<c, d>> \in together

ImportInv ==
    /\ AreMaps /\ ServedOK /\ PodcastsOK /\ EpisodesOK
    /\ \A c \in Importers : TypedAt(c) /\ Doing(c) /\ Stored(c) /\ Alone(c)
    /\ Met /\ DuplicatesNeedARace

------------------------------------------------------------------------------
(* The inductive invariant of the engines *)

EngineMaps == IsMap(phase) /\ IsMap(call) /\ IsMap(answer) /\ IsMap(seen)

Conditional == {"restoring", "downloading", "comparing", "executing"}

\* What a call is at, what it was given and what it has answered
Engaged(c) ==
    /\ phase[c] \in {"idle", "loading", "deciding", "importing", "ended"} \cup Conditional
    /\ IF phase[c] = "idle" THEN call[c] = None /\ step[c] = "idle" ELSE call[c] \in Calls[c]
    /\ phase[c] \in Conditional => call[c].engine = "incremental"
    /\ phase[c] \in {"loading", "deciding"} => call[c].engine = "core"
    /\ answer[c] = NoAnswer \/ phase[c] = "ended"
    /\ answer[c].status \in {None, "unchanged", "completed", "failed", "thrown"}
    /\ answer[c].success \in BOOLEAN
    /\ seen[c].notModified \in BOOLEAN /\ seen[c].at \in 0..MaxVersion
    /\ step[c] # "idle" /\ AsksForNoWrites(call[c]) => SkipsPersistence(request[c])
    /\ answer[c].status = "completed" =>
            step[c] = "imported" \/ (call[c].engine = "incremental" /\ step[c] = "refused")
    /\ phase[c] = "executing" => step[c] = "imported"
    /\ HasDownloader /\ phase[c] = "comparing" =>
            seen[c].snapshot # None /\ seen[c].snapshot.metadata = seen[c].snapshot.content
    /\ HasDownloader /\ answer[c].status = "unchanged" /\ call[c].engine = "incremental" =>
            \/ seen[c].notModified /\ call[c].checkpoint.etag = seen[c].at
            \/ seen[c].snapshot # None /\ seen[c].snapshot.content = None

EngineInv ==
    /\ EngineMaps /\ executed \subseteq Importers
    /\ \A c \in Importers : Engaged(c)

------------------------------------------------------------------------------
(* A step of one import leaves the others as they are. *)

Others(c) ==
    \A d \in Importers \ {c} :
        /\ step'[d] = step[d] /\ request'[d] = request[d] /\ attempt'[d] = attempt[d]
        /\ parsed'[d] = parsed[d] /\ known'[d] = known[d] /\ looking'[d] = looking[d]
        /\ tally'[d] = tally[d] /\ requests'[d] = requests[d]

\* The table of episodes grows by rows of the import that runs.
Grows(c) ==
    /\ episodes \subseteq episodes'
    /\ \A e \in episodes' \ episodes : e.by = c /\ step[c] \in Running

LEMMA OthersStay ==
    ASSUME ImportInv, NEW c \in Importers, Others(c), Grows(c), Ids \subseteq Ids',
           together \subseteq together', NEW d \in Importers \ {c}
    PROVE  (TypedAt(d) /\ Doing(d) /\ Stored(d) /\ Alone(d))'
  <1>1. TypedAt(d) /\ Doing(d) /\ Stored(d) /\ Alone(d)
    BY DEF ImportInv
  <1>2. /\ step'[d] = step[d] /\ request'[d] = request[d] /\ attempt'[d] = attempt[d]
        /\ parsed'[d] = parsed[d] /\ known'[d] = known[d] /\ looking'[d] = looking[d]
        /\ tally'[d] = tally[d] /\ requests'[d] = requests[d]
    BY DEF Others
  <1>3. Done(d)' = Done(d) /\ Current(d)' = Current(d)
    BY <1>2 DEF Done, Current
  <1>4. TypedAt(d)'
    BY <1>1, <1>2 DEF TypedAt
  <1>5. Doing(d)'
    BY <1>1, <1>2, <1>3 DEF Doing
  <1>6. Stored(d)'
    <2>1. {e \in episodes' : e.by = d} = {e \in episodes : e.by = d}
      BY DEF Grows
    <2>2. \A e \in episodes' : e.by = d => e \in episodes
      BY <2>1
    <2>3. ASSUME NEW i \in 1..Done(d)
          PROVE  \/ \E e \in episodes' : e.by = d /\ e.at = i
                 \/ Has({e \in episodes' : e.podcast = known[d]}, parsed[d].episodes[i])
      BY <1>1 DEF Stored, Grows, Has
    <2> QED
      BY <1>1, <1>2, <1>3, <2>1, <2>2, <2>3 DEF Stored
  <1>7. Alone(d)'
    <2> SUFFICES ASSUME Looked(d), NEW e \in episodes', e.podcast = known[d],
                        Current(d).url # None, e.url = Current(d).url
                 PROVE  <<d, e.by>> \in together' /\ <<e.by, d>> \in together'
      BY <1>2, <1>3 DEF Alone, Looked
    <2>1. CASE e \in episodes
      BY <1>1, <2>1 DEF Alone
    <2>2. CASE e \notin episodes
      <3>1. e.by = c /\ step[c] \in Running
        BY <2>2 DEF Grows
      <3>2. step[d] \in Running
        BY DEF Looked, Running
      <3> QED
        BY <3>1, <3>2 DEF ImportInv, Met
    <2> QED
      BY <2>1, <2>2
  <1> QED
    BY <1>4, <1>5, <1>6, <1>7

LEMMA Assembles ==
    ASSUME ImportInv, NEW c \in Importers, Others(c), Grows(c), Ids \subseteq Ids',
           together \subseteq together', (AreMaps /\ ServedOK /\ PodcastsOK /\ EpisodesOK)',
           (TypedAt(c) /\ Doing(c) /\ Stored(c) /\ Alone(c))', Met', DuplicatesNeedARace'
    PROVE  ImportInv'
  <1>1. \A d \in Importers : (TypedAt(d) /\ Doing(d) /\ Stored(d) /\ Alone(d))'
    BY OthersStay
  <1> QED
    BY <1>1 DEF ImportInv

\* A running import that writes no rows
LEMMA WritesNothing ==
    ASSUME ImportInv, NEW c \in Importers, step[c] \in Running, Others(c), AreMaps',
           UNCHANGED <<served, podcasts, episodes, together>>,
           (TypedAt(c) /\ Doing(c) /\ Stored(c) /\ Alone(c))'
    PROVE  ImportInv'
  <1>1. Grows(c) /\ Ids' = Ids /\ together \subseteq together'
    BY DEF Grows, Ids
  <1>2. (ServedOK /\ PodcastsOK /\ EpisodesOK /\ DuplicatesNeedARace)'
    BY <1>1 DEF ImportInv, ServedOK, PodcastsOK, EpisodesOK, DuplicatesNeedARace
  <1>3. Met'
    BY DEF ImportInv, Met, Others
  <1> QED
    BY <1>1, <1>2, <1>3, Assembles

\* One that is on, ends or is rejected, with what it has found and stored as it was
LEMMA GoesOn ==
    ASSUME ImportInv, NEW c \in Importers, step[c] \in Running, NEW s \in Running \cup Ended,
           s \notin {"detecting", "creating", "writing", "reporting"},
           s = "imported" => SkipsPersistence(request[c]) \/ step[c] = "reporting",
           step' = [step EXCEPT ![c] = s],
           UNCHANGED <<served, podcasts, episodes, together, request, parsed, known, looking, tally>>,
           IsMap(attempt'), IsMap(requests'),
           \A d \in Importers \ {c} : attempt'[d] = attempt[d] /\ requests'[d] = requests[d],
           attempt'[c] \in 0..MaxRetries, requests'[c] \in Nat, requests'[c] <= attempt'[c] + 1,
           s \in Early => requests'[c] = attempt'[c],
           s \in Early \cup Finding => step[c] \in Early \cup Finding,
           s # "rejected" => step[c] # "detecting"
    PROVE  ImportInv'
  <1>1. /\ AreMaps /\ TypedAt(c) /\ Doing(c) /\ Stored(c) /\ Alone(c)
    BY DEF ImportInv
  <1>2. step'[c] = s /\ IsMap(step') /\ \A d \in Importers \ {c} : step'[d] = step[d]
    BY <1>1 DEF AreMaps, IsMap
  <1>3. AreMaps' /\ Others(c)
    BY <1>1, <1>2 DEF AreMaps, Others, IsMap
  <1>4. TypedAt(c)'
    BY <1>1, <1>2 DEF TypedAt, Ids
  <1>5. Done(c)' = Done(c)
    BY DEF Done
  <1>6. Doing(c)'
    BY <1>1, <1>2, <1>5 DEF Doing, Early, Finding, Running, Ended
  <1>7. Stored(c)'
    BY <1>1, <1>5 DEF Stored
  <1>8. Alone(c)'
    BY <1>2 DEF Alone, Looked
  <1> QED
    BY <1>3, <1>4, <1>6, <1>7, <1>8, WritesNothing

LEMMA ResolveStep == ASSUME ImportInv, NEW c \in Importers, Resolve(c) PROVE ImportInv'
  <1> DEFINE s == step'[c]
  <1>1. AreMaps /\ TypedAt(c) /\ Doing(c)
    BY DEF ImportInv
  <1>2. /\ s \in {"rejected", "refused", "downloading", "requesting"}
        /\ step' = [step EXCEPT ![c] = s]
    BY <1>1 DEF Resolve, Goes, AreMaps, IsMap
  <1> HIDE DEF s
  <1>3. /\ step[c] = "resolving" /\ UNCHANGED <<served, podcasts, episodes, together, request,
                                        parsed, known, looking, tally, attempt, requests>>
    BY DEF Resolve
  <1> QED
    BY <1>1, <1>2, <1>3, GoesOn DEF AreMaps, IsMap, TypedAt, Doing, Running, Ended, Early, Finding

LEMMA RequestStep ==
    ASSUME ImportInv, NEW c \in Importers, NEW outcome, RequestEnds(c, outcome)
    PROVE  ImportInv'
  <1> DEFINE s == step'[c]
  <1>1. AreMaps /\ TypedAt(c) /\ Doing(c) /\ MaxRetries \in Nat
    BY ImportAssumption DEF ImportInv
  <1>2. /\ step[c] = "requesting" /\ requests[c] = attempt[c] /\ attempt[c] \in 0..MaxRetries
        /\ UNCHANGED <<served, podcasts, episodes, together, request, parsed, known, looking, tally>>
        /\ requests' = [requests EXCEPT ![c] = requests[c] + 1]
    BY <1>1 DEF RequestEnds, Doing, TypedAt, Early
  <1>3. CASE Again(outcome, attempt[c], MaxRetries)
    <2>1. attempt[c] < MaxRetries
      BY <1>3 DEF Again, ShouldRetry
    <2>2. attempt' = [attempt EXCEPT ![c] = attempt[c] + 1] /\ step' = step
      BY <1>3 DEF RequestEnds
    <2>3. /\ attempt'[c] = attempt[c] + 1 /\ requests'[c] = requests[c] + 1
          /\ IsMap(attempt') /\ IsMap(requests')
          /\ \A d \in Importers \ {c} : attempt'[d] = attempt[d] /\ requests'[d] = requests[d]
      BY <1>1, <1>2, <2>2 DEF AreMaps, IsMap
    <2>4. attempt'[c] \in 0..MaxRetries /\ requests'[c] \in Nat /\ requests'[c] = attempt'[c]
          /\ requests'[c] <= attempt'[c] + 1
      BY <1>1, <1>2, <2>1, <2>3
    <2>5. step' = [step EXCEPT ![c] = "requesting"]
      BY <1>1, <1>2, <2>2 DEF AreMaps, IsMap
    <2> QED
      BY <1>2, <2>3, <2>4, <2>5, GoesOn DEF Running, Ended, Early, Finding
  <1>4. CASE ~Again(outcome, attempt[c], MaxRetries)
    <2>1. attempt' = attempt /\ s \in {"downloading", "rejected"} /\ step' = [step EXCEPT ![c] = s]
      BY <1>1, <1>4 DEF RequestEnds, Goes, AreMaps, IsMap
    <2> HIDE DEF s
    <2>2. /\ requests'[c] = requests[c] + 1 /\ IsMap(attempt') /\ IsMap(requests')
          /\ \A d \in Importers \ {c} : attempt'[d] = attempt[d] /\ requests'[d] = requests[d]
      BY <1>1, <1>2, <2>1 DEF AreMaps, IsMap
    <2>3. attempt'[c] \in 0..MaxRetries /\ requests'[c] \in Nat /\ requests'[c] <= attempt'[c] + 1
      BY <1>1, <1>2, <2>1, <2>2
    <2> QED
      BY <1>2, <2>1, <2>2, <2>3, GoesOn DEF Running, Ended, Early, Finding
  <1> QED
    BY <1>3, <1>4

LEMMA AwaitStep == ASSUME ImportInv, NEW c \in Importers, AwaitFails(c) PROVE ImportInv'
  <1>1. AreMaps /\ TypedAt(c) /\ Doing(c)
    BY DEF ImportInv
  <1>2. /\ step[c] \in Running /\ step' = [step EXCEPT ![c] = "rejected"]
        /\ UNCHANGED <<served, podcasts, episodes, together, request,
                      parsed, known, looking, tally, attempt, requests>>
    BY DEF AwaitFails, Goes, Running
  <1> QED
    BY <1>1, <1>2, GoesOn DEF AreMaps, IsMap, TypedAt, Doing, Ended, Early, Finding

LEMMA ReportStep == ASSUME ImportInv, NEW c \in Importers, Report(c) PROVE ImportInv'
  <1>1. AreMaps /\ TypedAt(c) /\ Doing(c)
    BY DEF ImportInv
  <1>2. /\ step[c] = "reporting" /\ step' = [step EXCEPT ![c] = "imported"]
        /\ UNCHANGED <<served, podcasts, episodes, together, request,
                      parsed, known, looking, tally, attempt, requests>>
    BY DEF Report, Goes
  <1> QED
    BY <1>1, <1>2, GoesOn DEF AreMaps, IsMap, TypedAt, Doing, Running, Ended, Early, Finding

\* An import that looks for its podcast has done nothing yet.
LEMMA FindsOut ==
    ASSUME ImportInv, NEW c \in Importers, step[c] \in Finding,
           NEW s \in {"findingById", "findingByUrl", "imported", "writing", "rejected"},
           NEW feed \in ParsedFeed, NEW id \in Ids \cup {None},
           s = "imported" => SkipsPersistence(request[c]),
           s = "writing" => ~SkipsPersistence(request[c]),
           step' = [step EXCEPT ![c] = s], parsed' = [parsed EXCEPT ![c] = feed],
           known' = [known EXCEPT ![c] = id],
           UNCHANGED <<served, podcasts, episodes, together, request, attempt, looking, tally,
                       requests>>
    PROVE  ImportInv'
  <1>1. /\ AreMaps /\ TypedAt(c) /\ Doing(c) /\ Stored(c)
    BY DEF ImportInv
  <1>2. /\ step'[c] = s /\ parsed'[c] = feed /\ known'[c] = id
        /\ \A d \in Importers \ {c} :
               step'[d] = step[d] /\ parsed'[d] = parsed[d] /\ known'[d] = known[d]
    BY <1>1 DEF AreMaps, IsMap
  <1>3. AreMaps' /\ Others(c)
    BY <1>1, <1>2 DEF AreMaps, Others, IsMap
  <1>4. step[c] \in Running /\ tally[c] = NothingDone
    BY <1>1 DEF Finding, Running, Doing
  <1>5. Done(c) = 0 /\ Done(c)' = 0
    BY <1>4 DEF Done, NothingDone
  <1>6. TypedAt(c)'
    BY <1>1, <1>2 DEF TypedAt, Running, Ended, Ids
  <1>7. Doing(c)'
    BY <1>1, <1>2, <1>4 DEF Doing, Early, Finding
  <1>8. Stored(c)'
    BY <1>1, <1>5 DEF Stored
  <1>9. Alone(c)'
    BY <1>2 DEF Alone, Looked
  <1> QED
    BY <1>3, <1>4, <1>6, <1>7, <1>8, <1>9, WritesNothing

\* What is parsed of any document is typed.
LEMMA ParsedIsTyped ==
    ASSUME NEW doc \in Document, NEW own
    PROVE  Normalized(doc, own) \in ParsedFeed
  <1>1. /\ doc.title \in Titles \cup {None} /\ doc.feedId \in FeedIds \cup {None}
        /\ doc.entries \in Seq(Entry)
    BY DEF Document
  <1> DEFINE n == Len(doc.entries)
  <1>2. /\ n \in Nat /\ DOMAIN doc.entries = 1..n
        /\ \A i \in 1..n : doc.entries[i] \in Entry
    BY <1>1
  <1> HIDE DEF n
  <1>3. CASE own
    <2> DEFINE eps == [i \in DOMAIN doc.entries |->
                           [guid |-> doc.entries[i].guid, url |-> doc.entries[i].link,
                            media |-> doc.entries[i].media]]
    <2>1. eps \in [1..n -> Item]
      BY <1>2 DEF Item, Entry
    <2>2. eps \in Seq(Item)
      BY <1>2, <2>1, SeqDef
    <2>3. Normalized(doc, own) = [title |-> doc.title, feedId |-> doc.feedId, episodes |-> eps]
      BY <1>3 DEF Normalized
    <2> HIDE DEF eps
    <2> QED
      BY <1>1, <2>2, <2>3 DEF ParsedFeed
  <1>4. CASE ~own
    <2> DEFINE result == FactoryParse(doc)
               eps == [i \in DOMAIN result.episodes |->
                           [guid |-> None, url |-> None, media |-> None]]
    <2>1. /\ result.feed.title \in Titles \cup {None}
          /\ result.episodes = Episodes(doc) \/ result.episodes = <<>>
      <3>1. \A issue : /\ Parsed(doc, issue).feed.title = doc.title
                       /\ Parsed(doc, issue).episodes = Episodes(doc)
        BY DEF Parsed
      <3>2. \A issues : /\ Refused(issues).feed.title = None
                        /\ Refused(issues).episodes = <<>>
        BY DEF Refused, NoFeed
      <3>3. RssParse(doc) \in {Refused(RootIssues(doc)), Parsed(doc, "ChannelValidationError")}
        BY DEF RssParse
      <3>4. result \in {Refused(RootIssues(doc)), Parsed(doc, "ChannelValidationError"),
                        Parsed(doc, "LinkValidationError"), Refused({"UNSUPPORTED_FEED"})}
        BY <3>3 DEF FactoryParse, AtomParse, Selected
      <3> HIDE DEF result
      <3> QED
        BY <1>1, <3>1, <3>2, <3>4
    <2>2. \E m \in Nat : DOMAIN result.episodes = 1..m
      <3>1. CASE result.episodes = Episodes(doc)
        BY <1>2, <3>1 DEF Episodes
      <3>2. CASE result.episodes = <<>>
        <4>1. DOMAIN result.episodes = 1..0
          BY <3>2
        <4> QED
          BY <4>1
      <3> QED
        BY <2>1, <3>1, <3>2
    <2>3. Normalized(doc, own) = [title |-> result.feed.title, feedId |-> None, episodes |-> eps]
      BY <1>4 DEF Normalized
    <2> HIDE DEF result
    <2>4. PICK m \in Nat : DOMAIN result.episodes = 1..m
      BY <2>2
    <2>5. eps \in [1..m -> Item]
      BY <2>4 DEF Item
    <2>6. eps \in Seq(Item)
      BY <2>5, SeqDef
    <2> HIDE DEF eps
    <2> QED
      BY <2>1, <2>3, <2>6 DEF ParsedFeed
  <1> QED
    BY <1>3, <1>4

LEMMA ParseStep == ASSUME ImportInv, NEW c \in Importers, Parse(c) PROVE ImportInv'
  <1> DEFINE doc == served[request[c].feed].doc
             feed == Normalized(doc, ProviderOf(c).own)
  <1>1. AreMaps /\ TypedAt(c) /\ Doing(c) /\ ServedOK
    BY DEF ImportInv
  <1>2. /\ step[c] = "downloading"
        /\ UNCHANGED <<served, podcasts, episodes, together, request, attempt, known, looking, tally,
                      requests>>
    BY DEF Parse
  <1>3. known' = [known EXCEPT ![c] = known[c]] /\ known[c] \in Ids \cup {None}
    BY <1>1, <1>2 DEF AreMaps, IsMap, TypedAt
  <1>4. CASE parsed' = parsed /\ step' = [step EXCEPT ![c] = "rejected"]
    <2>1. parsed' = [parsed EXCEPT ![c] = parsed[c]] /\ parsed[c] \in ParsedFeed
      BY <1>1, <1>4 DEF AreMaps, IsMap, TypedAt
    <2> QED
      BY <1>2, <1>3, <1>4, <2>1, FindsOut DEF Finding
  <1>5. CASE /\ parsed' = [parsed EXCEPT ![c] = feed]
             /\ step' = [step EXCEPT ![c] = IF feed.feedId # None THEN "findingById"
                                            ELSE "findingByUrl"]
    <2>1. request[c].feed \in Feeds
      BY <1>1, <1>2 DEF Doing, Request
    <2>2. doc \in Document
      BY <1>1, <2>1, ImportAssumption DEF ServedOK
    <2>3. feed \in ParsedFeed
      BY <2>2, ParsedIsTyped
    <2> DEFINE s == IF feed.feedId # None THEN "findingById" ELSE "findingByUrl"
    <2>4. s \in {"findingById", "findingByUrl"} /\ step' = [step EXCEPT ![c] = s]
      BY <1>5
    <2> HIDE DEF s, feed
    <2> QED
      BY <1>2, <1>3, <1>5, <2>3, <2>4, FindsOut DEF Finding
  <1> QED
    BY <1>4, <1>5 DEF Parse, Goes

LEMMA FindStep ==
    ASSUME ImportInv, NEW c \in Importers, FindById(c) \/ FindByUrl(c)
    PROVE  ImportInv'
  <1>1. AreMaps /\ TypedAt(c) /\ Doing(c)
    BY DEF ImportInv
  <1>2. /\ step[c] \in Finding
        /\ UNCHANGED <<served, podcasts, episodes, together, request, attempt, parsed, looking, tally,
                      requests>>
    BY DEF FindById, FindByUrl, Finding
  <1>3. parsed' = [parsed EXCEPT ![c] = parsed[c]] /\ parsed[c] \in ParsedFeed
    BY <1>1, <1>2 DEF AreMaps, IsMap, TypedAt
  <1>4. ASSUME NEW rows \in SUBSET podcasts, NEW s, Found(c, rows, s),
               s \in {"findingByUrl", "imported", "writing"},
               s = "imported" => SkipsPersistence(request[c]),
               s = "writing" => ~SkipsPersistence(request[c])
        PROVE  ImportInv'
    <2>1. CASE rows = {}
      <3>1. known' = [known EXCEPT ![c] = known[c]] /\ known[c] \in Ids \cup {None}
        BY <1>1, <1>4, <2>1 DEF Found, AreMaps, IsMap, TypedAt
      <3>2. step' = [step EXCEPT ![c] = s]
        BY <1>4, <2>1 DEF Found, Goes
      <3> QED
        BY <1>2, <1>3, <1>4, <3>1, <3>2, FindsOut
    <2>2. CASE rows # {}
      <3> DEFINE id == (CHOOSE p \in rows : TRUE).id
                 then == IF SkipsPersistence(request[c]) THEN "imported" ELSE "writing"
      <3>1. id \in Ids
        <4>1. (CHOOSE p \in rows : TRUE) \in rows
          BY <2>2
        <4> QED
          BY <1>4, <4>1 DEF Ids
      <3>2. known' = [known EXCEPT ![c] = id] /\ step' = [step EXCEPT ![c] = then]
        BY <1>4, <2>2 DEF Found, Goes
      <3>3. /\ then \in {"findingById", "findingByUrl", "imported", "writing", "rejected"}
            /\ then = "imported" => SkipsPersistence(request[c])
            /\ then = "writing" => ~SkipsPersistence(request[c])
        OBVIOUS
      <3>4. id \in Ids \cup {None}
        BY <3>1
      <3> HIDE DEF id, then
      <3> QED
        BY <1>2, <1>3, <3>2, <3>3, <3>4, FindsOut
    <2> QED
      BY <2>1, <2>2
  <1>5. CASE FindById(c)
    <2>1. {p \in podcasts : p.slug = parsed[c].feedId} \in SUBSET podcasts
      OBVIOUS
    <2> QED
      BY <1>4, <1>5, <2>1 DEF FindById
  <1>6. CASE FindByUrl(c)
    <2> DEFINE rows == {p \in podcasts : p.rssUrl = request[c].feed}
               s == IF SkipsPersistence(request[c]) THEN "imported" ELSE "writing"
    <2>1. rows \in SUBSET podcasts /\ Found(c, rows, s)
      BY <1>6 DEF FindByUrl
    <2>2. /\ s \in {"findingByUrl", "imported", "writing"}
          /\ s = "imported" => SkipsPersistence(request[c])
          /\ s = "writing" => ~SkipsPersistence(request[c])
      OBVIOUS
    <2> HIDE DEF rows, s
    <2> QED
      BY <1>4, <2>1, <2>2
  <1> QED
    BY <1>5, <1>6

LEMMA RowIsReplaced ==
    ASSUME PodcastsOK, NEW row, row.id \in Ids, row.rssUrl \in Feeds,
           row.slug \in FeedIds \cup {None}, row.title \in Titles \cup {None},
           podcasts' = {p \in podcasts : p.id # row.id} \cup {row}
    PROVE  PodcastsOK' /\ Ids' = Ids
  <1>1. PICK old \in podcasts : old.id = row.id
    BY DEF Ids
  <1>2. {p \in podcasts : p.id # row.id} = podcasts \ {old}
    BY <1>1 DEF PodcastsOK
  <1>3. /\ IsFiniteSet(podcasts \ {old})
        /\ Cardinality(podcasts \ {old}) = Cardinality(podcasts) - 1
    BY <1>1, FS_RemoveElement DEF PodcastsOK
  <1>4. row \notin podcasts \ {old}
    BY <1>1 DEF PodcastsOK
  <1>5. IsFiniteSet(podcasts') /\ Cardinality(podcasts') = Cardinality(podcasts)
    <2>1. Cardinality(podcasts) \in Nat
      BY FS_CardinalityType DEF PodcastsOK
    <2>2. /\ IsFiniteSet(podcasts')
          /\ Cardinality(podcasts') = Cardinality(podcasts \ {old}) + 1
      BY <1>2, <1>3, <1>4, FS_AddElement
    <2> QED
      BY <1>3, <2>1, <2>2
  <1>6. \A p \in podcasts' : (p \in podcasts /\ p.id # row.id) \/ p = row
    OBVIOUS
  <1>7. \A p, q \in podcasts' : p.id = q.id => p = q
    BY <1>6 DEF PodcastsOK
  <1>8. row.id \in 1..Cardinality(podcasts)
    BY <1>1 DEF PodcastsOK
  <1>9. \A p \in podcasts' :
            /\ p.id \in 1..Cardinality(podcasts) /\ p.rssUrl \in Feeds
            /\ p.slug \in FeedIds \cup {None} /\ p.title \in Titles \cup {None}
    BY <1>6, <1>8 DEF PodcastsOK
  <1>10. Ids' = Ids
    <2>1. ASSUME NEW id \in Ids PROVE id \in Ids'
      <3>1. PICK p \in podcasts : p.id = id
        BY DEF Ids
      <3>2. CASE id = row.id
        BY <3>2 DEF Ids
      <3>3. CASE id # row.id
        BY <3>1, <3>3 DEF Ids
      <3> QED
        BY <3>2, <3>3
    <2>2. ASSUME NEW id \in Ids' PROVE id \in Ids
      BY <1>6 DEF Ids
    <2> QED
      BY <2>1, <2>2
  <1> QED
    BY <1>5, <1>7, <1>9, <1>10 DEF PodcastsOK

LEMMA RowIsAdded ==
    ASSUME PodcastsOK, NEW row, row.id = Cardinality(podcasts) + 1, row.rssUrl \in Feeds,
           row.slug \in FeedIds \cup {None}, row.title \in Titles \cup {None},
           podcasts' = podcasts \cup {row}
    PROVE  PodcastsOK' /\ Ids \subseteq Ids' /\ row.id \in Ids' /\ row.id \in Nat
  <1>1. Cardinality(podcasts) \in Nat
    BY FS_CardinalityType DEF PodcastsOK
  <1>2. \A p \in podcasts : p.id # row.id
    BY <1>1 DEF PodcastsOK
  <1>3. IsFiniteSet(podcasts') /\ Cardinality(podcasts') = Cardinality(podcasts) + 1
    BY <1>2, FS_AddElement DEF PodcastsOK
  <1>4. \A p, q \in podcasts' : p.id = q.id => p = q
    BY <1>2 DEF PodcastsOK
  <1>5. \A p \in podcasts' : p.id \in 1..Cardinality(podcasts')
    BY <1>1, <1>3 DEF PodcastsOK
  <1>6. \A p \in podcasts' : /\ p.rssUrl \in Feeds
                             /\ p.slug \in FeedIds \cup {None} /\ p.title \in Titles \cup {None}
    BY DEF PodcastsOK
  <1> QED
    <2>1. PodcastsOK'
      BY <1>3, <1>4, <1>5, <1>6 DEF PodcastsOK
    <2>2. Ids' = Ids \cup {row.id}
      BY DEF Ids
    <2> QED
      BY <1>1, <2>1, <2>2

\* The row of the podcast is written, and the import turns to its episodes, or it is
\* rejected.
LEMMA Writes ==
    ASSUME ImportInv, NEW c \in Importers, step[c] = "writing", PodcastsOK', Ids \subseteq Ids',
           NEW id \in Ids' \cup {None}, NEW t \in Tally, t.created = 0, t.skipped = 0,
           NEW s \in {NextEpisode(c, 0), "rejected"}, s # "rejected" => id # None,
           step' = [step EXCEPT ![c] = s], known' = [known EXCEPT ![c] = id],
           tally' = [tally EXCEPT ![c] = t],
           UNCHANGED <<served, episodes, together, request, attempt, parsed, looking, requests>>
    PROVE  ImportInv'
  <1>1. /\ AreMaps /\ TypedAt(c) /\ Doing(c) /\ Stored(c)
    BY DEF ImportInv
  <1>2. /\ step'[c] = s /\ tally'[c] = t /\ known'[c] = id
        /\ \A d \in Importers \ {c} :
               step'[d] = step[d] /\ tally'[d] = tally[d] /\ known'[d] = known[d]
    BY <1>1 DEF AreMaps, IsMap
  <1>3. AreMaps' /\ Others(c)
    BY <1>1, <1>2 DEF AreMaps, Others, IsMap
  <1>4. /\ step[c] \in Running /\ tally[c] = NothingDone /\ ~SkipsPersistence(request[c])
        /\ request[c] \in Request /\ looking[c] = 1 /\ parsed[c].episodes \in Seq(Item)
        /\ requests[c] <= attempt[c] + 1
    BY <1>1 DEF Running, Doing, TypedAt, ParsedFeed
  <1>5. Done(c) = 0 /\ Done(c)' = 0 /\ tally[c].created = 0
    BY <1>2, <1>4 DEF Done, NothingDone
  <1>6. /\ s \in {"reporting", "detecting", "rejected"}
        /\ s = "detecting" => 0 < Len(parsed[c].episodes)
        /\ s = "reporting" => Len(parsed[c].episodes) = 0
    BY <1>4 DEF NextEpisode
  <1>7. TypedAt(c)'
    BY <1>1, <1>2, <1>6 DEF TypedAt, Running, Ended
  <1>8. Doing(c)'
    BY <1>2, <1>4, <1>5, <1>6 DEF Doing, Early, Finding
  <1>9. Stored(c)'
    BY <1>1, <1>2, <1>5 DEF Stored
  <1>10. Alone(c)'
    BY <1>2, <1>4, <1>6 DEF Alone, Looked
  <1>11. Grows(c) /\ together \subseteq together'
    BY DEF Grows
  <1>12. (ServedOK /\ EpisodesOK /\ DuplicatesNeedARace /\ Met)'
    <2>1. ServedOK /\ EpisodesOK /\ DuplicatesNeedARace /\ Met
      BY DEF ImportInv
    <2>2. Met'
      BY <1>2, <1>4, <2>1 DEF Met
    <2> QED
      BY <2>1, <2>2 DEF ServedOK, EpisodesOK, DuplicatesNeedARace
  <1> QED
    BY <1>3, <1>7, <1>8, <1>9, <1>10, <1>11, <1>12, Assembles

LEMMA RowIsTyped ==
    ASSUME ImportInv, NEW c \in Importers, step[c] = "writing", NEW id
    PROVE  /\ Row(c, id).id = id /\ Row(c, id).rssUrl \in Feeds
           /\ Row(c, id).slug \in FeedIds \cup {None} /\ Row(c, id).title \in Titles \cup {None}
  <1>1. request[c].feed \in Feeds /\ parsed[c] \in ParsedFeed
    BY DEF ImportInv, Doing, TypedAt, Request
  <1> QED
    BY <1>1 DEF Row, ParsedFeed

\* The writing was rejected: everything stays.
LEMMA NotWritten ==
    ASSUME ImportInv, NEW c \in Importers, step[c] = "writing",
           step' = [step EXCEPT ![c] = "rejected"],
           UNCHANGED <<served, podcasts, known, tally, episodes, together, request, attempt, parsed,
                       looking, requests>>
    PROVE  ImportInv'
  <1>1. AreMaps /\ TypedAt(c) /\ Doing(c)
    BY DEF ImportInv
  <1> QED
    BY <1>1, GoesOn DEF AreMaps, IsMap, TypedAt, Doing, Running, Ended, Early, Finding

LEMMA UpdateStep == ASSUME ImportInv, NEW c \in Importers, UpdatePodcast(c) PROVE ImportInv'
  <1> DEFINE row == Row(c, known[c])
             t == [tally[c] EXCEPT !.updated = 1]
  <1>1. /\ AreMaps /\ PodcastsOK /\ TypedAt(c) /\ Doing(c)
    BY DEF ImportInv
  <1>2. /\ step[c] = "writing" /\ known[c] # None /\ known[c] \in Ids /\ tally[c] = NothingDone
        /\ UNCHANGED <<served, episodes, together, request, attempt, parsed, known, looking, requests>>
    BY <1>1 DEF UpdatePodcast, TypedAt, Doing
  <1>3. CASE UNCHANGED <<podcasts, tally>> /\ step' = [step EXCEPT ![c] = "rejected"]
    BY <1>2, <1>3, NotWritten
  <1>4. CASE /\ podcasts' = {p \in podcasts : p.id # known[c]} \cup {row}
             /\ tally' = [tally EXCEPT ![c] = t]
             /\ step' = [step EXCEPT ![c] = NextEpisode(c, 0)]
    <2>1. /\ row.id = known[c] /\ row.rssUrl \in Feeds
          /\ row.slug \in FeedIds \cup {None} /\ row.title \in Titles \cup {None}
      BY <1>2, RowIsTyped
    <2> HIDE DEF row
    <2>2. PodcastsOK' /\ Ids' = Ids
      BY <1>1, <1>2, <1>4, <2>1, RowIsReplaced
    <2>3. t \in Tally /\ t.created = 0 /\ t.skipped = 0
      BY <1>2 DEF NothingDone, Tally
    <2>4. known' = [known EXCEPT ![c] = known[c]]
      BY <1>1, <1>2 DEF AreMaps, IsMap
    <2> HIDE DEF t
    <2> QED
      BY <1>2, <1>4, <2>2, <2>3, <2>4, Writes
  <1> QED
    BY <1>3, <1>4 DEF UpdatePodcast, Goes

LEMMA CreateStep == ASSUME ImportInv, NEW c \in Importers, CreatePodcast(c) PROVE ImportInv'
  <1> DEFINE id == Cardinality(podcasts) + 1
             row == Row(c, id)
             t == [tally[c] EXCEPT !.podcasts = 1]
  <1>1. /\ AreMaps /\ PodcastsOK /\ TypedAt(c) /\ Doing(c)
    BY DEF ImportInv
  <1>2. /\ step[c] = "writing" /\ tally[c] = NothingDone
        /\ UNCHANGED <<served, episodes, together, request, attempt, parsed, looking, requests>>
    BY <1>1 DEF CreatePodcast, Doing
  <1>3. CASE UNCHANGED <<podcasts, known, tally>> /\ step' = [step EXCEPT ![c] = "rejected"]
    BY <1>2, <1>3, NotWritten
  <1>4. CASE /\ podcasts' = podcasts \cup {row} /\ known' = [known EXCEPT ![c] = id]
             /\ tally' = [tally EXCEPT ![c] = t]
             /\ step' = [step EXCEPT ![c] = NextEpisode(c, 0)]
    <2>1. /\ row.id = id /\ row.rssUrl \in Feeds
          /\ row.slug \in FeedIds \cup {None} /\ row.title \in Titles \cup {None}
      BY <1>2, RowIsTyped
    <2> HIDE DEF row
    <2>2. PodcastsOK' /\ Ids \subseteq Ids' /\ row.id \in Ids' /\ row.id \in Nat
      BY <1>1, <1>4, <2>1, RowIsAdded
    <2>3. t \in Tally /\ t.created = 0 /\ t.skipped = 0
      BY <1>2 DEF NothingDone, Tally
    <2>4. id \in Ids' \cup {None} /\ id # None
      BY <2>1, <2>2, ImportAssumption
    <2> HIDE DEF t, id
    <2> QED
      BY <1>2, <1>4, <2>2, <2>3, <2>4, Writes
  <1> QED
    BY <1>3, <1>4 DEF CreatePodcast, Goes

\* Where an import is after one more episode
LEMMA AfterOneMore ==
    ASSUME ImportInv, NEW c \in Importers, step[c] \in {"detecting", "creating"}
    PROVE  LET s == NextEpisode(c, Done(c) + 1)
           IN  /\ s \in {"detecting", "reporting"} /\ Done(c) \in Nat
               /\ s = "detecting" => Done(c) + 1 < Len(parsed[c].episodes)
               /\ s = "reporting" => Done(c) + 1 = Len(parsed[c].episodes)
  <1>1. /\ tally[c] \in Tally /\ parsed[c].episodes \in Seq(Item)
        /\ Done(c) < Len(parsed[c].episodes)
    BY DEF ImportInv, TypedAt, Doing, ParsedFeed
  <1>2. Done(c) \in Nat /\ Len(parsed[c].episodes) \in Nat
    BY <1>1 DEF Done, Tally
  <1> QED
    BY <1>1, <1>2 DEF NextEpisode

LEMMA SkipStep ==
    ASSUME ImportInv, NEW c \in Importers, Detect(c),
           NEW found \in episodes, found.podcast = known[c], Matches(found, Current(c), looking[c])
    PROVE  ImportInv'
  <1> DEFINE s == NextEpisode(c, Done(c) + 1)
             t == [tally[c] EXCEPT !.skipped = tally[c].skipped + 1]
             n == Done(c)
  <1>1. /\ AreMaps /\ TypedAt(c) /\ Doing(c) /\ Stored(c)
    BY DEF ImportInv
  <1>2. /\ step[c] = "detecting" /\ step' = [step EXCEPT ![c] = s]
        /\ tally' = [tally EXCEPT ![c] = t] /\ looking' = [looking EXCEPT ![c] = 1]
        /\ UNCHANGED <<served, podcasts, episodes, request, attempt, parsed, known, requests, together>>
    BY DEF Detect, Goes
  <1>3. /\ s \in {"detecting", "reporting"} /\ n \in Nat
        /\ s = "detecting" => n + 1 < Len(parsed[c].episodes)
        /\ s = "reporting" => n + 1 = Len(parsed[c].episodes)
    BY <1>2, AfterOneMore
  <1>4. /\ t \in Tally /\ t.created = tally[c].created /\ t.created + t.skipped = n + 1
        /\ t # NothingDone
    BY <1>1 DEF TypedAt, Tally, Done, NothingDone
  <1>5. n = tally[c].created + tally[c].skipped
    BY DEF Done
  <1> HIDE DEF s, t, n
  <1>6. /\ step'[c] = s /\ tally'[c] = t /\ looking'[c] = 1
        /\ \A d \in Importers \ {c} :
               step'[d] = step[d] /\ tally'[d] = tally[d] /\ looking'[d] = looking[d]
    BY <1>1, <1>2 DEF AreMaps, IsMap
  <1>7. AreMaps' /\ Others(c)
    BY <1>1, <1>2, <1>6 DEF AreMaps, Others, IsMap
  <1>8. Done(c)' = n + 1 /\ Done(c) = n
    BY <1>4, <1>6 DEF Done, n
  <1>9. TypedAt(c)'
    BY <1>1, <1>2, <1>3, <1>4, <1>6 DEF TypedAt, Running, Ended, Ids
  <1>10. Doing(c)'
    BY <1>1, <1>2, <1>3, <1>4, <1>6, <1>8 DEF Doing, Early, Finding
  <1>11. Stored(c)'
    <2>1. Has({e \in episodes : e.podcast = known[c]}, parsed[c].episodes[n + 1])
      BY <1>1, <1>8 DEF Has, Current, TypedAt
    <2>2. \A i \in 1..(n + 1) : i \in 1..n \/ i = n + 1
      BY <1>3
    <2>3. \A i \in 1..(n + 1) :
              \/ \E e \in episodes : e.by = c /\ e.at = i
              \/ Has({e \in episodes : e.podcast = known[c]}, parsed[c].episodes[i])
      BY <1>1, <1>8, <2>1, <2>2 DEF Stored
    <2>4. \A e \in episodes : e.by = c => e.at \in 1..(n + 1)
      BY <1>1, <1>3, <1>8 DEF Stored
    <2> QED
      BY <1>1, <1>2, <1>4, <1>6, <1>8, <2>3, <2>4 DEF Stored
  <1>12. Alone(c)'
    BY <1>3, <1>6 DEF Alone, Looked
  <1> QED
    BY <1>2, <1>7, <1>9, <1>10, <1>11, <1>12, WritesNothing DEF Running

LEMMA LookStep ==
    ASSUME ImportInv, NEW c \in Importers, Detect(c),
           ~\E e \in episodes : e.podcast = known[c] /\ Matches(e, Current(c), looking[c])
    PROVE  ImportInv'
  <1> DEFINE s == IF looking[c] = 3 THEN "creating" ELSE "detecting"
             l == IF looking[c] = 3 THEN 1 ELSE looking[c] + 1
  <1>1. /\ AreMaps /\ TypedAt(c) /\ Doing(c) /\ Stored(c) /\ Alone(c)
    BY DEF ImportInv
  <1>2. /\ step[c] = "detecting" /\ step' = [step EXCEPT ![c] = s]
        /\ looking' = [looking EXCEPT ![c] = l]
        /\ UNCHANGED <<served, podcasts, episodes, request, attempt, parsed, known, tally, requests,
                      together>>
    BY DEF Detect, Goes
  <1>3. \/ s = "creating" /\ l = 1 /\ looking[c] = 3
        \/ s = "detecting" /\ l = 2 /\ looking[c] = 1
        \/ s = "detecting" /\ l = 3 /\ looking[c] = 2
    BY <1>1 DEF TypedAt
  <1> HIDE DEF s, l
  <1>4. /\ step'[c] = s /\ looking'[c] = l
        /\ \A d \in Importers \ {c} : step'[d] = step[d] /\ looking'[d] = looking[d]
    BY <1>1, <1>2 DEF AreMaps, IsMap
  <1>5. AreMaps' /\ Others(c)
    BY <1>1, <1>2, <1>4 DEF AreMaps, Others, IsMap
  <1>6. Done(c)' = Done(c) /\ Current(c)' = Current(c)
    BY <1>2 DEF Done, Current
  <1>7. TypedAt(c)'
    BY <1>1, <1>2, <1>3, <1>4 DEF TypedAt, Running, Ended, Ids
  <1>8. Doing(c)'
    BY <1>1, <1>2, <1>3, <1>4, <1>6 DEF Doing, Early, Finding
  <1>9. Stored(c)'
    BY <1>1, <1>2, <1>6 DEF Stored
  <1>10. Alone(c)'
    <2>1. CASE looking[c] = 3
      BY <1>1, <1>2, <1>6, <2>1 DEF Alone, Looked
    <2>2. CASE looking[c] = 2
      <3>1. \A e \in episodes : ~(/\ e.podcast = known[c] /\ Current(c).url # None
                                  /\ e.url = Current(c).url)
        BY <2>2 DEF Matches
      <3> QED
        BY <1>2, <1>6, <3>1 DEF Alone
    <2>3. CASE looking[c] = 1
      BY <1>3, <1>4, <2>3 DEF Alone, Looked
    <2> QED
      BY <1>3, <2>1, <2>2, <2>3
  <1> QED
    BY <1>2, <1>5, <1>7, <1>8, <1>9, <1>10, WritesNothing DEF Running

LEMMA EpisodeStep == ASSUME ImportInv, NEW c \in Importers, CreateEpisode(c) PROVE ImportInv'
  <1> DEFINE s == NextEpisode(c, Done(c) + 1)
             t == [tally[c] EXCEPT !.created = tally[c].created + 1]
             n == Done(c)
             row == EpisodeRow(c)
             mine == {e \in episodes : e.by = c}
  <1>1. /\ AreMaps /\ TypedAt(c) /\ Doing(c) /\ Stored(c) /\ Alone(c) /\ EpisodesOK
    BY DEF ImportInv
  <1>2. /\ step[c] = "creating" /\ UNCHANGED <<served, podcasts, request, attempt, parsed, known,
                                              looking, requests, together>>
    BY DEF CreateEpisode
  <1>3. CASE UNCHANGED <<episodes, tally>> /\ step' = [step EXCEPT ![c] = "rejected"]
    BY <1>1, <1>2, <1>3, GoesOn DEF AreMaps, IsMap, TypedAt, Doing, Running, Ended, Early, Finding
  <1>4. CASE /\ episodes' = episodes \cup {row} /\ tally' = [tally EXCEPT ![c] = t]
             /\ step' = [step EXCEPT ![c] = s]
    <2>1. /\ s \in {"detecting", "reporting"} /\ n \in Nat
          /\ s = "detecting" => n + 1 < Len(parsed[c].episodes)
          /\ s = "reporting" => n + 1 = Len(parsed[c].episodes)
      BY <1>2, AfterOneMore
    <2>2. /\ t \in Tally /\ t.created = tally[c].created + 1 /\ t.created + t.skipped = n + 1
          /\ t # NothingDone /\ tally[c].created \in Nat
      BY <1>1 DEF TypedAt, Tally, Done, NothingDone
    <2>3. /\ row.podcast = known[c] /\ row.url = Current(c).url /\ row.by = c /\ row.at = n + 1
      BY DEF EpisodeRow
    <2>4. known[c] \in Ids /\ looking[c] = 1
      BY <1>1, <1>2 DEF TypedAt, Doing
    <2>5. Done(c) = n
      OBVIOUS
    <2> HIDE DEF s, t, n, row
    <2>6. /\ step'[c] = s /\ tally'[c] = t
          /\ \A d \in Importers \ {c} : step'[d] = step[d] /\ tally'[d] = tally[d]
      BY <1>1, <1>4 DEF AreMaps, IsMap
    <2>7. AreMaps' /\ Others(c)
      BY <1>1, <1>2, <1>4, <2>6 DEF AreMaps, Others, IsMap
    <2>8. Done(c)' = n + 1
      BY <2>2, <2>6 DEF Done
    <2>9. TypedAt(c)'
      BY <1>1, <1>2, <2>1, <2>2, <2>6 DEF TypedAt, Running, Ended, Ids
    <2>10. Doing(c)'
      BY <1>1, <1>2, <2>1, <2>2, <2>4, <2>6, <2>8 DEF Doing, Early, Finding
    <2>11. \A e \in episodes : e.by = c => e.at \in 1..n
      BY <1>1, <2>5 DEF Stored
    <2>12. row \notin mine
      BY <2>1, <2>3, <2>11
    <2>13. Cardinality({e \in episodes' : e.by = c}) = tally[c].created + 1
      <3>1. {e \in episodes' : e.by = c} = mine \cup {row}
        BY <1>4, <2>3
      <3>2. IsFiniteSet(mine) /\ Cardinality(mine) = tally[c].created
        BY <1>1, FS_Subset DEF EpisodesOK, Stored
      <3> HIDE DEF mine
      <3> QED
        BY <2>12, <3>1, <3>2, FS_AddElement
    <2>14. Stored(c)'
      <3>1. \A i \in 1..(n + 1) : i \in 1..n \/ i = n + 1
        BY <2>1
      <3>2. ASSUME NEW i \in 1..(n + 1)
            PROVE  \/ \E e \in episodes' : e.by = c /\ e.at = i
                   \/ Has({e \in episodes' : e.podcast = known[c]}, parsed[c].episodes[i])
        <4>1. CASE i = n + 1
          BY <1>4, <2>3, <4>1
        <4>2. CASE i \in 1..n
          BY <1>1, <1>4, <2>5, <4>2 DEF Stored, Has
        <4> QED
          BY <3>1, <4>1, <4>2
      <3>3. \A e \in episodes' : e.by = c => e.at \in 1..(n + 1)
        BY <1>4, <2>1, <2>3, <2>11
      <3> QED
        BY <1>2, <2>2, <2>6, <2>8, <2>13, <3>2, <3>3 DEF Stored
    <2>15. Alone(c)'
      BY <1>2, <2>1, <2>4, <2>6 DEF Alone, Looked
    <2>16. Grows(c) /\ Ids' = Ids /\ together \subseteq together'
      BY <1>2, <1>4, <2>3 DEF Grows, Ids, Running
    <2>17. EpisodesOK'
      BY <1>1, <1>4, <2>3, <2>4, <2>16, FS_AddElement DEF EpisodesOK
    <2>18. DuplicatesNeedARace'
      <3> SUFFICES ASSUME NEW d \in episodes', NEW e \in episodes', d # e,
                          d.podcast = e.podcast, d.url # None, d.url = e.url
                   PROVE  <<d.by, e.by>> \in together
        BY <1>2 DEF DuplicatesNeedARace
      <3>1. Looked(c)
        BY <1>2 DEF Looked
      <3>2. CASE d \in episodes /\ e \in episodes
        BY <3>2 DEF ImportInv, DuplicatesNeedARace
      <3>3. CASE d = row /\ e \in episodes
        BY <1>1, <2>3, <3>1, <3>3 DEF Alone
      <3>4. CASE d \in episodes /\ e = row
        BY <1>1, <2>3, <3>1, <3>4 DEF Alone
      <3> QED
        BY <1>4, <3>2, <3>3, <3>4
    <2>19. (ServedOK /\ PodcastsOK /\ Met)'
      <3>1. ServedOK /\ PodcastsOK /\ Met
        BY DEF ImportInv
      <3>2. Met'
        BY <1>2, <2>6, <3>1 DEF Met, Running
      <3> QED
        BY <1>2, <3>1, <3>2 DEF ServedOK, PodcastsOK
    <2> QED
      BY <2>7, <2>9, <2>10, <2>14, <2>15, <2>16, <2>17, <2>18, <2>19, Assembles
  <1> QED
    BY <1>3, <1>4 DEF CreateEpisode, Goes

------------------------------------------------------------------------------
(* The steps that begin an import, or that change what a server has *)

\* An import that begins meets the ones that run.
LEMMA BeginStep ==
    ASSUME ImportInv, NEW c \in Importers, NEW r \in Request, ImportBegins(c, r)
    PROVE  ImportInv'
  <1>1. AreMaps /\ TypedAt(c) /\ Doing(c) /\ Stored(c) /\ Met
    BY DEF ImportInv
  <1>2. /\ step[c] = "idle" /\ step' = [step EXCEPT ![c] = "resolving"]
        /\ request' = [request EXCEPT ![c] = r]
        /\ UNCHANGED <<served, podcasts, episodes, attempt, parsed, known, looking, tally, requests>>
    BY DEF ImportBegins, Goes
  <1>3. /\ step'[c] = "resolving" /\ request'[c] = r
        /\ \A d \in Importers \ {c} : step'[d] = step[d] /\ request'[d] = request[d]
    BY <1>1, <1>2 DEF AreMaps, IsMap
  <1>4. AreMaps' /\ Others(c)
    BY <1>1, <1>2, <1>3 DEF AreMaps, Others, IsMap
  <1>5. tally[c] = NothingDone /\ requests[c] = attempt[c] /\ looking[c] = 1
    BY <1>1, <1>2 DEF Doing, Early
  <1>6. Done(c) = 0 /\ Done(c)' = 0
    BY <1>2, <1>5 DEF Done, NothingDone
  <1>7. TypedAt(c)'
    BY <1>1, <1>2, <1>3 DEF TypedAt, Running, Ids
  <1>8. Doing(c)'
    BY <1>1, <1>2, <1>3, <1>5, <1>6 DEF Doing, TypedAt, Early, Finding
  <1>9. Stored(c)'
    BY <1>1, <1>2, <1>6 DEF Stored
  <1>10. Alone(c)'
    BY <1>3 DEF Alone, Looked
  <1>11. together \subseteq together'
    BY DEF ImportBegins
  <1>12. \A d \in Importers : step[d] \in Running => <<c, d>> \in together' /\ <<d, c>> \in together'
    BY DEF ImportBegins
  <1>13. Met'
    BY <1>1, <1>3, <1>11, <1>12 DEF Met
  <1>14. Grows(c) /\ Ids' = Ids
    BY <1>2 DEF Grows, Ids
  <1>15. (ServedOK /\ PodcastsOK /\ EpisodesOK /\ DuplicatesNeedARace)'
    BY <1>2, <1>11, <1>14 DEF ImportInv, ServedOK, PodcastsOK, EpisodesOK, DuplicatesNeedARace
  <1> QED
    BY <1>4, <1>7, <1>8, <1>9, <1>10, <1>11, <1>13, <1>14, <1>15, Assembles

LEMMA PublishStep ==
    ASSUME ImportInv, NEW f \in Feeds, NEW d \in Documents[f], FeedChanges(f, d)
    PROVE  ImportInv'
  <1>1. /\ served[f].version < MaxVersion
        /\ served' = [served EXCEPT ![f] = [version |-> served[f].version + 1, doc |-> d]]
        /\ UNCHANGED <<podcasts, episodes, step, request, attempt, parsed, known, looking, tally,
                      requests, together>>
    BY DEF FeedChanges
  <1>2. ServedOK'
    <2>1. ServedOK /\ MaxVersion \in Nat
      BY ImportAssumption DEF ImportInv
    <2>2. /\ served' = [g \in Feeds |-> served'[g]]
          /\ served'[f] = [version |-> served[f].version + 1, doc |-> d]
          /\ \A g \in Feeds \ {f} : served'[g] = served[g]
      BY <1>1, <2>1 DEF ServedOK
    <2>3. served[f].version + 1 \in 1..MaxVersion
      BY <1>1, <2>1 DEF ServedOK
    <2> QED
      BY <2>1, <2>2, <2>3 DEF ServedOK
  <1>3. Ids' = Ids
    BY <1>1 DEF Ids
  <1>4. \A c \in Importers : Done(c)' = Done(c) /\ Current(c)' = Current(c)
    BY <1>1 DEF Done, Current
  <1>5. ASSUME NEW c \in Importers
        PROVE  (TypedAt(c) /\ Doing(c) /\ Stored(c) /\ Alone(c))'
    <2>1. TypedAt(c) /\ Doing(c) /\ Stored(c) /\ Alone(c)
      BY DEF ImportInv
    <2>2. TypedAt(c)' /\ Doing(c)'
      BY <1>1, <1>3, <1>4, <2>1 DEF TypedAt, Doing
    <2>3. Stored(c)' /\ Alone(c)'
      BY <1>1, <1>4, <2>1 DEF Stored, Alone, Looked
    <2> QED
      BY <2>2, <2>3
  <1>6. (AreMaps /\ PodcastsOK /\ EpisodesOK /\ Met /\ DuplicatesNeedARace)'
    BY <1>1, <1>3 DEF ImportInv, AreMaps, PodcastsOK, EpisodesOK, Met, DuplicatesNeedARace
  <1> QED
    BY <1>2, <1>5, <1>6 DEF ImportInv

LEMMA DetectStep == ASSUME ImportInv, NEW c \in Importers, Detect(c) PROVE ImportInv'
  <1>1. CASE \E e \in episodes : e.podcast = known[c] /\ Matches(e, Current(c), looking[c])
    BY <1>1, SkipStep
  <1>2. CASE ~\E e \in episodes : e.podcast = known[c] /\ Matches(e, Current(c), looking[c])
    BY <1>2, LookStep
  <1> QED
    BY <1>1, <1>2

LEMMA ImportKeeps == ASSUME ImportInv, NEW c \in Importers, ImportSteps(c) PROVE ImportInv'
  <1>1. CASE Resolve(c) \/ Parse(c)
    BY <1>1, ResolveStep, ParseStep
  <1>2. CASE \E outcome \in Outcomes : RequestEnds(c, outcome)
    BY <1>2, RequestStep
  <1>3. CASE FindById(c) \/ FindByUrl(c)
    BY <1>3, FindStep
  <1>4. CASE UpdatePodcast(c) \/ CreatePodcast(c)
    BY <1>4, UpdateStep, CreateStep
  <1>5. CASE Detect(c) \/ CreateEpisode(c) \/ Report(c)
    BY <1>5, DetectStep, EpisodeStep, ReportStep
  <1> QED
    BY <1>1, <1>2, <1>3, <1>4, <1>5 DEF ImportSteps

------------------------------------------------------------------------------
(* The steps of the engines *)

SameEngaged(d) ==
    /\ phase'[d] = phase[d] /\ call'[d] = call[d] /\ answer'[d] = answer[d] /\ seen'[d] = seen[d]
    /\ step'[d] = step[d] /\ request'[d] = request[d]

LEMMA EngineStep ==
    ASSUME EngineInv, NEW c \in Importers, EngineMaps', executed' \subseteq Importers, Engaged(c)',
           \A d \in Importers \ {c} : SameEngaged(d)
    PROVE  EngineInv'
  <1>1. ASSUME NEW d \in Importers \ {c} PROVE Engaged(d)'
    <2>1. Engaged(d) /\ SameEngaged(d)
      BY DEF EngineInv
    <2> QED
      BY <2>1 DEF Engaged, SameEngaged
  <1> QED
    BY <1>1 DEF EngineInv

\* A call is typed, and the import it may ask for.
LEMMA CallIsTyped ==
    ASSUME EngineInv, NEW c \in Importers, phase[c] # "idle"
    PROVE  /\ call[c] \in Calls[c] /\ call[c] \in Call /\ Engaged(c)
           /\ Asked(call[c]) \in Request
           /\ [feed |-> call[c].feed, mode |-> call[c].mode, dryRun |-> FALSE,
              validateOnly |-> FALSE] \in Request
  <1>1. Engaged(c) /\ call[c] \in Calls[c] /\ call[c] \in Call
    BY EngineAssumption DEF EngineInv, Engaged
  <1>2. /\ call[c].feed \in Feeds /\ call[c].mode \in Modes /\ call[c].dryRun \in BOOLEAN
        /\ call[c].validateOnly \in BOOLEAN
    BY <1>1 DEF Call
  <1> QED
    BY <1>1, <1>2 DEF Asked, Request

\* What a call has seen is looked at anew, or stays.
Sees(c) ==
    /\ IsMap(seen') /\ \A d \in Importers \ {c} : seen'[d] = seen[d]
    /\ seen'[c].notModified \in BOOLEAN /\ seen'[c].at \in 0..MaxVersion

LEMMA SeesAsBefore ==
    ASSUME EngineInv, NEW c \in Importers, UNCHANGED seen PROVE Sees(c) /\ seen'[c] = seen[c]
  BY DEF EngineInv, EngineMaps, IsMap, Engaged, Sees

\* What a call answers must be true of what it has seen, and of where its import is.
LEMMA Answering ==
    ASSUME EngineInv, NEW c \in Importers, phase[c] \notin {"idle", "ended"},
           NEW status \in {"unchanged", "completed", "failed", "thrown"},
           NEW success \in BOOLEAN, Answers(c, status, success), Sees(c),
           UNCHANGED <<call, step, request>>, executed' \subseteq Importers,
           status = "completed" =>
               step[c] = "imported" \/ (call[c].engine = "incremental" /\ step[c] = "refused"),
           HasDownloader /\ status = "unchanged" /\ call[c].engine = "incremental" =>
               \/ seen'[c].notModified /\ call[c].checkpoint.etag = seen'[c].at
               \/ seen'[c].snapshot # None /\ seen'[c].snapshot.content = None
    PROVE  EngineInv'
  <1> DEFINE a == Answer(status, success)
  <1>1. EngineMaps /\ Engaged(c)
    BY DEF EngineInv
  <1>2. phase' = [phase EXCEPT ![c] = "ended"] /\ answer' = [answer EXCEPT ![c] = a]
    BY DEF Answers, Enters
  <1>3. a.status = status /\ a.success = success
    BY DEF Answer
  <1> HIDE DEF a
  <1>4. /\ phase'[c] = "ended" /\ answer'[c] = a
        /\ EngineMaps' /\ \A d \in Importers \ {c} : SameEngaged(d)
    BY <1>1, <1>2 DEF EngineMaps, IsMap, SameEngaged, Sees
  <1>5. Engaged(c)'
    BY <1>1, <1>3, <1>4 DEF Engaged, Conditional, Sees
  <1> QED
    BY <1>4, <1>5, EngineStep

\* One that answers without having looked at the feed again
LEMMA AnsweringNow ==
    ASSUME EngineInv, NEW c \in Importers, phase[c] \notin {"idle", "ended"},
           NEW status \in {"unchanged", "completed", "failed", "thrown"},
           NEW success \in BOOLEAN, Answers(c, status, success),
           UNCHANGED <<call, seen, step, request>>, executed' \subseteq Importers,
           status = "completed" =>
               step[c] = "imported" \/ (call[c].engine = "incremental" /\ step[c] = "refused"),
           HasDownloader /\ status = "unchanged" /\ call[c].engine = "incremental" =>
               \/ seen[c].notModified /\ call[c].checkpoint.etag = seen[c].at
               \/ seen[c].snapshot # None /\ seen[c].snapshot.content = None
    PROVE  EngineInv'
  BY SeesAsBefore, Answering

\* One that goes on without an answer, and without an import of its own
LEMMA Entering ==
    ASSUME EngineInv, NEW c \in Importers, phase[c] \notin {"idle", "ended"},
           NEW p \in {"deciding", "downloading", "comparing", "executing"}, Enters(c, p),
           Sees(c), UNCHANGED <<call, answer, step, request, executed>>,
           p # "deciding" => call[c].engine = "incremental",
           p = "deciding" => call[c].engine = "core",
           p = "executing" => step[c] = "imported",
           HasDownloader /\ p = "comparing" =>
               seen'[c].snapshot # None /\ seen'[c].snapshot.metadata = seen'[c].snapshot.content
    PROVE  EngineInv'
  <1>1. EngineMaps /\ Engaged(c) /\ answer[c] = NoAnswer
    BY DEF EngineInv, Engaged
  <1>2. /\ phase'[c] = p
        /\ EngineMaps' /\ \A d \in Importers \ {c} : SameEngaged(d)
    BY <1>1 DEF EngineMaps, IsMap, SameEngaged, Enters, Sees
  <1>3. answer[c].status = None /\ None \notin {"unchanged", "completed"}
    BY <1>1, EngineAssumption DEF NoAnswer
  <1>4. Engaged(c)'
    BY <1>1, <1>2, <1>3 DEF Engaged, Conditional, Sees
  <1> QED
    BY <1>2, <1>4, EngineStep DEF EngineInv

\* One that begins an import: it stores nothing if the call asks for that.
LEMMA Importing ==
    ASSUME EngineInv, ImportInv, NEW c \in Importers, phase[c] \notin {"idle", "ended"},
           NEW r \in Request, ImportBegins(c, r), Enters(c, "importing"),
           AsksForNoWrites(call[c]) => SkipsPersistence(r),
           UNCHANGED <<call, answer, seen, executed>>
    PROVE  EngineInv'
  <1>1. EngineMaps /\ Engaged(c) /\ answer[c] = NoAnswer
    BY DEF EngineInv, Engaged
  <1>2. /\ phase'[c] = "importing" /\ step'[c] = "resolving" /\ request'[c] = r
        /\ EngineMaps' /\ \A d \in Importers \ {c} : SameEngaged(d)
    BY <1>1 DEF EngineMaps, IsMap, SameEngaged, Enters, ImportBegins, Goes, ImportInv, AreMaps
  <1>3. answer[c].status = None /\ None \notin {"unchanged", "completed"}
    BY <1>1, EngineAssumption DEF NoAnswer
  <1>4. Engaged(c)'
    BY <1>1, <1>2, <1>3 DEF Engaged, Conditional
  <1> QED
    BY <1>2, <1>4, EngineStep DEF EngineInv

\* Each engine's steps, by what they lead to
LEMMA SynchronizeStep ==
    ASSUME EngineInv, NEW c \in Importers, NEW r \in Calls[c], Synchronize(c, r)
    PROVE  EngineInv'
  <1>1. EngineMaps /\ Engaged(c) /\ r \in Call
    BY EngineAssumption DEF EngineInv
  <1>2. /\ phase[c] = "idle" /\ step[c] = "idle" /\ answer[c] = NoAnswer
        /\ UNCHANGED <<answer, seen, step, request, executed>>
    BY <1>1 DEF Synchronize, Engaged, importVars
  <1>3. /\ phase'[c] = (IF r.engine = "core" THEN "loading" ELSE "restoring") /\ call'[c] = r
        /\ EngineMaps' /\ \A d \in Importers \ {c} : SameEngaged(d)
    BY <1>1, <1>2 DEF EngineMaps, IsMap, SameEngaged, Enters, Synchronize
  <1>4. answer[c].status = None /\ None \notin {"unchanged", "completed"}
    BY <1>2, EngineAssumption DEF NoAnswer
  <1>5. r.engine \in {"core", "incremental"}
    BY <1>1 DEF Call
  <1>6. Engaged(c)'
    BY <1>1, <1>2, <1>3, <1>4, <1>5 DEF Engaged, Conditional
  <1> QED
    BY <1>2, <1>3, <1>6, EngineStep DEF EngineInv

LEMMA LoadStep == ASSUME EngineInv, NEW c \in Importers, StateLoads(c) PROVE EngineInv'
  <1>1. /\ phase[c] = "loading" /\ call[c].engine = "core" /\ Enters(c, "deciding")
        /\ UNCHANGED <<call, seen, answer, step, request, executed>>
    BY DEF EngineInv, Engaged, StateLoads, importVars
  <1> QED
    BY <1>1, SeesAsBefore, Entering

LEMMA FailStep ==
    ASSUME EngineInv, NEW c \in Importers, EmitFails(c) \/ DownloadFails(c) \/ PlanFails(c)
    PROVE  EngineInv'
  <1>1. /\ phase[c] \notin {"idle", "ended"} /\ Answers(c, "thrown", FALSE)
        /\ UNCHANGED <<call, seen, step, request>> /\ executed' \subseteq Importers
    BY DEF EmitFails, DownloadFails, PlanFails, importVars, EngineInv
  <1> QED
    BY <1>1, AnsweringNow

LEMMA DecideStep == ASSUME EngineInv, ImportInv, NEW c \in Importers, Decide(c) PROVE EngineInv'
  <1> DEFINE r == Asked(call[c])
  <1>1. /\ phase[c] = "deciding" /\ UNCHANGED <<call, seen, executed>>
        /\ executed \subseteq Importers
    BY DEF Decide, EngineInv
  <1>2. /\ r \in Request /\ call[c].engine = "core"
    BY <1>1, CallIsTyped DEF Engaged
  <1>3. CASE Answers(c, "unchanged", TRUE) /\ UNCHANGED importVars
    BY <1>1, <1>2, <1>3, AnsweringNow DEF importVars
  <1>4. CASE /\ ~ValidatesOnly(call[c]) /\ ~OnlyPreviews(call[c]) /\ Enters(c, "importing")
             /\ ImportBegins(c, r) /\ UNCHANGED answer
    <2>1. AsksForNoWrites(call[c]) => SkipsPersistence(r)
      BY <1>4 DEF ValidatesOnly, OnlyPreviews, AsksForNoWrites, SkipsPersistence, Asked
    <2> HIDE DEF r
    <2> QED
      BY <1>1, <1>2, <1>4, <2>1, Importing
  <1> QED
    BY <1>3, <1>4 DEF Decide

LEMMA ImportedStep ==
    ASSUME EngineInv, ImportInv, NEW c \in Importers, CoreImported(c) \/ IncrementalImported(c)
    PROVE  EngineInv'
  <1>1. /\ phase[c] = "importing" /\ step[c] \in {"imported", "refused", "rejected"}
        /\ UNCHANGED <<call, seen, step, request, executed>> /\ executed \subseteq Importers
    BY DEF CoreImported, IncrementalImported, importVars, EngineInv, Ended
  <1>2. CASE Answers(c, "thrown", FALSE) \/ Answers(c, "failed", FALSE)
    BY <1>1, <1>2, AnsweringNow
  <1>3. CASE /\ Answers(c, "completed", TRUE)
             /\ \/ step[c] = "imported"
                \/ call[c].engine = "incremental" /\ step[c] = "refused"
    BY <1>1, <1>3, AnsweringNow
  <1>4. CASE /\ Enters(c, "executing") /\ UNCHANGED answer /\ call[c].engine = "incremental"
             /\ step[c] = "imported"
    BY <1>1, <1>4, SeesAsBefore, Entering
  <1> QED
    BY <1>1, <1>2, <1>3, <1>4 DEF CoreImported, IncrementalImported

LEMMA RestoreStep == ASSUME EngineInv, NEW c \in Importers, Restore(c) PROVE EngineInv'
  <1> DEFINE p == IF HasDownloader THEN "downloading" ELSE "comparing"
  <1>1. /\ phase[c] = "restoring" /\ UNCHANGED <<call, seen, step, request, executed>>
        /\ executed \subseteq Importers /\ call[c].engine = "incremental"
    BY DEF Restore, EngineInv, Engaged, Conditional, importVars
  <1>2. CASE Answers(c, "thrown", FALSE)
    BY <1>1, <1>2, AnsweringNow
  <1>3. CASE Enters(c, p) /\ UNCHANGED answer
    <2>1. p \in {"downloading", "comparing"} /\ (HasDownloader => p # "comparing")
      OBVIOUS
    <2> HIDE DEF p
    <2> QED
      BY <1>1, <1>3, <2>1, SeesAsBefore, Entering
  <1> QED
    BY <1>2, <1>3 DEF Restore

LEMMA DownloadStep ==
    ASSUME EngineInv, ImportInv, NEW c \in Importers, NEW sameTime \in BOOLEAN,
           NEW bodiless \in BOOLEAN, ConditionalDownload(c, sameTime, bodiless)
    PROVE  EngineInv'
  <1> DEFINE current == served[call[c].feed]
             body == IF bodiless THEN None ELSE current.doc
             now == IF sameTime THEN 0 ELSE 1
             d == DownloadedSnapshot(body, now, body)
             v == [notModified |-> NotModified(c), at |-> current.version,
                   snapshot |-> IF NotModified(c) THEN None ELSE d]
  <1>1. /\ phase[c] = "downloading" /\ UNCHANGED <<call, step, request, executed>>
        /\ executed \subseteq Importers /\ call[c].engine = "incremental"
        /\ seen' = [seen EXCEPT ![c] = v]
    BY DEF ConditionalDownload, EngineInv, Engaged, Conditional, importVars
  <1>2. call[c].feed \in Feeds
    BY <1>1, CallIsTyped DEF Call
  <1>3. current.version \in 0..MaxVersion /\ current.doc \in Documents[call[c].feed]
    BY <1>2, ImportAssumption DEF ImportInv, ServedOK
  <1>4. d # None /\ d.metadata = d.content
    <2>1. body \in Documents[call[c].feed] \cup {None} /\ now \in 0..1
      BY <1>3
    <2>2. d # None
      <3> HIDE DEF body, now
      <3> QED
        BY <1>2, <2>1, EngineAssumption
    <2> QED
      BY <2>2 DEF DownloadedSnapshot
  <1>5. NotModified(c) \in BOOLEAN
    BY DEF NotModified
  <1>6. NotModified(c) => call[c].checkpoint.etag = current.version
    BY DEF NotModified
  <1>7. Answers(c, "unchanged", TRUE) \/ (Enters(c, "comparing") /\ UNCHANGED answer)
    BY DEF ConditionalDownload
  <1>8. NotModified(c) => Answers(c, "unchanged", TRUE)
    BY DEF ConditionalDownload
  <1>9. ~NotModified(c) => Enters(c, "comparing") /\ UNCHANGED answer
    BY DEF ConditionalDownload
  <1>10. /\ v.notModified = NotModified(c) /\ v.at = current.version
         /\ ~NotModified(c) => v.snapshot = d
    OBVIOUS
  <1> HIDE DEF current, d, v
  <1>11. Sees(c) /\ seen'[c] = v
    BY <1>1, <1>3, <1>5, <1>10 DEF EngineInv, EngineMaps, IsMap, Sees
  <1>12. CASE NotModified(c)
    BY <1>1, <1>3, <1>6, <1>8, <1>10, <1>11, <1>12, Answering
  <1>13. CASE ~NotModified(c)
    BY <1>1, <1>3, <1>4, <1>9, <1>10, <1>11, <1>13, Entering
  <1> QED
    BY <1>12, <1>13

\* When nothing is planned the metadata do not differ: the state has none.
LEMMA NothingPlanned ==
    ASSUME NEW p, NEW q, ImportPlan(Differences(p, q)) = {} PROVE p.metadata = q.metadata
  <1>1. Differences(p, q) = {}
    BY DEF ImportPlan
  <1>2. MetadataDifferences(p, q) = {}
    BY <1>1 DEF Differences
  <1> QED
    BY <1>2 DEF MetadataDifferences, If

LEMMA CompareStep == ASSUME EngineInv, ImportInv, NEW c \in Importers, Compare(c) PROVE EngineInv'
  <1> DEFINE r == [feed |-> call[c].feed, mode |-> call[c].mode, dryRun |-> FALSE,
                   validateOnly |-> FALSE]
             before == StateSnapshot(call[c])
             after == CurrentSnapshot(c)
             plan == ImportPlan(Differences(before, after))
  <1>1. /\ phase[c] = "comparing" /\ UNCHANGED <<call, seen, executed>>
        /\ executed \subseteq Importers /\ call[c].engine = "incremental" /\ Engaged(c)
    BY DEF Compare, EngineInv, Engaged, Conditional
  <1>2. r \in Request
    BY <1>1, CallIsTyped
  <1>3. CASE plan = {}
    <2>1. Answers(c, "unchanged", TRUE) /\ UNCHANGED <<step, request>>
      BY <1>3 DEF Compare, importVars
    <2>2. before.metadata = after.metadata
      <3> HIDE DEF before, after
      <3> QED
        BY <1>3, NothingPlanned
    <2>3. before.metadata = None
      BY DEF StateSnapshot, ToSnapshot
    <2>4. HasDownloader => seen[c].snapshot # None /\ seen[c].snapshot.content = None
      BY <1>1, <2>2, <2>3 DEF Engaged, CurrentSnapshot
    <2> QED
      BY <1>1, <2>1, <2>4, AnsweringNow
  <1>4. CASE plan # {}
    <2>1. Enters(c, "importing") /\ UNCHANGED answer /\ ImportBegins(c, r)
      BY <1>4 DEF Compare
    <2>2. AsksForNoWrites(call[c]) => SkipsPersistence(r)
      BY <1>1 DEF AsksForNoWrites, SkipsPersistence
    <2> HIDE DEF r
    <2> QED
      BY <1>1, <1>2, <2>1, <2>2, Importing
  <1> QED
    BY <1>3, <1>4

LEMMA ExecuteStep == ASSUME EngineInv, NEW c \in Importers, ExecutePlan(c) PROVE EngineInv'
  <1>1. /\ phase[c] = "executing" /\ UNCHANGED <<call, seen, step, request>>
        /\ executed' \subseteq Importers /\ call[c].engine = "incremental"
        /\ Answers(c, "completed", TRUE) /\ step[c] = "imported"
    BY DEF ExecutePlan, EngineInv, Engaged, Conditional, importVars
  <1> QED
    BY <1>1, AnsweringNow

------------------------------------------------------------------------------
(* An import runs while the engine that called it waits. *)

Advances(c) ==
    /\ step[c] \in Running /\ step'[c] # "idle" /\ request' = request
    /\ \A d \in Importers \ {c} : step'[d] = step[d]

LEMMA StepAdvances ==
    ASSUME ImportInv, NEW c \in Importers, NEW s \in Running \cup Ended, step[c] \in Running, Goes(c, s),
           request' = request
    PROVE  Advances(c)
  BY DEF ImportInv, AreMaps, IsMap, Goes, Advances, Running, Ended

LEMMA ImportAdvances ==
    ASSUME ImportInv, NEW c \in Importers, ImportSteps(c) \/ AwaitFails(c)
    PROVE  Advances(c)
  <1> DEFINE Going == \E s \in Running \cup Ended : Goes(c, s)
  <1>1. request' = request /\ step[c] \in Running
    BY DEF ImportSteps, AwaitFails, Resolve, RequestEnds, Parse, FindById, FindByUrl, UpdatePodcast,
           CreatePodcast, Detect, CreateEpisode, Report, Running
  <1>2. \A n : NextEpisode(c, n) \in Running \cup Ended
    BY DEF NextEpisode, Running, Ended
  <1>3. Resolve(c) \/ Parse(c) => Going
    BY DEF Resolve, Parse, Running, Ended
  <1>4. \A outcome \in Outcomes : RequestEnds(c, outcome) => step' = step \/ Going
    BY DEF RequestEnds, Running, Ended
  <1>5. FindById(c) \/ FindByUrl(c) => Going
    BY DEF FindById, FindByUrl, Found, Running, Ended
  <1>6. UpdatePodcast(c) \/ CreatePodcast(c) => Going
    BY <1>2 DEF UpdatePodcast, CreatePodcast, Running, Ended
  <1>7. Detect(c) => Going
    BY <1>2 DEF Detect, Running, Ended
  <1>8. CreateEpisode(c) \/ Report(c) \/ AwaitFails(c) => Going
    BY <1>2 DEF CreateEpisode, Report, AwaitFails, Running, Ended
  <1>9. CASE step' = step
    BY <1>1, <1>9 DEF Advances, Running
  <1>10. CASE Going
    BY <1>1, <1>10, StepAdvances
  <1> QED
    BY <1>3, <1>4, <1>5, <1>6, <1>7, <1>8, <1>9, <1>10 DEF ImportSteps

LEMMA EnginesWait ==
    ASSUME EngineInv, NEW c \in Importers, Advances(c), UNCHANGED engineVars PROVE EngineInv'
  <1>1. EngineMaps' /\ executed' \subseteq Importers /\ \A d \in Importers \ {c} : SameEngaged(d)
    BY DEF EngineInv, EngineMaps, engineVars, SameEngaged, Advances
  <1>2. Engaged(c) /\ step[c] \notin {"idle", "imported", "refused"}
    BY DEF EngineInv, Advances, Running
  <1>3. Engaged(c)'
    BY <1>2 DEF Engaged, engineVars, Advances
  <1> QED
    BY <1>1, <1>3, EngineStep

LEMMA EnginesStay ==
    ASSUME EngineInv, UNCHANGED <<engineVars, step, request>> PROVE EngineInv'
  BY DEF EngineInv, EngineMaps, IsMap, Engaged, engineVars

LEMMA ImportsStay == ASSUME ImportInv, UNCHANGED importVars PROVE ImportInv'
  <1>1. UNCHANGED <<served, podcasts, episodes, step, request, attempt, parsed, known, looking,
                   tally, requests, together>>
    BY DEF importVars
  <1>2. Ids' = Ids
    BY <1>1 DEF Ids
  <1>3. \A c \in Importers : Done(c)' = Done(c) /\ Current(c)' = Current(c)
    BY <1>1 DEF Done, Current
  <1>4. ASSUME NEW c \in Importers
        PROVE  (TypedAt(c) /\ Doing(c) /\ Stored(c) /\ Alone(c))'
    <2>1. TypedAt(c) /\ Doing(c) /\ Stored(c) /\ Alone(c)
      BY DEF ImportInv
    <2>2. TypedAt(c)' /\ Doing(c)'
      BY <1>1, <1>2, <1>3, <2>1 DEF TypedAt, Doing
    <2>3. Stored(c)' /\ Alone(c)'
      BY <1>1, <1>3, <2>1 DEF Stored, Alone, Looked
    <2> QED
      BY <2>2, <2>3
  <1>5. (AreMaps /\ ServedOK /\ PodcastsOK /\ EpisodesOK /\ Met /\ DuplicatesNeedARace)'
    BY <1>1, <1>2 DEF ImportInv, AreMaps, ServedOK, PodcastsOK, EpisodesOK, Met, DuplicatesNeedARace
  <1> QED
    BY <1>4, <1>5 DEF ImportInv

------------------------------------------------------------------------------
(* Both invariants together *)

LEMMA InitInv == ASSUME Init PROVE ImportInv /\ EngineInv
  <1>1. PICK initial \in [Feeds -> UNION {Documents[f] : f \in Feeds}] :
            /\ \A f \in Feeds : initial[f] \in Documents[f]
            /\ served = [f \in Feeds |-> [version |-> 1, doc |-> initial[f]]]
    BY DEF Init, ImportInit
  <1>2. ServedOK
    BY <1>1, ImportAssumption DEF ServedOK
  <1>3. podcasts = {} /\ episodes = {} /\ together = {}
    BY DEF Init, ImportInit
  <1>4. ASSUME NEW c \in Importers
        PROVE  /\ step[c] = "idle" /\ request[c] = None /\ attempt[c] = 0
               /\ parsed[c] = NothingParsed /\ known[c] = None /\ looking[c] = 1
               /\ tally[c] = NothingDone /\ requests[c] = 0 /\ phase[c] = "idle" /\ call[c] = None
               /\ answer[c] = NoAnswer /\ seen[c] = Unseen
    BY DEF Init, ImportInit
  <1>5. AreMaps /\ EngineMaps
    BY DEF Init, ImportInit, AreMaps, EngineMaps, IsMap
  <1>6. PodcastsOK /\ EpisodesOK /\ DuplicatesNeedARace
    BY <1>3, FS_EmptySet DEF PodcastsOK, EpisodesOK, DuplicatesNeedARace
  <1>7. ASSUME NEW c \in Importers PROVE TypedAt(c)
    <2>1. NothingParsed \in ParsedFeed /\ NothingDone \in Tally
      <3>1. <<>> \in Seq(Item)
        OBVIOUS
      <3> QED
        BY <3>1 DEF NothingParsed, ParsedFeed, NothingDone, Tally
    <2> QED
      BY <1>4, <2>1, ImportAssumption DEF TypedAt
  <1>8. ASSUME NEW c \in Importers PROVE Doing(c) /\ Stored(c) /\ Alone(c)
    <2>1. Done(c) = 0
      BY <1>4 DEF Done, NothingDone
    <2>2. Doing(c) /\ Alone(c)
      BY <1>4, ImportAssumption DEF Doing, Early, Alone, Looked
    <2>3. Stored(c)
      <3>1. {e \in episodes : e.by = c} = {}
        BY <1>3
      <3> QED
        BY <1>3, <1>4, <2>1, <3>1, FS_EmptySet DEF Stored, NothingDone
    <2> QED
      BY <2>2, <2>3
  <1>9. Met
    BY <1>4 DEF Met, Running
  <1>10. ASSUME NEW c \in Importers PROVE Engaged(c)
    <2>1. /\ answer[c].status = None /\ answer[c].success = FALSE
          /\ seen[c].notModified = FALSE /\ seen[c].at = 0
      BY <1>4 DEF NoAnswer, Unseen
    <2>2. None \notin {"unchanged", "completed"} /\ 0 \in 0..MaxVersion
      BY EngineAssumption, ImportAssumption
    <2> QED
      BY <1>4, <2>1, <2>2 DEF Engaged, Conditional
  <1>11. executed \subseteq Importers
    BY DEF Init
  <1> QED
    BY <1>2, <1>5, <1>6, <1>7, <1>8, <1>9, <1>10, <1>11 DEF ImportInv, EngineInv

LEMMA CallKeeps ==
    ASSUME ImportInv, EngineInv, NEW c \in Importers, CallSteps(c) \/ CallFails(c)
    PROVE  ImportInv' /\ EngineInv'
  <1>1. CASE StateLoads(c)
    BY <1>1, LoadStep, ImportsStay DEF StateLoads
  <1>2. CASE Decide(c)
    <2>1. phase[c] # "idle"
      BY <1>2 DEF Decide
    <2>2. Asked(call[c]) \in Request
      BY <2>1, CallIsTyped
    <2>3. UNCHANGED importVars \/ ImportBegins(c, Asked(call[c]))
      BY <1>2 DEF Decide
    <2> QED
      BY <1>2, <2>2, <2>3, DecideStep, ImportsStay, BeginStep
  <1>3. CASE CoreImported(c) \/ IncrementalImported(c)
    BY <1>3, ImportedStep, ImportsStay DEF CoreImported, IncrementalImported
  <1>4. CASE Restore(c)
    BY <1>4, RestoreStep, ImportsStay DEF Restore
  <1>5. CASE Compare(c)
    <2> DEFINE r == [feed |-> call[c].feed, mode |-> call[c].mode, dryRun |-> FALSE,
                     validateOnly |-> FALSE]
    <2>1. phase[c] # "idle"
      BY <1>5 DEF Compare
    <2>2. r \in Request
      BY <2>1, CallIsTyped
    <2>3. UNCHANGED importVars \/ ImportBegins(c, r)
      BY <1>5 DEF Compare
    <2> HIDE DEF r
    <2> QED
      BY <1>5, <2>2, <2>3, CompareStep, ImportsStay, BeginStep
  <1>6. CASE \E sameTime, bodiless \in BOOLEAN : ConditionalDownload(c, sameTime, bodiless)
    BY <1>6, DownloadStep, ImportsStay DEF ConditionalDownload
  <1>7. CASE ExecutePlan(c)
    BY <1>7, ExecuteStep, ImportsStay DEF ExecutePlan
  <1>8. CASE EmitFails(c) \/ DownloadFails(c) \/ PlanFails(c)
    BY <1>8, FailStep, ImportsStay DEF EmitFails, DownloadFails, PlanFails
  <1>9. CASE (ImportSteps(c) \/ AwaitFails(c)) /\ UNCHANGED engineVars
    <2>1. Advances(c)
      BY <1>9, ImportAdvances
    <2> QED
      BY <1>9, <2>1, EnginesWait, ImportKeeps, AwaitStep
  <1> QED
    BY <1>1, <1>2, <1>3, <1>4, <1>5, <1>6, <1>7, <1>8, <1>9 DEF CallSteps, CallFails, Import

LEMMA NextKeeps == ASSUME ImportInv, EngineInv, [Next]_vars PROVE ImportInv' /\ EngineInv'
  <1>1. CASE \E c \in Importers : CallSteps(c) \/ CallFails(c)
    BY <1>1, CallKeeps
  <1>2. CASE \E c \in Importers : \E r \in Calls[c] : Synchronize(c, r)
    <2>1. PICK c \in Importers : \E r \in Calls[c] : Synchronize(c, r)
      BY <1>2
    <2>2. PICK r \in Calls[c] : Synchronize(c, r)
      BY <2>1
    <2>3. UNCHANGED importVars
      BY <2>2 DEF Synchronize
    <2> QED
      BY <2>2, <2>3, SynchronizeStep, ImportsStay
  <1>3. CASE Publishes
    <2>1. PICK f \in Feeds : \E d \in Documents[f] : FeedChanges(f, d) /\ UNCHANGED engineVars
      BY <1>3 DEF Publishes
    <2>2. PICK d \in Documents[f] : FeedChanges(f, d) /\ UNCHANGED engineVars
      BY <2>1
    <2>3. UNCHANGED <<engineVars, step, request>>
      BY <2>2 DEF FeedChanges
    <2> QED
      BY <2>2, <2>3, PublishStep, EnginesStay
  <1>4. CASE UNCHANGED vars
    BY <1>4, ImportsStay, EnginesStay DEF vars, importVars
  <1> QED
    BY <1>1, <1>2, <1>3, <1>4 DEF Next

------------------------------------------------------------------------------
(* What follows *)

LEMMA TypesHold == ASSUME ImportInv, EngineInv PROVE TypeOK
  <1>1. AreMaps /\ ServedOK /\ PodcastsOK /\ EpisodesOK /\ EngineMaps
    BY DEF ImportInv, EngineInv
  <1>2. \A c \in Importers : TypedAt(c) /\ Engaged(c)
    BY DEF ImportInv, EngineInv
  <1>3. Ids \subseteq 1..Cardinality(podcasts)
    BY <1>1 DEF PodcastsOK, Ids
  <1>4. /\ step \in [Importers -> {"idle"} \cup Running \cup Ended]
        /\ attempt \in [Importers -> 0..MaxRetries]
        /\ known \in [Importers -> 1..Cardinality(podcasts) \cup {None}]
        /\ looking \in [Importers -> 1..3] /\ tally \in [Importers -> Tally]
        /\ \A c \in Importers : request[c] \in Request \cup {None}
    BY <1>1, <1>2, <1>3 DEF AreMaps, IsMap, TypedAt
  <1>5. ImportTypeOK
    BY <1>1, <1>4 DEF ImportTypeOK, ServedOK, PodcastsOK, EpisodesOK, Ids
  <1>6. phase \in [Importers -> {"idle", "loading", "deciding", "restoring", "downloading",
                                "comparing", "importing", "executing", "ended"}]
    BY <1>1, <1>2 DEF EngineMaps, IsMap, Engaged, Conditional
  <1>7. ASSUME NEW c \in Importers
        PROVE  /\ call[c] \in Calls[c] \cup {None}
               /\ answer[c].status \in {None, "unchanged", "completed", "failed", "thrown"}
               /\ answer[c].success \in BOOLEAN
               /\ seen[c].notModified \in BOOLEAN /\ seen[c].at \in 0..MaxVersion
    BY <1>2 DEF Engaged
  <1> QED
    BY <1>5, <1>6, <1>7 DEF TypeOK, EngineInv

LEMMA PreviewsHold == ASSUME ImportInv, EngineInv PROVE PreviewWritesNothing
  <1> SUFFICES ASSUME NEW c \in Importers, call[c] # None, AsksForNoWrites(call[c])
               PROVE  /\ \A e \in episodes : e.by # c
                      /\ tally[c].podcasts = 0 /\ tally[c].updated = 0
    BY DEF PreviewWritesNothing
  <1>1. Engaged(c) /\ Doing(c) /\ Stored(c)
    BY DEF ImportInv, EngineInv
  <1>2. tally[c] = NothingDone
    BY <1>1 DEF Engaged, Doing, Early
  <1>3. Done(c) = 0
    BY <1>2 DEF Done, NothingDone
  <1> QED
    BY <1>1, <1>2, <1>3 DEF Stored, NothingDone

LEMMA CompletionsHold == ASSUME ImportInv, EngineInv PROVE CompletedIsStored
  <1> SUFFICES ASSUME NEW c \in Importers, answer[c].status = "completed",
                      ~SkipsPersistence(request[c]),
                      ~(call[c].engine = "incremental" /\ step[c] = "refused")
               PROVE  /\ step[c] = "imported" /\ known[c] # None
                      /\ \A i \in DOMAIN parsed[c].episodes :
                             \/ \E e \in episodes : e.by = c /\ e.at = i
                             \/ Has({e \in episodes : e.podcast = known[c]}, parsed[c].episodes[i])
    BY DEF CompletedIsStored
  <1>1. TypedAt(c) /\ Engaged(c) /\ Doing(c) /\ Stored(c)
    BY DEF ImportInv, EngineInv
  <1>2. step[c] = "imported"
    BY <1>1 DEF Engaged
  <1>3. known[c] # None /\ Done(c) = Len(parsed[c].episodes) /\ parsed[c].episodes \in Seq(Item)
    BY <1>1, <1>2 DEF Doing, TypedAt, ParsedFeed
  <1>4. DOMAIN parsed[c].episodes = 1..Done(c)
    BY <1>3
  <1> QED
    BY <1>1, <1>2, <1>3, <1>4 DEF Stored

LEMMA ChangesHold == ASSUME EngineInv PROVE ChangeIsImported
  BY DEF EngineInv, Engaged, ChangeIsImported

LEMMA AccountsHold == ASSUME ImportInv PROVE EpisodesAccounted
  <1>1. \A c \in Importers : TypedAt(c) /\ Doing(c) /\ Stored(c)
    BY DEF ImportInv
  <1>2. RequestsBounded
    BY <1>1, ImportAssumption DEF RequestsBounded, TypedAt, Doing
  <1>3. CountsAgree
    BY <1>1 DEF CountsAgree, Stored
  <1> QED
    BY <1>2, <1>3 DEF EpisodesAccounted, ImportInv

\* Both engines and the imports they call, whatever the calls, the feeds and the failures:
\* a preview that its engine looks at stores nothing, an import that is reported completed has
\* stored its feed, unless the incremental engine reports one that was refused, and no change
\* that was downloaded is passed over (synchronization/core, synchronization/incremental,
\* import).
THEOREM AnswersAlwaysTrue == Spec => []AnswersAreTrue
  <1>1. ImportInv /\ EngineInv => AnswersAreTrue
    BY TypesHold, PreviewsHold, CompletionsHold, ChangesHold DEF AnswersAreTrue
  <1> QED
    BY <1>1, InitInv, NextKeeps, PTL DEF Spec

\* Of imports that run together: an import counts what it has stored, two episodes of one
\* URL come of imports that met, and a download keeps to its retries (import/service.ts,
\* network/retry-policy.ts).
THEOREM EpisodesAlwaysAccounted == Spec => []EpisodesAccounted
  BY InitInv, NextKeeps, AccountsHold, PTL DEF Spec
==============================================================================
