------------------------------- MODULE HumanIndex -------------------------------
(***************************************************************************)
(* The files the Human service retrieves from, the three scripts that      *)
(* write them (human_agent/scripts), and what a service makes of them when *)
(* it starts (Retriever.__init__).  acquire_sources downloads the sources  *)
(* and lists them, prepare_corpus makes chunks of them, build_index makes  *)
(* the two indexes, and a service may start at any time, with settings of  *)
(* its own.  A script may be stopped anywhere, and two builds may overlap. *)
(*                                                                         *)
(* A source makes one chunk, and a digest is what it is the digest of.     *)
(***************************************************************************)
EXTENDS Naturals, Sequences

CONSTANTS
  Sources,      \* number of SOURCES
  Identities,   \* embedding provider, model, dimensions and policy
  Builders,     \* bound: builds at the same time
  MaxRuns,      \* bound: scripts started
  None,         \* no file
  Torn          \* a file that is not finished

Docs == 1 .. Sources

Lists == {s \in UNION {[1 .. n -> Docs] : n \in 0 .. Sources} :
            \A i, j \in DOMAIN s : i < j => s[i] < s[j]}

\* What the provider returns for a text.
Vector(i, d) == [identity |-> i, text |-> d]

Vectors == [identity : Identities, text : Docs]

\* index_metadata.json
Metas == [identity : Identities, list : Seq(Docs), rows : Seq(Vectors)]

\* Bug: the cache is shared by all embedding models.
KeyOfText(i, d) == <<CHOOSE j \in Identities : TRUE, d>>

Key(i, d) == <<i, d>>

Keys == Identities \X Docs

ASSUME IndexAssumption ==
  /\ Sources \in Nat \ {0} /\ MaxRuns \in Nat
  /\ Identities # {}
  /\ None \notin Vectors \cup Metas \cup {Torn}
  /\ Torn \notin Vectors

VARIABLES
  raw,        \* data/raw: the downloaded sources
  manifest,   \* source_manifest.jsonl
  chunks,     \* chunks.jsonl
  corpus,     \* corpus_metadata.json: the version
  lexical,    \* bm25_metadata.json
  cache,      \* embedding_cache/<key>.npy
  temp,       \* embedding_cache/<key>.tmp
  made,       \* generations/, in the order of their creation
  current,    \* current.json: a generation, 0 for none
  runs,       \* scripts started so far
  acquire,    \* acquire_sources: the records so far, None if it does not run
  prepare,    \* prepare_corpus
  build,      \* build_index, for each builder
  service     \* the retriever of the service

sourceFiles == <<raw, manifest>>
corpusFiles == <<chunks, corpus>>
cacheFiles == <<cache, temp>>
indexFiles == <<lexical, cacheFiles, made, current>>

\* What a build leaves alone, and what a starting service does.
aside == <<sourceFiles, corpusFiles, acquire, prepare, service>>
outside == <<runs, sourceFiles, corpusFiles, indexFiles, acquire, prepare, build>>

vars == <<sourceFiles, corpusFiles, indexFiles, runs, acquire, prepare, build, service>>

Run == runs < MaxRuns /\ runs' = runs + 1

-----------------------------------------------------------------------------
(* acquire_sources.main.  The list is written anew after each source.      *)

StartAcquire ==
  /\ acquire = None
  /\ Run
  /\ acquire' = <<>>
  /\ UNCHANGED <<sourceFiles, corpusFiles, indexFiles, prepare, build, service>>

Recorded(d, ok) ==
  /\ manifest' = Append(acquire, [doc |-> d, ok |-> ok])
  /\ acquire' = IF d = Sources THEN None ELSE manifest'

\* What is there is not downloaded again, also if it cannot be read.
Fetch ==
  /\ acquire # None
  /\ LET d == Len(acquire) + 1
     IN \/ raw[d] = "none" /\ raw' = [raw EXCEPT ![d] = "whole"] /\ Recorded(d, TRUE)
        \/ raw[d] = "none" /\ raw' = raw /\ Recorded(d, FALSE)
        \/ raw[d] # "none" /\ raw' = raw /\ Recorded(d, raw[d] = "whole")
  /\ UNCHANGED <<runs, corpusFiles, indexFiles, prepare, build, service>>

StopAcquire ==
  /\ acquire # None
  /\ acquire' = None
  /\ \/ UNCHANGED sourceFiles
     \/ /\ raw[Len(acquire) + 1] = "none"
        /\ raw' = [raw EXCEPT ![Len(acquire) + 1] = "torn"]
        /\ UNCHANGED manifest
     \/ manifest' = Torn /\ UNCHANGED raw
  /\ UNCHANGED <<runs, corpusFiles, indexFiles, prepare, build, service>>

-----------------------------------------------------------------------------
(* prepare_corpus.prepare: two files, one after the other, in place.       *)

\* A text is read from each source that was acquired and can be read, in the order of
\* the list.
IsReadable(list, records) ==
  \A d \in Docs :
    (\E k \in DOMAIN list : list[k] = d) <=>
      raw[d] = "whole" /\ \E n \in DOMAIN records : records[n] = [doc |-> d, ok |-> TRUE]

Resting == [step |-> "idle", list |-> <<>>]

StartPrepare ==
  /\ prepare.step = "idle"
  /\ Run
  /\ manifest \notin {None, Torn}
  /\ \E list \in Lists \ {<<>>} :
       /\ IsReadable(list, manifest)
       /\ prepare' = [step |-> "chunks", list |-> list]
  /\ UNCHANGED <<sourceFiles, corpusFiles, indexFiles, acquire, build, service>>

\* What a file cut short may hold: fewer lines, or a broken one.
Cut(list) == {Torn} \cup {SubSeq(list, 1, n) : n \in 0 .. Len(list)}

OpenChunks ==
  /\ prepare.step = "chunks"
  /\ chunks' \in Cut(prepare.list)
  /\ prepare' = [prepare EXCEPT !.step = "writing"]
  /\ UNCHANGED <<runs, sourceFiles, corpus, indexFiles, acquire, build, service>>

WriteChunks ==
  /\ prepare.step = "writing"
  /\ chunks' = prepare.list
  /\ prepare' = [prepare EXCEPT !.step = "version"]
  /\ UNCHANGED <<runs, sourceFiles, corpus, indexFiles, acquire, build, service>>

OpenVersion ==
  /\ prepare.step = "version"
  /\ corpus' = Torn
  /\ prepare' = [prepare EXCEPT !.step = "naming"]
  /\ UNCHANGED <<runs, sourceFiles, chunks, indexFiles, acquire, build, service>>

WriteVersion ==
  /\ prepare.step = "naming"
  /\ corpus' = prepare.list
  /\ prepare' = Resting
  /\ UNCHANGED <<runs, sourceFiles, chunks, indexFiles, acquire, build, service>>

StopPrepare ==
  /\ prepare.step # "idle"
  /\ prepare' = Resting
  /\ UNCHANGED <<runs, sourceFiles, corpusFiles, indexFiles, acquire, build, service>>

-----------------------------------------------------------------------------
(* build_index.build.                                                      *)

\* handle: the file the builder has open is still the temporary one, has become the
\* cached one, or has no name any more.
NotBuilding ==
  [step |-> "idle", identity |-> None, mode |-> "both", list |-> <<>>,
   vectors |-> [d \in {} |-> None], text |-> 0, handle |-> "none", made |-> 0]

Building(b, step) == build[b].step = step

Proceed(b, step) == build' = [build EXCEPT ![b].step = step]

Done(b) == build' = [build EXCEPT ![b] = NotBuilding]

StartBuild(b, i, mode) ==
  /\ Building(b, "idle")
  /\ Run
  /\ build' = [build EXCEPT ![b] = [NotBuilding EXCEPT !.step = "reading", !.identity = i,
                                                       !.mode = mode]]
  /\ UNCHANGED <<aside, indexFiles>>

\* A missing or broken file ends the build.
ReadChunks(b) ==
  /\ Building(b, "reading")
  /\ IF chunks \in {None, Torn, <<>>} THEN Done(b)
     ELSE build' = [build EXCEPT ![b].step = "checking", ![b].list = chunks]
  /\ UNCHANGED <<runs, aside, indexFiles>>

CheckCorpus(b) ==
  /\ Building(b, "checking")
  /\ IF corpus # build[b].list THEN Done(b)
     ELSE Proceed(b, IF build[b].mode = "dense" THEN "cache" ELSE "lexical")
  /\ UNCHANGED <<runs, aside, indexFiles>>

WriteLexical(b) ==
  /\ Building(b, "lexical")
  /\ lexical' = build[b].list
  /\ IF build[b].mode = "bm25" THEN Done(b) ELSE Proceed(b, "cache")
  /\ UNCHANGED <<runs, aside, cacheFiles, made, current>>

Elements(list) == {list[k] : k \in DOMAIN list}

\* A cached file that cannot be read is taken for missing; an empty one ends the build.
ReadCache(b) ==
  LET i == build[b].identity
      texts == Elements(build[b].list)
      known == {d \in texts : cache[Key(i, d)] \notin {None, Torn}}
  IN /\ Building(b, "cache")
     /\ \/ build' = [build EXCEPT ![b].step = "embedding",
                                  ![b].vectors = [d \in known |-> cache[Key(i, d)]]]
        \/ (\E d \in texts : cache[Key(i, d)] = Torn) /\ Done(b)
     /\ UNCHANGED <<runs, aside, indexFiles>>

\* The vector of a missing text, and the file for it: one name for all builders.
Embed(b) ==
  /\ Building(b, "embedding")
  /\ \E d \in Elements(build[b].list) \ DOMAIN build[b].vectors :
       /\ build' = [build EXCEPT
            ![b].step = "saving", ![b].text = d, ![b].handle = "temp",
            ![b].vectors = [e \in DOMAIN build[b].vectors \cup {d} |->
                              IF e = d THEN Vector(build[b].identity, d)
                              ELSE build[b].vectors[e]]]
       /\ temp' = [temp EXCEPT ![Key(build[b].identity, d)] = Torn]
  /\ UNCHANGED <<runs, aside, lexical, cache, made, current>>

Target(b) == Key(build[b].identity, build[b].text)

Save(b) ==
  /\ Building(b, "saving")
  /\ LET vector == build[b].vectors[build[b].text]
     IN /\ temp' = IF build[b].handle = "temp" THEN [temp EXCEPT ![Target(b)] = vector]
                   ELSE temp
        /\ cache' = IF build[b].handle = "cache" THEN [cache EXCEPT ![Target(b)] = vector]
                    ELSE cache
  /\ Proceed(b, "saved")
  /\ UNCHANGED <<runs, aside, lexical, made, current>>

\* os.replace.  Another builder may have moved the file away: the build ends.  One that
\* has the file open goes on writing to it under its new name.
Replace(b) ==
  /\ Building(b, "saved")
  /\ IF temp[Target(b)] = None
     THEN Done(b) /\ UNCHANGED <<cache, temp>>
     ELSE /\ cache' = [cache EXCEPT ![Target(b)] = temp[Target(b)]]
          /\ temp' = [temp EXCEPT ![Target(b)] = None]
          /\ build' = [c \in Builders |->
               IF c = b THEN [build[c] EXCEPT !.step = "embedding", !.handle = "none"]
               ELSE IF build[c].handle = "none" \/ Target(c) # Target(b) THEN build[c]
               ELSE [build[c] EXCEPT !.handle = IF @ = "temp" THEN "cache" ELSE "lost"]]
  /\ UNCHANGED <<runs, aside, lexical, made, current>>

MakeGeneration(b) ==
  /\ Building(b, "embedding")
  /\ Elements(build[b].list) \subseteq DOMAIN build[b].vectors
  /\ made' = Append(made, [rows |-> Torn, ids |-> None, meta |-> None])
  /\ build' = [build EXCEPT ![b].step = "rows", ![b].made = Len(made) + 1]
  /\ UNCHANGED <<runs, aside, lexical, cacheFiles, current>>

Rows(b) == [k \in DOMAIN build[b].list |-> build[b].vectors[build[b].list[k]]]

SaveRows(b) ==
  /\ Building(b, "rows")
  /\ made' = [made EXCEPT ![build[b].made].rows = Rows(b)]
  /\ Proceed(b, "ids")
  /\ UNCHANGED <<runs, aside, lexical, cacheFiles, current>>

SaveIds(b) ==
  /\ Building(b, "ids")
  /\ made' = [made EXCEPT ![build[b].made].ids = build[b].list]
  /\ Proceed(b, "meta")
  /\ UNCHANGED <<runs, aside, lexical, cacheFiles, current>>

SaveMeta(b) ==
  /\ Building(b, "meta")
  /\ made' = [made EXCEPT ![build[b].made].meta =
                [identity |-> build[b].identity, list |-> build[b].list, rows |-> Rows(b)]]
  /\ Proceed(b, "point")
  /\ UNCHANGED <<runs, aside, lexical, cacheFiles, current>>

\* Bug: the pointer is moved before the metadata are there.
PointEarly(b) ==
  /\ Building(b, "meta") \/ Building(b, "point")
  /\ current' = build[b].made
  /\ IF Building(b, "point") THEN Done(b) ELSE UNCHANGED build
  /\ UNCHANGED <<runs, aside, lexical, cacheFiles, made>>

Point(b) ==
  /\ Building(b, "point")
  /\ current' = build[b].made
  /\ Done(b)
  /\ UNCHANGED <<runs, aside, lexical, cacheFiles, made>>

\* The provider fails, there is no key, or the script is stopped.
StopBuild(b) ==
  /\ ~Building(b, "idle")
  /\ Done(b)
  /\ UNCHANGED <<runs, aside, indexFiles>>

-----------------------------------------------------------------------------
(* Retriever.__init__.                                                     *)

Down == [step |-> "down", identity |-> None, version |-> None,
         list |-> <<>>, lexical |-> FALSE, rows |-> None]

Boot(i) ==
  /\ service.step = "down"
  /\ service' = [Down EXCEPT !.step = "version", !.identity = i]
  /\ UNCHANGED outside

ReadVersion ==
  /\ service.step = "version"
  /\ service' = [service EXCEPT !.step = "chunks",
                                !.version = IF corpus = Torn THEN None ELSE corpus]
  /\ UNCHANGED outside

\* A corpus that is not the one its version names is left aside.
LoadChunks ==
  /\ service.step = "chunks"
  /\ service' = IF service.version # None /\ chunks = service.version
                THEN [service EXCEPT !.step = "lexical", !.list = chunks]
                ELSE [service EXCEPT !.step = "lexical", !.version = None]
  /\ UNCHANGED outside

LoadLexical ==
  /\ service.step = "lexical"
  /\ service' = [service EXCEPT !.step = "dense",
                   !.lexical = (lexical # None /\ lexical = service.version)]
  /\ UNCHANGED outside

\* The index was made with these settings of these chunks, and is the one it was.
Compatible(g) ==
  /\ g.meta # None /\ g.ids # None
  /\ g.meta.identity = service.identity
  /\ g.meta.list = service.version
  /\ g.ids = service.list /\ g.meta.list = g.ids
  /\ g.rows = g.meta.rows

LoadDense ==
  /\ service.step = "dense"
  /\ service' = [service EXCEPT !.step = "ready",
                   !.rows = IF current # 0 /\ Compatible(made[current]) THEN made[current].rows
                            ELSE None]
  /\ UNCHANGED outside

Shutdown ==
  /\ service.step # "down"
  /\ service' = Down
  /\ UNCHANGED outside

-----------------------------------------------------------------------------
Init ==
  /\ raw = [d \in Docs |-> "none"]
  /\ manifest = None /\ chunks = None /\ corpus = None /\ lexical = None
  /\ cache = [k \in Keys |-> None] /\ temp = [k \in Keys |-> None]
  /\ made = <<>> /\ current = 0
  /\ runs = 0 /\ acquire = None
  /\ prepare = Resting
  /\ build = [b \in Builders |-> NotBuilding]
  /\ service = Down

Next ==
  \/ StartAcquire \/ Fetch \/ StopAcquire
  \/ StartPrepare \/ OpenChunks \/ WriteChunks \/ OpenVersion \/ WriteVersion \/ StopPrepare
  \/ \E b \in Builders :
       \/ \E i \in Identities, mode \in {"bm25", "dense", "both"} : StartBuild(b, i, mode)
       \/ ReadChunks(b) \/ CheckCorpus(b) \/ WriteLexical(b) \/ ReadCache(b)
       \/ Embed(b) \/ Save(b) \/ Replace(b)
       \/ MakeGeneration(b) \/ SaveRows(b) \/ SaveIds(b) \/ SaveMeta(b) \/ Point(b)
       \/ StopBuild(b)
  \/ \E i \in Identities : Boot(i)
  \/ ReadVersion \/ LoadChunks \/ LoadLexical \/ LoadDense \/ Shutdown

Spec == Init /\ [][Next]_vars

-----------------------------------------------------------------------------
(* Properties.                                                             *)

OwnRows(i, list) == [k \in DOMAIN list |-> Vector(i, list[k])]

\* A service that searches by vectors has for each of its chunks the vector its own
\* embedding model gave for that text: whatever corpus and model the files were made
\* with before, and wherever the scripts were stopped.
RowsAreOwnText ==
  service.rows # None => service.rows = OwnRows(service.identity, service.list)

\* The generation that is current is complete, and of one corpus and one model.
CurrentIsWhole ==
  current # 0 =>
    LET g == made[current]
    IN g.meta # None /\ g.ids = g.meta.list /\ g.rows = OwnRows(g.meta.identity, g.ids)

=============================================================================
