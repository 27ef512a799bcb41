---------------------------- MODULE HumanIndexProofs ----------------------------
(***************************************************************************)
(* A service searches with whole generations only, and with vectors of its *)
(* own model for its own texts: for every number of sources, models and    *)
(* builders, and however often the scripts are run and stopped.            *)
(***************************************************************************)
EXTENDS HumanIndex, SequenceTheorems, TLAPS

Steps == {"idle", "reading", "checking", "lexical", "cache", "embedding", "saving",
          "saved", "rows", "ids", "meta", "point"}

\* A build that holds vectors, one that has made a generation, and what it has written.
Filled == {"embedding", "saving", "saved", "rows", "ids", "meta", "point"}
Writing == {"rows", "ids", "meta", "point"}

Files == Seq(Docs) \cup {None, Torn}

Partial == UNION {[D -> Vectors] : D \in SUBSET Docs}

Builds ==
  [step : Steps, identity : Identities \cup {None}, mode : {"bm25", "dense", "both"},
   list : Seq(Docs), vectors : Partial, text : Nat,
   handle : {"none", "temp", "cache", "lost"}, made : Nat]

Generations ==
  [rows : Seq(Vectors) \cup {Torn}, ids : Seq(Docs) \cup {None}, meta : Metas \cup {None}]

Services ==
  [step : {"down", "version", "chunks", "lexical", "dense", "ready"},
   identity : Identities \cup {None}, version : Seq(Docs) \cup {None}, list : Seq(Docs),
   lexical : BOOLEAN, rows : Seq(Vectors) \cup {None, Torn}]

TypeOK ==
  /\ chunks \in Files /\ corpus \in Files
  /\ prepare \in [step : {"idle", "chunks", "writing", "version", "naming"}, list : Seq(Docs)]
  /\ cache \in [Keys -> Vectors \cup {None, Torn}]
  /\ temp \in [Keys -> Vectors \cup {None, Torn}]
  /\ made \in Seq(Generations)
  /\ current \in 0 .. Len(made)
  /\ build \in [Builders -> Builds]
  /\ service \in Services
  /\ service.step # "ready" => service.rows = None

\* Whoever wrote a vector into the cache or beside it, it is that of its key.
CacheIsOwn ==
  \A i \in Identities, d \in Docs :
    /\ cache[Key(i, d)] \in {None, Torn, Vector(i, d)}
    /\ temp[Key(i, d)] \in {None, Torn, Vector(i, d)}

HoldsOwn(b) ==
  /\ build[b].step # "idle" => build[b].identity \in Identities
  /\ build[b].step \in Filled =>
       \A d \in DOMAIN build[b].vectors : build[b].vectors[d] = Vector(build[b].identity, d)
  /\ build[b].step \in {"saving", "saved"} => build[b].text \in DOMAIN build[b].vectors

\* What a builder has written of its generation is still there, and nobody else's.
HasWritten(b) ==
  LET g == made[build[b].made]
  IN /\ build[b].step \in Writing =>
          /\ build[b].made \in 1 .. Len(made)
          /\ build[b].made # current
          /\ Elements(build[b].list) \subseteq DOMAIN build[b].vectors
     /\ build[b].step \in {"ids", "meta", "point"} =>
          g.rows = OwnRows(build[b].identity, build[b].list)
     /\ build[b].step \in {"meta", "point"} => g.ids = build[b].list
     /\ build[b].step = "point" =>
          g.meta = [identity |-> build[b].identity, list |-> build[b].list,
                    rows |-> OwnRows(build[b].identity, build[b].list)]

Apart ==
  \A b, c \in Builders :
    b # c /\ build[b].step \in Writing /\ build[c].step \in Writing
      => build[b].made # build[c].made

MetasAreOwn ==
  \A n \in 1 .. Len(made) :
    made[n].meta # None => made[n].meta.rows = OwnRows(made[n].meta.identity, made[n].meta.list)

Inv ==
  /\ TypeOK
  /\ CacheIsOwn
  /\ \A b \in Builders : HoldsOwn(b) /\ HasWritten(b)
  /\ Apart
  /\ MetasAreOwn
  /\ CurrentIsWhole
  /\ RowsAreOwnText

-----------------------------------------------------------------------------
(* The actions in groups: the scripts before the build, and the service.   *)

Preparing ==
  \/ StartAcquire \/ Fetch \/ StopAcquire
  \/ StartPrepare \/ OpenChunks \/ WriteChunks \/ OpenVersion \/ WriteVersion \/ StopPrepare

Serving ==
  \/ \E i \in Identities : Boot(i)
  \/ ReadVersion \/ LoadChunks \/ LoadLexical \/ LoadDense \/ Shutdown

LEMMA Initial == Init => Inv
<1> SUFFICES ASSUME Init PROVE Inv
  OBVIOUS
<1>1. NotBuilding \in Builds
  <2>1. [d \in {} |-> None] \in [{} -> Vectors]
    OBVIOUS
  <2>2. [d \in {} |-> None] \in Partial
    BY <2>1 DEF Partial
  <2>3. <<>> \in Seq(Docs)
    OBVIOUS
  <2>4. NotBuilding.vectors \in Partial
    BY <2>2 DEF NotBuilding
  <2> QED BY <2>3, <2>4 DEF NotBuilding, Builds, Steps
<1> USE IndexAssumption DEF Init
<1>2. TypeOK
  <2>1. made \in Seq(Generations) /\ Len(made) = 0
    OBVIOUS
  <2>2. service \in Services /\ service.rows = None
    BY DEF Services, Down
  <2>3. build \in [Builders -> Builds]
    BY <1>1
  <2> QED BY <2>1, <2>2, <2>3 DEF TypeOK, Files, Resting
<1>3. CacheIsOwn
  BY DEF CacheIsOwn, Key, Keys
<1>4. \A b \in Builders : build[b].step = "idle"
  BY DEF NotBuilding
<1>5. (\A b \in Builders : HoldsOwn(b) /\ HasWritten(b)) /\ Apart
  BY <1>4 DEF HoldsOwn, HasWritten, Apart, Filled, Writing
<1>6. MetasAreOwn /\ CurrentIsWhole /\ RowsAreOwnText
  BY DEF MetasAreOwn, CurrentIsWhole, RowsAreOwnText, Down
<1> QED BY <1>2, <1>3, <1>5, <1>6 DEF Inv

\* What the scripts before the build write is none of the files the argument is about.
LEMMA PreparingKeeps == Inv /\ Preparing => Inv'
<1> SUFFICES ASSUME Inv, Preparing PROVE Inv'
  OBVIOUS
<1>1. UNCHANGED <<cache, temp, made, current, build, service>>
  BY DEF Preparing, StartAcquire, Fetch, Recorded, StopAcquire, StartPrepare, OpenChunks,
    WriteChunks, OpenVersion, WriteVersion, StopPrepare, indexFiles, cacheFiles
<1>2. ASSUME NEW n \in Nat, n <= Len(prepare.list)
      PROVE SubSeq(prepare.list, 1, n) \in Seq(Docs)
  BY <1>2, SubSeqProperties DEF Inv, TypeOK
<1>3. Lists \subseteq Seq(Docs)
  BY DEF Lists
<1>4. chunks' \in Files /\ corpus' \in Files
        /\ prepare' \in [step : {"idle", "chunks", "writing", "version", "naming"},
                         list : Seq(Docs)]
  <2> USE DEF Inv, TypeOK, Files, corpusFiles
  <2>1. CASE StartAcquire \/ Fetch \/ StopAcquire
    BY <2>1 DEF StartAcquire, Fetch, StopAcquire
  <2>2. CASE StartPrepare
    BY <1>3, <2>2 DEF StartPrepare
  <2>3. CASE OpenChunks
    <3>1. chunks' \in Files
      BY <1>2, <2>3 DEF OpenChunks, Cut
    <3> QED BY <2>3, <3>1 DEF OpenChunks
  <2>4. CASE WriteChunks \/ OpenVersion
    BY <2>4 DEF WriteChunks, OpenVersion
  <2>5. CASE WriteVersion \/ StopPrepare
    <3>1. <<>> \in Seq(Docs)
      OBVIOUS
    <3>2. CASE WriteVersion
      BY <3>1, <3>2 DEF WriteVersion, Resting
    <3>3. CASE StopPrepare
      BY <3>1, <3>3 DEF StopPrepare, Resting
    <3> QED BY <2>5, <3>2, <3>3
  <2> QED BY <2>1, <2>2, <2>3, <2>4, <2>5 DEF Preparing
<1>6. TypeOK'
  BY <1>1, <1>4 DEF Inv, TypeOK
<1>7. CacheIsOwn' /\ (\A b \in Builders : HoldsOwn(b) /\ HasWritten(b))' /\ Apart'
  BY <1>1 DEF Inv, CacheIsOwn, HoldsOwn, HasWritten, Apart
<1>8. MetasAreOwn' /\ CurrentIsWhole' /\ RowsAreOwnText'
  BY <1>1 DEF Inv, MetasAreOwn, CurrentIsWhole, RowsAreOwnText
<1> QED BY <1>6, <1>7, <1>8 DEF Inv

\* A service only reads.  Its rows are those the metadata of the generation repeat,
\* and the metadata name its own model and its own chunks.
LEMMA ServingKeeps == Inv /\ Serving => Inv'
<1> SUFFICES ASSUME Inv, Serving PROVE Inv'
  OBVIOUS
<1>1. UNCHANGED <<chunks, corpus, prepare, cache, temp, made, current, build>>
  BY DEF Serving, Boot, ReadVersion, LoadChunks, LoadLexical, LoadDense, Shutdown, outside,
    corpusFiles, indexFiles, cacheFiles
<1>2. service' \in Services /\ RowsAreOwnText'
        /\ (service'.step # "ready" => service'.rows = None)
  <2>0. <<>> \in Seq(Docs)
    OBVIOUS
  <2> USE DEF Inv, TypeOK, Services, RowsAreOwnText, Files
  <2>1. CASE \E i \in Identities : Boot(i)
    BY <2>0, <2>1 DEF Boot, Down
  <2>2. CASE ReadVersion
    BY <2>2 DEF ReadVersion
  <2>3. CASE LoadChunks
    BY <2>3 DEF LoadChunks
  <2>4. CASE LoadLexical
    BY <2>4 DEF LoadLexical
  <2>5. CASE LoadDense
    <3>1. CASE current # 0 /\ Compatible(made[current])
      <4>1. current \in 1 .. Len(made) /\ made[current] \in Generations
        BY <3>1
      <4>2. made[current].rows = OwnRows(service.identity, service.list)
        BY <3>1, <4>1 DEF Compatible, MetasAreOwn
      <4>3. made[current].rows \in Seq(Vectors) \cup {None, Torn}
        BY <4>1 DEF Generations
      <4> QED BY <2>5, <3>1, <4>2, <4>3 DEF LoadDense
    <3>2. CASE ~(current # 0 /\ Compatible(made[current]))
      BY <2>5, <3>2 DEF LoadDense
    <3> QED BY <3>1, <3>2
  <2>6. CASE Shutdown
    BY <2>0, <2>6 DEF Shutdown, Down
  <2> QED BY <2>1, <2>2, <2>3, <2>4, <2>5, <2>6 DEF Serving
<1>3. TypeOK'
  BY <1>1, <1>2 DEF Inv, TypeOK
<1>4. CacheIsOwn' /\ (\A b \in Builders : HoldsOwn(b) /\ HasWritten(b))' /\ Apart'
  BY <1>1 DEF Inv, CacheIsOwn, HoldsOwn, HasWritten, Apart
<1>5. MetasAreOwn' /\ CurrentIsWhole'
  BY <1>1 DEF Inv, MetasAreOwn, CurrentIsWhole
<1> QED BY <1>2, <1>3, <1>4, <1>5 DEF Inv

-----------------------------------------------------------------------------
(* The steps of a build that touch no generation.                          *)

\* All that the invariant says of a build is the same, whatever file it has open.
Alike(r, s) ==
  /\ r.step = s.step /\ r.identity = s.identity /\ r.list = s.list
  /\ r.vectors = s.vectors /\ r.text = s.text /\ r.made = s.made

LEMMA Reading ==
  ASSUME Inv, NEW b \in Builders,
         build' \in [Builders -> Builds],
         \A c \in Builders \ {b} : Alike(build'[c], build[c]),
         build'[b].step \notin Writing,
         HoldsOwn(b)',
         cache' \in [Keys -> Vectors \cup {None, Torn}],
         temp' \in [Keys -> Vectors \cup {None, Torn}],
         CacheIsOwn',
         UNCHANGED <<chunks, corpus, prepare, made, current, service>>
  PROVE  Inv'
<1>1. TypeOK'
  BY DEF Inv, TypeOK
<1>2. HasWritten(b)'
  BY DEF HasWritten, Writing
<1>3. ASSUME NEW c \in Builders, c # b PROVE HoldsOwn(c)' /\ HasWritten(c)'
  <2>1. Alike(build'[c], build[c]) /\ HoldsOwn(c) /\ HasWritten(c)
    BY <1>3 DEF Inv
  <2>2. HoldsOwn(c)'
    BY <2>1 DEF Alike, HoldsOwn
  <2>3. HasWritten(c)'
    BY <2>1 DEF Alike, HasWritten
  <2> QED BY <2>2, <2>3
<1>4. \A c \in Builders : HoldsOwn(c)' /\ HasWritten(c)'
  BY <1>2, <1>3
<1>5. Apart'
  BY DEF Inv, Apart, Alike
<1>6. MetasAreOwn' /\ CurrentIsWhole' /\ RowsAreOwnText'
  BY DEF Inv, MetasAreOwn, CurrentIsWhole, RowsAreOwnText
<1> QED BY <1>1, <1>4, <1>5, <1>6 DEF Inv

LEMMA IdleBuilds == NotBuilding \in Builds /\ NotBuilding.step = "idle"
<1>1. [d \in {} |-> None] \in [{} -> Vectors]
  OBVIOUS
<1>2. [d \in {} |-> None] \in Partial
  BY <1>1 DEF Partial
<1>3. <<>> \in Seq(Docs)
  OBVIOUS
<1>4. NotBuilding.vectors \in Partial
  BY <1>2 DEF NotBuilding
<1> QED BY <1>3, <1>4 DEF NotBuilding, Builds, Steps

\* A builder that ends leaves what it has written where it is.
LEMMA Ending ==
  ASSUME Inv, NEW b \in Builders, Done(b),
         UNCHANGED <<chunks, corpus, prepare, cache, temp, made, current, service>>
  PROVE  Inv'
<1>1. build' \in [Builders -> Builds] /\ build'[b] = NotBuilding
  BY IdleBuilds DEF Inv, TypeOK, Done
<1>2. \A c \in Builders \ {b} : Alike(build'[c], build[c])
  BY DEF Done, Alike, Inv, TypeOK
<1>3. build'[b].step \notin Writing /\ HoldsOwn(b)'
  BY <1>1, IdleBuilds DEF Writing, HoldsOwn, Filled
<1>4. CacheIsOwn'
  BY DEF Inv, CacheIsOwn
<1> QED BY <1>1, <1>2, <1>3, <1>4, Reading DEF Inv, TypeOK

LEMMA BeginningKeeps ==
  ASSUME Inv, NEW b \in Builders,
         \/ \E i \in Identities, mode \in {"bm25", "dense", "both"} : StartBuild(b, i, mode)
         \/ ReadChunks(b) \/ CheckCorpus(b) \/ WriteLexical(b)
  PROVE  Inv'
<1>1. UNCHANGED <<chunks, corpus, prepare, cache, temp, made, current, service>>
  BY DEF StartBuild, ReadChunks, CheckCorpus, WriteLexical, aside, indexFiles, cacheFiles,
    corpusFiles
<1>2. CASE Done(b)
  BY <1>1, <1>2, Ending
<1>3. CASE ~Done(b)
  <2>1. build[b] \in Builds /\ HoldsOwn(b) /\ build \in [Builders -> Builds]
    BY DEF Inv, TypeOK
  <2>2. /\ build'[b] \in Builds /\ build' = [build EXCEPT ![b] = build'[b]]
        /\ build'[b].step \notin Filled /\ build'[b].identity \in Identities
    <3>1. CASE \E i \in Identities, mode \in {"bm25", "dense", "both"} : StartBuild(b, i, mode)
      <4>1. PICK i \in Identities, mode \in {"bm25", "dense", "both"} : StartBuild(b, i, mode)
        BY <3>1
      <4> DEFINE r == [NotBuilding EXCEPT !.step = "reading", !.identity = i, !.mode = mode]
      <4>2. r \in Builds /\ r.step = "reading" /\ r.identity = i
        BY IdleBuilds DEF Builds, Steps
      <4>3. build' = [build EXCEPT ![b] = r]
        BY <4>1 DEF StartBuild
      <4> HIDE DEF r
      <4> QED BY <2>1, <4>2, <4>3 DEF Filled
    <3>2. CASE ReadChunks(b)
      <4>1. chunks \notin {None, Torn, <<>>}
        BY <1>3, <3>2 DEF ReadChunks
      <4>2. chunks \in Seq(Docs)
        BY <4>1 DEF Inv, TypeOK, Files
      <4>3. build' = [build EXCEPT ![b].step = "checking", ![b].list = chunks]
        BY <3>2, <4>1 DEF ReadChunks
      <4>4. build[b].identity \in Identities
        BY <2>1, <3>2 DEF ReadChunks, Building, HoldsOwn
      <4> QED BY <2>1, <4>2, <4>3, <4>4 DEF Builds, Steps, Filled
    <3>3. CASE CheckCorpus(b)
      BY <1>3, <2>1, <3>3 DEF CheckCorpus, Building, Proceed, HoldsOwn, Builds, Steps, Filled
    <3>4. CASE WriteLexical(b)
      BY <1>3, <2>1, <3>4 DEF WriteLexical, Building, Proceed, HoldsOwn, Builds, Steps, Filled
    <3> QED BY <3>1, <3>2, <3>3, <3>4
  <2>3. build' \in [Builders -> Builds] /\ \A c \in Builders \ {b} : Alike(build'[c], build[c])
    BY <2>1, <2>2 DEF Alike
  <2>4. build'[b].step \notin Writing /\ HoldsOwn(b)'
    BY <2>2 DEF Writing, Filled, HoldsOwn
  <2>5. CacheIsOwn'
    BY <1>1 DEF Inv, CacheIsOwn
  <2> QED BY <1>1, <2>3, <2>4, <2>5, Reading DEF Inv, TypeOK
<1> QED BY <1>2, <1>3

LEMMA CachingKeeps ==
  ASSUME Inv, NEW b \in Builders, ReadCache(b) \/ Embed(b) \/ Save(b)
  PROVE  Inv'
<1>1. UNCHANGED <<chunks, corpus, prepare, made, current, service>>
  BY DEF ReadCache, Embed, Save, aside, indexFiles, cacheFiles, corpusFiles
<1>2. build[b] \in Builds /\ HoldsOwn(b) /\ build \in [Builders -> Builds]
  BY DEF Inv, TypeOK
<1>3. Elements(build[b].list) \subseteq Docs
  BY <1>2 DEF Builds, Elements
<1> DEFINE i == build[b].identity
<1>4. i \in Identities
  BY <1>2 DEF ReadCache, Embed, Save, Building, HoldsOwn
<1>5. \A d \in Docs : Key(i, d) \in Keys /\ Vector(i, d) \in Vectors
  BY <1>4 DEF Key, Keys, Vector, Vectors
<1>6. DOMAIN build[b].vectors \subseteq Docs /\ build[b].vectors \in [DOMAIN build[b].vectors -> Vectors]
  BY <1>2 DEF Builds, Partial
<1> HIDE DEF i
<1>7. CASE ReadCache(b) /\ Done(b)
  <2>1. UNCHANGED <<cache, temp>>
    BY <1>7 DEF ReadCache, indexFiles, cacheFiles
  <2> QED BY <1>1, <1>7, <2>1, Ending
<1>8. CASE ReadCache(b) /\ ~Done(b)
  <2> DEFINE known == {d \in Elements(build[b].list) : cache[Key(i, d)] \notin {None, Torn}}
             vectors == [d \in known |-> cache[Key(i, d)]]
  <2>1. UNCHANGED <<cache, temp>>
    BY <1>8 DEF ReadCache, indexFiles, cacheFiles
  <2>2. build' = [build EXCEPT ![b].step = "embedding", ![b].vectors = vectors]
    BY <1>8 DEF ReadCache, i
  <2>3. known \subseteq Docs /\ \A d \in known : cache[Key(i, d)] = Vector(i, d)
    BY <1>3, <1>4 DEF Inv, CacheIsOwn
  <2>4. vectors \in [known -> Vectors] /\ DOMAIN vectors = known
        /\ \A d \in known : vectors[d] = Vector(i, d)
    BY <1>5, <2>3
  <2>5. vectors \in Partial
    BY <2>3, <2>4 DEF Partial
  <2> HIDE DEF vectors
  <2>6. build' \in [Builders -> Builds] /\ build'[b].step = "embedding"
        /\ build'[b].vectors = vectors /\ build'[b].identity = i
    BY <1>2, <2>2, <2>5 DEF Builds, Steps, i
  <2>7. \A c \in Builders \ {b} : Alike(build'[c], build[c])
    BY <1>2, <2>2 DEF Alike
  <2>8. HoldsOwn(b)'
    BY <1>4, <2>4, <2>6 DEF HoldsOwn
  <2>9. CacheIsOwn'
    BY <2>1 DEF Inv, CacheIsOwn
  <2> QED BY <1>1, <2>1, <2>6, <2>7, <2>8, <2>9, Reading DEF Inv, TypeOK, Writing
<1>9. CASE Embed(b)
  <2>1. PICK d \in Elements(build[b].list) \ DOMAIN build[b].vectors :
          /\ build' = [build EXCEPT
               ![b].step = "saving", ![b].text = d, ![b].handle = "temp",
               ![b].vectors = [e \in DOMAIN build[b].vectors \cup {d} |->
                                 IF e = d THEN Vector(build[b].identity, d)
                                 ELSE build[b].vectors[e]]]
          /\ temp' = [temp EXCEPT ![Key(build[b].identity, d)] = Torn]
    BY <1>9 DEF Embed
  <2>2. d \in Docs /\ d \in Nat /\ UNCHANGED cache
    <3>1. d \in Docs
      BY <1>3
    <3>2. UNCHANGED cache
      BY <1>9 DEF Embed
    <3> QED BY <3>1, <3>2, IndexAssumption DEF Docs
  <2> DEFINE D == DOMAIN build[b].vectors \cup {d}
             vectors == [e \in D |-> IF e = d THEN Vector(i, d) ELSE build[b].vectors[e]]
  <2>3. DOMAIN vectors = D /\ D \subseteq Docs
    BY <1>6, <2>2
  <2>4. \A e \in D : vectors[e] = Vector(i, e)
    BY <1>2, <1>9 DEF Embed, Building, HoldsOwn, Filled, i
  <2>5. vectors \in Partial
    <3>1. vectors \in [D -> Vectors]
      BY <1>5, <2>3, <2>4
    <3> QED BY <2>3, <3>1 DEF Partial
  <2>6. build' = [build EXCEPT ![b].step = "saving", ![b].text = d, ![b].handle = "temp",
                               ![b].vectors = vectors]
    BY <2>1 DEF i
  <2> HIDE DEF vectors, D
  <2>7. build' \in [Builders -> Builds] /\ build'[b].step = "saving"
        /\ build'[b].vectors = vectors /\ build'[b].identity = i /\ build'[b].text = d
    BY <1>2, <2>2, <2>5, <2>6 DEF Builds, Steps, i
  <2>8. \A c \in Builders \ {b} : Alike(build'[c], build[c])
    BY <1>2, <2>6 DEF Alike
  <2>9. HoldsOwn(b)'
    BY <1>4, <2>3, <2>4, <2>7 DEF HoldsOwn, D
  <2>10. temp' \in [Keys -> Vectors \cup {None, Torn}]
    BY <2>1 DEF Inv, TypeOK
  <2>11. CacheIsOwn'
    BY <2>1, <2>2 DEF Inv, TypeOK, CacheIsOwn
  <2> QED BY <1>1, <2>2, <2>7, <2>8, <2>9, <2>10, <2>11, Reading DEF Inv, TypeOK, Writing
<1>10. CASE Save(b)
  <2> DEFINE d == build[b].text
  <2>1. d \in Docs /\ build[b].vectors[d] = Vector(i, d) /\ Target(b) = Key(i, d)
    BY <1>2, <1>6, <1>10 DEF Save, Building, HoldsOwn, Filled, Target, i
  <2>2. /\ temp' = temp \/ temp' = [temp EXCEPT ![Key(i, d)] = Vector(i, d)]
        /\ cache' = cache \/ cache' = [cache EXCEPT ![Key(i, d)] = Vector(i, d)]
    BY <1>10, <2>1 DEF Save
  <2> HIDE DEF d
  <2>3. /\ cache' \in [Keys -> Vectors \cup {None, Torn}]
        /\ temp' \in [Keys -> Vectors \cup {None, Torn}]
    BY <1>5, <2>1, <2>2 DEF Inv, TypeOK
  <2>4. ASSUME NEW j \in Identities, NEW e \in Docs PROVE
          /\ cache'[Key(j, e)] \in {None, Torn, Vector(j, e)}
          /\ temp'[Key(j, e)] \in {None, Torn, Vector(j, e)}
    <3>1. /\ cache[Key(j, e)] \in {None, Torn, Vector(j, e)}
          /\ temp[Key(j, e)] \in {None, Torn, Vector(j, e)}
          /\ Key(j, e) \in Keys
      BY DEF Inv, CacheIsOwn, Key, Keys
    <3>2. Key(j, e) = Key(i, d) => j = i /\ e = d
      BY DEF Key
    <3> QED BY <2>2, <3>1, <3>2 DEF Inv, TypeOK
  <2>5. CacheIsOwn'
    BY <2>4 DEF CacheIsOwn, Key
  <2>6. build' = [build EXCEPT ![b].step = "saved"]
    BY <1>10 DEF Save, Proceed
  <2>7. build' \in [Builders -> Builds] /\ build'[b] = [build[b] EXCEPT !.step = "saved"]
    BY <1>2, <2>6 DEF Builds, Steps
  <2>8. HoldsOwn(b)'
    BY <1>2, <1>10, <2>7 DEF HoldsOwn, Save, Building, Builds, Filled
  <2>9. \A c \in Builders \ {b} : Alike(build'[c], build[c])
    BY <1>2, <2>6 DEF Alike
  <2>10. build'[b].step \notin Writing
    BY <1>2, <2>7 DEF Writing, Builds
  <2> QED BY <1>1, <2>3, <2>5, <2>7, <2>8, <2>9, <2>10, Reading
<1> QED BY <1>7, <1>8, <1>9, <1>10

\* What is moved into the cache is what stood beside it under the same key.
LEMMA ReplaceKeeps == ASSUME Inv, NEW b \in Builders, Replace(b) PROVE Inv'
<1>1. UNCHANGED <<chunks, corpus, prepare, made, current, service>>
  BY DEF Replace, aside, corpusFiles
<1>2. build[b] \in Builds /\ HoldsOwn(b) /\ build \in [Builders -> Builds]
  BY DEF Inv, TypeOK
<1>3. CASE temp[Target(b)] = None
  BY <1>1, <1>3, Ending DEF Replace
<1>4. CASE temp[Target(b)] # None
  <2> DEFINE t == Target(b)
             after(c) ==
               IF c = b THEN [build[c] EXCEPT !.step = "embedding", !.handle = "none"]
               ELSE IF build[c].handle = "none" \/ Target(c) # Target(b) THEN build[c]
               ELSE [build[c] EXCEPT !.handle = IF @ = "temp" THEN "cache" ELSE "lost"]
  <2>1. /\ cache' = [cache EXCEPT ![t] = temp[t]]
        /\ temp' = [temp EXCEPT ![t] = None]
        /\ build' = [c \in Builders |-> after(c)]
    BY <1>4 DEF Replace
  <2>2. t \in Keys /\ build[b].step = "saved"
    <3>1. build[b].step = "saved" /\ build[b].identity \in Identities
          /\ build[b].text \in DOMAIN build[b].vectors
      BY <1>2 DEF Replace, Building, HoldsOwn
    <3>2. DOMAIN build[b].vectors \subseteq Docs
      BY <1>2 DEF Builds, Partial
    <3> QED BY <3>1, <3>2 DEF Target, Key, Keys
  <2> HIDE DEF t
  <2>3. /\ cache' \in [Keys -> Vectors \cup {None, Torn}]
        /\ temp' \in [Keys -> Vectors \cup {None, Torn}]
    BY <2>1, <2>2 DEF Inv, TypeOK
  <2>4. ASSUME NEW j \in Identities, NEW e \in Docs PROVE
          /\ cache'[Key(j, e)] \in {None, Torn, Vector(j, e)}
          /\ temp'[Key(j, e)] \in {None, Torn, Vector(j, e)}
    <3>1. /\ cache[Key(j, e)] \in {None, Torn, Vector(j, e)}
          /\ temp[Key(j, e)] \in {None, Torn, Vector(j, e)}
          /\ Key(j, e) \in Keys
      BY DEF Inv, CacheIsOwn, Key, Keys
    <3> QED BY <2>1, <3>1 DEF Inv, TypeOK
  <2>5. CacheIsOwn'
    BY <2>4 DEF CacheIsOwn, Key
  <2>6. \A c \in Builders : after(c) \in Builds
    BY <1>2 DEF Builds, Steps
  <2>7. \A c \in Builders \ {b} : Alike(after(c), build[c])
    BY <1>2 DEF Builds, Alike
  <2>8. after(b) = [build[b] EXCEPT !.step = "embedding", !.handle = "none"]
    OBVIOUS
  <2> HIDE DEF after
  <2>9. /\ build' \in [Builders -> Builds]
        /\ \A c \in Builders \ {b} : Alike(build'[c], build[c])
        /\ build'[b] = [build[b] EXCEPT !.step = "embedding", !.handle = "none"]
    BY <2>1, <2>6, <2>7, <2>8
  <2>10. HoldsOwn(b)' /\ build'[b].step \notin Writing
    BY <1>2, <2>2, <2>9 DEF HoldsOwn, Builds, Filled, Writing
  <2> QED BY <1>1, <2>3, <2>5, <2>9, <2>10, Reading
<1> QED BY <1>3, <1>4

-----------------------------------------------------------------------------
(* The steps that write a generation.                                      *)

\* What the rows of a builder are.
LEMMA OwnRowsSaved ==
  ASSUME Inv, NEW b \in Builders, build[b].step \in Writing
  PROVE  Rows(b) = OwnRows(build[b].identity, build[b].list) /\ Rows(b) \in Seq(Vectors)
<1>1. /\ build[b] \in Builds /\ build[b].identity \in Identities
      /\ \A d \in DOMAIN build[b].vectors : build[b].vectors[d] = Vector(build[b].identity, d)
      /\ Elements(build[b].list) \subseteq DOMAIN build[b].vectors
  BY DEF Inv, TypeOK, HoldsOwn, HasWritten, Writing, Filled
<1>2. build[b].list \in Seq(Docs)
  BY <1>1 DEF Builds
<1>3. \A k \in DOMAIN build[b].list :
        build[b].vectors[build[b].list[k]] = Vector(build[b].identity, build[b].list[k])
  BY <1>1 DEF Elements
<1>4. Rows(b) = OwnRows(build[b].identity, build[b].list)
  BY <1>3 DEF Rows, OwnRows
<1>5. \A k \in 1 .. Len(build[b].list) : Vector(build[b].identity, build[b].list[k]) \in Vectors
  BY <1>1, <1>2 DEF Vector, Vectors
<1>6. OwnRows(build[b].identity, build[b].list) \in [1 .. Len(build[b].list) -> Vectors]
  BY <1>2, <1>5 DEF OwnRows
<1>7. [1 .. Len(build[b].list) -> Vectors] \subseteq Seq(Vectors)
  BY <1>2
<1> QED BY <1>4, <1>6, <1>7

\* A builder writes a part g of its own generation and goes on to the next part.
LEMMA Writes ==
  ASSUME Inv, NEW b \in Builders, build[b].step \in Writing,
         NEW g \in Generations, NEW step \in Writing,
         made' = [made EXCEPT ![build[b].made] = g],
         build' = [build EXCEPT ![b].step = step],
         g.meta # None => g.meta.rows = OwnRows(g.meta.identity, g.meta.list),
         step \in {"ids", "meta", "point"} => g.rows = OwnRows(build[b].identity, build[b].list),
         step \in {"meta", "point"} => g.ids = build[b].list,
         step = "point" =>
           g.meta = [identity |-> build[b].identity, list |-> build[b].list,
                     rows |-> OwnRows(build[b].identity, build[b].list)],
         UNCHANGED <<chunks, corpus, prepare, cache, temp, current, service>>
  PROVE  Inv'
<1> DEFINE m == build[b].made
<1>1. /\ build \in [Builders -> Builds] /\ made \in Seq(Generations)
      /\ m \in 1 .. Len(made) /\ m # current
  BY DEF Inv, TypeOK, HasWritten
<1>2. /\ build' \in [Builders -> Builds]
      /\ build'[b] = [build[b] EXCEPT !.step = step]
      /\ \A c \in Builders \ {b} : build'[c] = build[c]
  BY <1>1 DEF Builds, Steps, Writing
<1>3. /\ made' \in Seq(Generations) /\ Len(made') = Len(made) /\ made'[m] = g
      /\ \A n \in 1 .. Len(made) : n # m => made'[n] = made[n]
  BY <1>1
<1>4. build'[b].step = step /\ build'[b].identity = build[b].identity
      /\ build'[b].list = build[b].list /\ build'[b].vectors = build[b].vectors
      /\ build'[b].made = m
  BY <1>1, <1>2 DEF Builds
<1>5. \A c \in Builders : c # b /\ build[c].step \in Writing => build[c].made # m
  BY DEF Inv, Apart
<1> HIDE DEF m
<1>6. TypeOK'
  BY <1>2, <1>3 DEF Inv, TypeOK
<1>7. CacheIsOwn'
  BY DEF Inv, CacheIsOwn
<1>8. HoldsOwn(b)' /\ HasWritten(b)'
  <2>1. HoldsOwn(b)'
    BY <1>4 DEF Inv, HoldsOwn, Writing, Filled
  <2>2. Elements(build[b].list) \subseteq DOMAIN build[b].vectors
    BY DEF Inv, HasWritten
  <2>3. HasWritten(b)'
    BY <1>1, <1>3, <1>4, <2>2 DEF HasWritten
  <2> QED BY <2>1, <2>3
<1>9. ASSUME NEW c \in Builders, c # b PROVE HoldsOwn(c)' /\ HasWritten(c)'
  <2>1. build'[c] = build[c] /\ HoldsOwn(c) /\ HasWritten(c)
    BY <1>2, <1>9 DEF Inv
  <2>2. build[c].step \in Writing =>
          build[c].made \in 1 .. Len(made) /\ made'[build[c].made] = made[build[c].made]
    BY <1>3, <1>5, <1>9, <2>1 DEF HasWritten
  <2>3. HoldsOwn(c)'
    BY <2>1 DEF HoldsOwn
  <2>4. HasWritten(c)'
    BY <1>3, <2>1, <2>2 DEF HasWritten, Writing
  <2> QED BY <2>3, <2>4
<1>10. Apart'
  BY <1>2, <1>4, <1>5 DEF Inv, Apart, m
<1>11. MetasAreOwn'
  BY <1>1, <1>3 DEF Inv, MetasAreOwn
<1>12. CurrentIsWhole'
  BY <1>1, <1>3 DEF Inv, TypeOK, CurrentIsWhole
<1>13. RowsAreOwnText'
  BY DEF Inv, RowsAreOwnText
<1>14. \A c \in Builders : HoldsOwn(c)' /\ HasWritten(c)'
  BY <1>8, <1>9
<1> QED BY <1>6, <1>7, <1>10, <1>11, <1>12, <1>13, <1>14 DEF Inv

LEMMA SavingKeeps ==
  ASSUME Inv, NEW b \in Builders, SaveRows(b) \/ SaveIds(b) \/ SaveMeta(b)
  PROVE  Inv'
<1> DEFINE m == build[b].made
<1>1. UNCHANGED <<chunks, corpus, prepare, cache, temp, current, service>>
  BY DEF SaveRows, SaveIds, SaveMeta, aside, cacheFiles, corpusFiles
<1>2. build[b].step \in Writing
  BY DEF SaveRows, SaveIds, SaveMeta, Building, Writing
<1>3. /\ build[b] \in Builds /\ build[b].identity \in Identities
      /\ made \in Seq(Generations) /\ m \in 1 .. Len(made) /\ HasWritten(b)
  BY <1>2 DEF Inv, TypeOK, HoldsOwn, HasWritten, Writing
<1>4. /\ made[m] \in Generations /\ build[b].list \in Seq(Docs)
      /\ made[m].meta # None => made[m].meta.rows = OwnRows(made[m].meta.identity, made[m].meta.list)
  BY <1>3 DEF Builds, Inv, MetasAreOwn
<1>5. Rows(b) = OwnRows(build[b].identity, build[b].list) /\ Rows(b) \in Seq(Vectors)
  BY <1>2, OwnRowsSaved
<1>6. CASE SaveRows(b)
  <2> DEFINE g == [made[m] EXCEPT !.rows = Rows(b)]
  <2>1. g \in Generations /\ g.rows = Rows(b) /\ g.meta = made[m].meta
    BY <1>4, <1>5 DEF Generations
  <2>2. /\ made' = [made EXCEPT ![build[b].made] = g]
        /\ build' = [build EXCEPT ![b].step = "ids"]
    BY <1>6 DEF SaveRows, Proceed
  <2> HIDE DEF g
  <2> QED BY <1>1, <1>2, <1>4, <1>5, <2>1, <2>2, Writes DEF Writing
<1>7. CASE SaveIds(b)
  <2> DEFINE g == [made[m] EXCEPT !.ids = build[b].list]
  <2>1. g \in Generations /\ g.rows = made[m].rows /\ g.ids = build[b].list
        /\ g.meta = made[m].meta
    BY <1>4 DEF Generations
  <2>2. /\ made' = [made EXCEPT ![build[b].made] = g]
        /\ build' = [build EXCEPT ![b].step = "meta"]
        /\ made[m].rows = OwnRows(build[b].identity, build[b].list)
    BY <1>3, <1>7 DEF SaveIds, Proceed, Building, HasWritten
  <2> HIDE DEF g
  <2> QED BY <1>1, <1>2, <1>4, <2>1, <2>2, Writes DEF Writing
<1>8. CASE SaveMeta(b)
  <2> DEFINE meta == [identity |-> build[b].identity, list |-> build[b].list,
                      rows |-> OwnRows(build[b].identity, build[b].list)]
             g == [made[m] EXCEPT !.meta = meta]
  <2>1. meta \in Metas
    BY <1>3, <1>4, <1>5 DEF Metas
  <2>2. g \in Generations /\ g.rows = made[m].rows /\ g.ids = made[m].ids /\ g.meta = meta
    BY <1>4, <2>1 DEF Generations
  <2>3. /\ made' = [made EXCEPT ![build[b].made] = g]
        /\ build' = [build EXCEPT ![b].step = "point"]
    BY <1>5, <1>8 DEF SaveMeta, Proceed
  <2>4. /\ made[m].rows = OwnRows(build[b].identity, build[b].list)
        /\ made[m].ids = build[b].list
    BY <1>3, <1>8 DEF SaveMeta, Building, HasWritten
  <2>5. meta.rows = OwnRows(meta.identity, meta.list)
    OBVIOUS
  <2> HIDE DEF g
  <2> QED BY <1>1, <1>2, <2>2, <2>3, <2>4, <2>5, Writes DEF Writing
<1> QED BY <1>6, <1>7, <1>8

\* The directory of a new generation is nobody else's.
LEMMA MakeKeeps == ASSUME Inv, NEW b \in Builders, MakeGeneration(b) PROVE Inv'
<1> DEFINE n == Len(made) + 1
           g == [rows |-> Torn, ids |-> None, meta |-> None]
<1>1. UNCHANGED <<chunks, corpus, prepare, cache, temp, current, service>>
  BY DEF MakeGeneration, aside, cacheFiles, corpusFiles
<1>2. /\ build \in [Builders -> Builds] /\ made \in Seq(Generations) /\ Len(made) \in Nat
      /\ current \in 0 .. Len(made) /\ HoldsOwn(b) /\ build[b].step = "embedding"
  BY DEF Inv, TypeOK, MakeGeneration, Building
<1>3. g \in Generations
  BY DEF Generations
<1>4. /\ made' \in Seq(Generations) /\ Len(made') = n /\ made'[n] = g
      /\ \A k \in 1 .. Len(made) : made'[k] = made[k]
  BY <1>2, <1>3 DEF MakeGeneration
<1>5. build' = [build EXCEPT ![b].step = "rows", ![b].made = n]
  BY DEF MakeGeneration
<1>6. /\ build' \in [Builders -> Builds]
      /\ build'[b] = [build[b] EXCEPT !.step = "rows", !.made = n]
      /\ \A c \in Builders \ {b} : build'[c] = build[c]
  <2> DEFINE r == [build[b] EXCEPT !.step = "rows", !.made = n]
  <2>1. r \in Builds
    <3>1. build[b] \in Builds /\ n \in Nat
      BY <1>2
    <3> HIDE DEF n
    <3> QED BY <3>1 DEF Builds, Steps
  <2>2. build' = [build EXCEPT ![b] = r]
    BY <1>2, <1>5
  <2> HIDE DEF r
  <2>3. build' \in [Builders -> Builds] /\ build'[b] = r
        /\ \A c \in Builders \ {b} : build'[c] = build[c]
    BY <1>2, <2>1, <2>2
  <2> QED BY <2>3 DEF r
<1>7. /\ build'[b].step = "rows" /\ build'[b].identity = build[b].identity
      /\ build'[b].list = build[b].list /\ build'[b].vectors = build[b].vectors
      /\ build'[b].made = n
  BY <1>2, <1>6 DEF Builds
<1> HIDE DEF g
<1>8. TypeOK'
  BY <1>1, <1>2, <1>4, <1>6 DEF Inv, TypeOK
<1>9. CacheIsOwn'
  BY <1>1 DEF Inv, CacheIsOwn
<1>10. HoldsOwn(b)'
  BY <1>2, <1>7 DEF HoldsOwn, Filled
<1>11. HasWritten(b)'
  BY <1>1, <1>2, <1>4, <1>7 DEF HasWritten, MakeGeneration
<1>12. ASSUME NEW c \in Builders, c # b PROVE HoldsOwn(c)' /\ HasWritten(c)'
  <2>1. build'[c] = build[c] /\ HoldsOwn(c) /\ HasWritten(c)
    BY <1>6, <1>12 DEF Inv
  <2>2. build[c].step \in Writing =>
          /\ build[c].made \in 1 .. Len(made) /\ build[c].made \in 1 .. Len(made')
          /\ made'[build[c].made] = made[build[c].made]
    BY <1>2, <1>4, <2>1 DEF HasWritten
  <2>3. HoldsOwn(c)'
    BY <2>1 DEF HoldsOwn
  <2>4. HasWritten(c)'
    BY <1>1, <2>1, <2>2 DEF HasWritten, Writing
  <2> QED BY <2>3, <2>4
<1>13. \A c \in Builders : HoldsOwn(c)' /\ HasWritten(c)'
  BY <1>10, <1>11, <1>12
<1>14. \A c \in Builders : build[c].step \in Writing => build[c].made # n
  <2> SUFFICES ASSUME NEW c \in Builders, build[c].step \in Writing PROVE build[c].made # n
    OBVIOUS
  <2>1. build[c].made \in 1 .. Len(made)
    BY DEF Inv, HasWritten
  <2> QED BY <1>2, <2>1
<1>15. Apart'
  BY <1>6, <1>7, <1>14 DEF Inv, Apart
<1>16. MetasAreOwn'
  BY <1>2, <1>4 DEF Inv, MetasAreOwn, g
<1>17. CurrentIsWhole'
  BY <1>1, <1>2, <1>4 DEF Inv, CurrentIsWhole
<1>18. RowsAreOwnText'
  BY <1>1 DEF Inv, RowsAreOwnText
<1> QED BY <1>8, <1>9, <1>13, <1>15, <1>16, <1>17, <1>18 DEF Inv

\* The pointer is moved to what has been written whole.
LEMMA PointKeeps == ASSUME Inv, NEW b \in Builders, Point(b) PROVE Inv'
<1> DEFINE m == build[b].made
<1>1. UNCHANGED <<chunks, corpus, prepare, cache, temp, made, service>> /\ current' = m
  BY DEF Point, aside, cacheFiles, corpusFiles
<1>2. build[b].step = "point" /\ build[b] \in Builds /\ HasWritten(b) /\ HoldsOwn(b)
      /\ build \in [Builders -> Builds]
  BY DEF Inv, TypeOK, Point, Building
<1>3. m \in 1 .. Len(made) /\ build[b].identity \in Identities /\ build[b].list \in Seq(Docs)
  BY <1>2 DEF HasWritten, HoldsOwn, Writing, Builds
<1>4. /\ build' \in [Builders -> Builds] /\ build'[b].step = "idle"
      /\ \A c \in Builders \ {b} : build'[c] = build[c]
  BY <1>2, IdleBuilds DEF Point, Done
<1>5. TypeOK'
  BY <1>1, <1>3, <1>4 DEF Inv, TypeOK
<1>6. CacheIsOwn'
  BY <1>1 DEF Inv, CacheIsOwn
<1>7. ASSUME NEW c \in Builders PROVE HoldsOwn(c)' /\ HasWritten(c)'
  <2>1. CASE c = b
    BY <1>4, <2>1 DEF HoldsOwn, HasWritten, Filled, Writing
  <2>2. CASE c # b
    <3>1. build'[c] = build[c] /\ HoldsOwn(c) /\ HasWritten(c)
      BY <1>4, <2>2 DEF Inv
    <3>2. build[c].step \in Writing => build[c].made # m
      BY <1>2, <2>2 DEF Inv, Apart, Writing
    <3>3. HoldsOwn(c)'
      BY <3>1 DEF HoldsOwn
    <3>4. HasWritten(c)'
      BY <1>1, <3>1, <3>2 DEF HasWritten
    <3> QED BY <3>3, <3>4
  <2> QED BY <2>1, <2>2
<1>8. Apart'
  BY <1>4 DEF Inv, Apart, Writing
<1>9. MetasAreOwn'
  BY <1>1 DEF Inv, MetasAreOwn
<1>10. CurrentIsWhole'
  <2> DEFINE meta == [identity |-> build[b].identity, list |-> build[b].list,
                      rows |-> OwnRows(build[b].identity, build[b].list)]
  <2>1. /\ made[m].rows = meta.rows /\ made[m].ids = meta.list /\ made[m].meta = meta
    BY <1>2 DEF HasWritten
  <2>2. meta # None
    <3>1. meta.rows \in Seq(Vectors)
      BY <1>2, <2>1, OwnRowsSaved DEF Writing
    <3>2. meta \in Metas
      BY <1>3, <3>1 DEF Metas
    <3> QED BY <3>2, IndexAssumption
  <2> QED BY <1>1, <2>1, <2>2 DEF CurrentIsWhole
<1>11. RowsAreOwnText'
  BY <1>1 DEF Inv, RowsAreOwnText
<1> QED BY <1>5, <1>6, <1>7, <1>8, <1>9, <1>10, <1>11 DEF Inv

LEMMA StopKeeps == ASSUME Inv, NEW b \in Builders, StopBuild(b) PROVE Inv'
<1>1. Done(b) /\ UNCHANGED <<chunks, corpus, prepare, cache, temp, made, current, service>>
  BY DEF StopBuild, aside, indexFiles, cacheFiles, corpusFiles
<1> QED BY <1>1, Ending

LEMMA StutteringKeeps == Inv /\ UNCHANGED vars => Inv'
<1> SUFFICES ASSUME Inv, UNCHANGED vars PROVE Inv'
  OBVIOUS
<1>1. UNCHANGED <<chunks, corpus, prepare, cache, temp, made, current, build, service>>
  BY DEF vars, corpusFiles, indexFiles, cacheFiles
<1>2. TypeOK'
  BY <1>1 DEF Inv, TypeOK
<1>3. CacheIsOwn' /\ (\A b \in Builders : HoldsOwn(b) /\ HasWritten(b))' /\ Apart'
  BY <1>1 DEF Inv, CacheIsOwn, HoldsOwn, HasWritten, Apart
<1>4. MetasAreOwn' /\ CurrentIsWhole' /\ RowsAreOwnText'
  BY <1>1 DEF Inv, MetasAreOwn, CurrentIsWhole, RowsAreOwnText
<1> QED BY <1>2, <1>3, <1>4 DEF Inv

LEMMA StepKeeps == Inv /\ [Next]_vars => Inv'
<1> SUFFICES ASSUME Inv, [Next]_vars PROVE Inv'
  OBVIOUS
<1>1. CASE Preparing
  BY <1>1, PreparingKeeps
<1>2. CASE Serving
  BY <1>2, ServingKeeps
<1>3. ASSUME NEW b \in Builders,
             \/ \E i \in Identities, mode \in {"bm25", "dense", "both"} : StartBuild(b, i, mode)
             \/ ReadChunks(b) \/ CheckCorpus(b) \/ WriteLexical(b)
      PROVE  Inv'
  BY <1>3, BeginningKeeps
<1>4. ASSUME NEW b \in Builders, ReadCache(b) \/ Embed(b) \/ Save(b) \/ Replace(b) PROVE Inv'
  BY <1>4, CachingKeeps, ReplaceKeeps
<1>5. ASSUME NEW b \in Builders,
             \/ MakeGeneration(b) \/ SaveRows(b) \/ SaveIds(b) \/ SaveMeta(b)
             \/ Point(b) \/ StopBuild(b)
      PROVE  Inv'
  BY <1>5, MakeKeeps, SavingKeeps, PointKeeps, StopKeeps
<1>6. CASE UNCHANGED vars
  BY <1>6, StutteringKeeps
<1> QED BY <1>1, <1>2, <1>3, <1>4, <1>5, <1>6 DEF Next, Preparing, Serving

-----------------------------------------------------------------------------
(* The theorems.                                                           *)

\* The cache, what every build holds and has written, and the generation that is current
\* are consistent in every reachable state of the files (build_index.build).
THEOREM Invariance == Spec => []Inv
BY Initial, StepKeeps, PTL DEF Spec

\* A service that searches by vectors has for each of its chunks the vector its own model
\* gave for that very text (Retriever.__init__), whatever was built before, with whatever
\* model, by builds that overlapped or were stopped anywhere.
THEOREM ServicesSearchOwnText == Spec => []RowsAreOwnText
<1>1. Inv => RowsAreOwnText
  BY DEF Inv
<1> QED BY <1>1, Invariance, PTL

\* The generation current.json names is complete, and of one corpus and one model: the
\* pointer is moved last (build_index.build).
THEOREM CurrentGenerationsAreWhole == Spec => []CurrentIsWhole
<1>1. Inv => CurrentIsWhole
  BY DEF Inv
<1> QED BY <1>1, Invariance, PTL

=============================================================================
