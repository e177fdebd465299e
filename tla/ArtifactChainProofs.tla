------------------------ MODULE ArtifactChainProofs ------------------------
(***************************************************************************)
(* Proofs about ArtifactChain, for any tables that satisfy the assumptions *)
(* and any number of edits, reruns and kills: the types; that an artifact  *)
(* that is ready vouches only for artifacts that were ready and texts that *)
(* were rendered; and that what it records of them fits together.          *)
(***************************************************************************)
EXTENDS ArtifactChain, TLAPS

Names == Files \cup (UNION {DOMAIN Stage[s].keeps : s \in DOMAIN Stage})
               \cup (UNION {Carries[f] : f \in Given})
Recs == UNION {[S -> Nat] : S \in SUBSET Names}
Held == [status : Status, rec : Recs, stamp : Nat]

\* Contents to be put in place.
Writes(contents) ==
  /\ DOMAIN contents \subseteq Files
  /\ \A f \in DOMAIN contents : contents[f] \in Held

FilesOK ==
  /\ seen \in [Files -> Seq(Held)]
  /\ cur \in [Files -> Nat]
  /\ \A f \in Files : cur[f] <= Len(seen[f])
  /\ \A f \in Given : cur[f] > 0

-----------------------------------------------------------------------------
(* Puts.                                                                    *)

LEMMA StagesAreFiles == Made \subseteq DOMAIN Stage /\ Own \subseteq Files /\ Given \subseteq Files
<1>1. Made \subseteq DOMAIN Stage
  BY ChainAssumption DEF Made
<1> QED
  BY <1>1 DEF Own, Given, Files

LEMMA VersionBound ==
  ASSUME NEW f, NEW c, seen[f] \in Seq(Held)
  PROVE  /\ VersionOf(f, c) \in 1..(Len(seen[f]) + 1)
         /\ VersionOf(f, c) <= Len(seen[f]) => seen[f][VersionOf(f, c)] = c
<1>1. CASE \E v \in DOMAIN seen[f] : seen[f][v] = c
  <2>1. VersionOf(f, c) \in DOMAIN seen[f] /\ seen[f][VersionOf(f, c)] = c
    BY <1>1 DEF VersionOf
  <2> QED
    BY <2>1
<1>2. CASE ~ \E v \in DOMAIN seen[f] : seen[f][v] = c
  <2>1. VersionOf(f, c) = Len(seen[f]) + 1
    BY <1>2 DEF VersionOf
  <2> QED
    BY <2>1
<1> QED
  BY <1>1, <1>2

\* What a Put does to one file.
LEMMA PutFile ==
  ASSUME FilesOK, NEW contents, Writes(contents), Put(contents), NEW f \in Files
  PROVE  /\ seen'[f] \in Seq(Held)
         /\ Len(seen[f]) <= Len(seen'[f])
         /\ \A v \in DOMAIN seen[f] : seen'[f][v] = seen[f][v]
         /\ f \in DOMAIN contents =>
              /\ cur'[f] = VersionOf(f, contents[f]) /\ cur'[f] \in 1..Len(seen'[f])
              /\ seen'[f][cur'[f]] = contents[f]
         /\ f \notin DOMAIN contents => cur'[f] = cur[f] /\ seen'[f] = seen[f]
         /\ \A v \in DOMAIN seen'[f] :
              v \in DOMAIN seen[f] \/ (f \in DOMAIN contents /\ seen'[f][v] = contents[f])
<1>1. seen[f] \in Seq(Held)
  BY DEF FilesOK
<1>2. CASE f \notin DOMAIN contents
  BY <1>1, <1>2 DEF Put
<1>3. CASE f \in DOMAIN contents
  <2>0. PICK n : n = VersionOf(f, contents[f])
    OBVIOUS
  <2>1. n \in 1..(Len(seen[f]) + 1) /\ (n <= Len(seen[f]) => seen[f][n] = contents[f])
    BY <1>1, <2>0, VersionBound
  <2>2. cur'[f] = n
    BY <1>3, <2>0 DEF Put
  <2>3. contents[f] \in Held
    BY <1>3 DEF Writes
  <2>4. CASE n > Len(seen[f])
    <3>1. seen'[f] = Append(seen[f], contents[f]) /\ n = Len(seen[f]) + 1
      BY <1>1, <1>3, <2>0, <2>1, <2>4 DEF Put
    <3> QED
      BY <1>1, <1>3, <2>0, <2>2, <2>3, <3>1
  <2>5. CASE ~(n > Len(seen[f]))
    <3>1. seen'[f] = seen[f]
      BY <1>3, <2>0, <2>5 DEF Put
    <3> QED
      BY <1>1, <1>3, <2>0, <2>1, <2>2, <2>5, <3>1
  <2> QED
    BY <2>4, <2>5
<1> QED
  BY <1>2, <1>3

LEMMA PutFilesOK ==
  ASSUME FilesOK, NEW contents, Writes(contents), Put(contents)
  PROVE  FilesOK'
<1>1. seen' = [f \in Files |-> seen'[f]] /\ cur' = [f \in Files |-> cur'[f]]
  BY DEF Put
<1>2. ASSUME NEW f \in Files
      PROVE  /\ seen'[f] \in Seq(Held) /\ cur'[f] \in Nat /\ cur'[f] <= Len(seen'[f])
             /\ f \in Given => cur'[f] > 0
  BY PutFile DEF FilesOK
<1> QED
  BY <1>1, <1>2, StagesAreFiles DEF FilesOK

-----------------------------------------------------------------------------
(* What is vouched for.  The invariant speaks of every version a file ever  *)
(* had, since an edit may bring an old one back.                            *)

Sound(x, v) ==
  v \in DOMAIN seen[x] /\ seen[x][v].status = "ready" /\ DOMAIN seen[x][v].rec = Records[x]

\* Every hash recorded is of a content there has been.
Exists(c) == \A x \in DOMAIN c.rec \cap Own : c.rec[x] <= Len(seen[x])

\* An artifact f of this chain with content c.
Worth(f, c) ==
  /\ DOMAIN c.rec = IF c.status = "broken" THEN {} ELSE Records[f]
  /\ c.status = "blocked" => Stage[f].onFailure
  /\ \A x \in DOMAIN c.rec \cap Own :
       /\ c.rec[x] > 0
       /\ (c.status = "ready" /\ <<f, x>> \notin Unread) \/ CopiesEvenFailed(f, x)
       => Sound(x, c.rec[x])

VouchInv ==
  /\ FilesOK
  /\ \A f \in Files : \A v \in DOMAIN seen[f] :
       Exists(seen[f][v]) /\ (f \in Made => Worth(f, seen[f][v]))

\* What an artifact copies even when it has failed is sound whatever its status.
LEMMA WorthCopied ==
  ASSUME NEW f, NEW c, Worth(f, c), NEW x \in Own, x \in DOMAIN c.rec, c.rec[x] > 0,
         CopiesEvenFailed(f, x)
  PROVE  Sound(x, c.rec[x])
  BY DEF Worth

\* A hash read from an artifact is one it has.
LEMMA RecordedIs ==
  ASSUME NEW f, NEW x, NEW n, n # 0, Recorded(f, x) = n
  PROVE  x \in DOMAIN seen[f][cur[f]].rec /\ seen[f][cur[f]].rec[x] = n
  BY DEF Recorded

LEMMA SoundKept ==
  ASSUME FilesOK, NEW contents, Writes(contents), Put(contents), NEW x \in Files, NEW v,
         Sound(x, v)
  PROVE  Sound(x, v)'
<1>1. v \in DOMAIN seen'[x] /\ seen'[x][v] = seen[x][v]
  BY PutFile DEF Sound, FilesOK
<1> QED
  BY <1>1 DEF Sound

LEMMA PutVouches ==
  ASSUME VouchInv, NEW contents, Writes(contents), Put(contents),
         \A f \in DOMAIN contents :
           Exists(contents[f])' /\ (f \in Made => Worth(f, contents[f])')
  PROVE  VouchInv'
<1>1. FilesOK /\ FilesOK'
  BY PutFilesOK DEF VouchInv
<1>2. ASSUME NEW f \in Files, NEW v \in DOMAIN seen'[f]
      PROVE  Exists(seen[f][v])' /\ (f \in Made => Worth(f, seen[f][v])')
  <2>1. CASE v \in DOMAIN seen[f]
    <3>1. seen'[f][v] = seen[f][v]
      BY <1>1, <2>1, PutFile
    <3>2. Exists(seen[f][v]) /\ (f \in Made => Worth(f, seen[f][v]))
      BY <2>1 DEF VouchInv
    <3>3. ASSUME NEW x \in Own PROVE Len(seen[x]) <= Len(seen'[x]) /\ x \in Files
      BY <1>1, PutFile, StagesAreFiles
    <3>4. \A x \in Own : Len(seen[x]) \in Nat /\ Len(seen'[x]) \in Nat
      BY <1>1, StagesAreFiles DEF FilesOK
    <3>5. seen[f][v] \in Held
      BY <1>1, <2>1 DEF FilesOK
    <3>6. \A x \in DOMAIN seen[f][v].rec : seen[f][v].rec[x] \in Nat
      BY <3>5 DEF Held, Recs
    <3>7. Exists(seen[f][v])'
      BY <3>1, <3>2, <3>3, <3>4, <3>6 DEF Exists
    <3>8. ASSUME NEW x \in Own, NEW n, Sound(x, n) PROVE Sound(x, n)'
      BY <1>1, <3>8, SoundKept, StagesAreFiles
    <3>9. f \in Made => Worth(f, seen[f][v])'
      BY <3>1, <3>2, <3>8 DEF Worth
    <3> QED
      BY <3>7, <3>9
  <2>2. CASE v \notin DOMAIN seen[f]
    <3>1. f \in DOMAIN contents /\ seen'[f][v] = contents[f]
      BY <1>1, <2>2, PutFile
    <3> QED
      BY <3>1
  <2> QED
    BY <2>1, <2>2
<1> QED
  BY <1>1, <1>2 DEF VouchInv

-----------------------------------------------------------------------------
(* What a run writes.                                                       *)

\* The assumptions about one stage.
LEMMA StageFacts ==
  ASSUME NEW s \in Made
  PROVE  /\ s \in DOMAIN Stage /\ s \in Files /\ s \in Own
         /\ Stage[s].reads \subseteq Files /\ Stage[s].writes \subseteq Own
         /\ Stage[s].parses \subseteq Stage[s].reads /\ Stage[s].from \subseteq Stage[s].reads
         /\ s \notin Stage[s].writes /\ Stage[s].writes \cap Made = {}
         /\ \A t \in Stage[s].writes : Records[t] = Stage[s].from
         /\ Records[s] = DOMAIN Stage[s].keeps /\ DOMAIN Stage[s].keeps \subseteq Names
         /\ \A x \in DOMAIN Stage[s].keeps :
              /\ Stage[s].keeps[x][2] = x
              /\ Stage[s].keeps[x][1] \in Stage[s].reads \cup (Stage[s].writes \cap {x})
<1>1. s \in DOMAIN Stage /\ s \in Files /\ s \in Own
  BY StagesAreFiles DEF Own
<1>2. Stage[s].reads \subseteq Files /\ Stage[s].writes \subseteq Own
  BY <1>1 DEF Files, Own
<1>3. Stage[s].writes \cap DOMAIN Stage = {}
  BY ChainAssumption
<1>4. Stage[s].writes \cap Made = {} /\ s \notin Stage[s].writes
  BY <1>1, <1>3, StagesAreFiles
<1>5. ASSUME NEW t \in Stage[s].writes PROVE Records[t] = Stage[s].from
  <2>1. t \in Files /\ t \notin DOMAIN Stage
    BY <1>2, <1>3, StagesAreFiles
  <2>2. {r \in Made : t \in Stage[r].writes} = {s}
    <3>1. ASSUME NEW r \in Made, t \in Stage[r].writes PROVE r = s
      <4>1. r # s => Stage[r].writes \cap Stage[s].writes = {}
        BY ChainAssumption
      <4> QED
        BY <3>1, <4>1
    <3> QED
      BY <3>1
  <2>3. Records[t] = UNION {Stage[r].from : r \in {r \in Made : t \in Stage[r].writes}}
    BY <2>1 DEF Records
  <2> QED
    BY <2>2, <2>3
<1>6. Records[s] = DOMAIN Stage[s].keeps
  BY <1>1 DEF Records
<1>7. DOMAIN Stage[s].keeps \subseteq Names
  BY <1>1 DEF Names
<1>8. /\ Stage[s].parses \subseteq Stage[s].reads /\ Stage[s].from \subseteq Stage[s].reads
      /\ \A x \in DOMAIN Stage[s].keeps :
           /\ Stage[s].keeps[x][2] = x
           /\ Stage[s].keeps[x][1] \in Stage[s].reads \cup (Stage[s].writes \cap {x})
  BY ChainAssumption
<1> QED
  BY <1>1, <1>2, <1>4, <1>5, <1>6, <1>7, <1>8

\* The present content of a file that is there.
LEMMA Present ==
  ASSUME VouchInv, NEW f \in Files, cur[f] > 0
  PROVE  /\ cur[f] \in DOMAIN seen[f] /\ seen[f][cur[f]] \in Held
         /\ Exists(seen[f][cur[f]]) /\ (f \in Made => Worth(f, seen[f][cur[f]]))
         /\ \A x : Recorded(f, x) \in Nat
         /\ \A x \in Own : Recorded(f, x) <= Len(seen[x])
<1>1. cur[f] \in DOMAIN seen[f]
  BY DEF VouchInv, FilesOK
<1>2. seen[f][cur[f]] \in Held
  BY <1>1 DEF VouchInv, FilesOK
<1>3. Exists(seen[f][cur[f]]) /\ (f \in Made => Worth(f, seen[f][cur[f]]))
  BY <1>1 DEF VouchInv
<1>4. \A x \in DOMAIN seen[f][cur[f]].rec : seen[f][cur[f]].rec[x] \in Nat
  BY <1>2 DEF Held, Recs
<1>5. \A x \in Own : Len(seen[x]) \in Nat
  BY StagesAreFiles DEF VouchInv, FilesOK
<1> QED
  BY <1>1, <1>2, <1>3, <1>4, <1>5 DEF Recorded, Exists

\* The hash that a run of s records for x.
RunHash(s, x) ==
  IF Stage[s].keeps[x][1] = x /\ x \in Stage[s].writes
    THEN VersionOf(x, Rendered(s)) ELSE Hash(Stage[s].keeps[x])

LEMMA HashBound ==
  ASSUME VouchInv, NEW s \in Made, Runnable(s), NEW x \in DOMAIN Stage[s].keeps
  PROVE  /\ Hash(Stage[s].keeps[x]) \in Nat
         /\ x \in Own => Hash(Stage[s].keeps[x]) <= Len(seen[x])
<1> DEFINE ref == Stage[s].keeps[x]
<1>1. ref[2] = x /\ ref[1] \in Stage[s].reads \cup (Stage[s].writes \cap {x})
      /\ Stage[s].reads \subseteq Files /\ Stage[s].writes \subseteq Files
  BY StageFacts, StagesAreFiles
<1>2. CASE ref[1] = x
  <2>1. Hash(ref) = cur[x] /\ x \in Files
    BY <1>1, <1>2 DEF Hash
  <2> QED
    BY <2>1 DEF VouchInv, FilesOK
<1>3. CASE ref[1] # x
  <2>1. Hash(ref) = Recorded(ref[1], x) /\ ref[1] \in Files /\ cur[ref[1]] > 0
    BY <1>1, <1>3 DEF Hash, Runnable
  <2> QED
    BY <2>1, Present
<1> QED
  BY <1>2, <1>3

LEMMA RenderedHeld ==
  ASSUME VouchInv, NEW s \in Made, Runnable(s)
  PROVE  /\ Rendered(s) \in Held /\ Rendered(s).status = "ready"
         /\ DOMAIN Rendered(s).rec = Stage[s].from
         /\ \A x \in Stage[s].from : Rendered(s).rec[x] <= Len(seen[x])
<1>1. Stage[s].from \subseteq Files
  <2>1. Stage[s].from \subseteq Stage[s].reads
    BY StageFacts
  <2>2. Stage[s].reads \subseteq Files
    BY StageFacts
  <2> QED
    BY <2>1, <2>2
<1>2. Stage[s].from \subseteq Names
  BY <1>1 DEF Names
<1>3. \A x \in Stage[s].from : cur[x] \in Nat /\ cur[x] <= Len(seen[x])
  BY <1>1 DEF VouchInv, FilesOK
<1>4. [f \in Stage[s].from |-> cur[f]] \in [Stage[s].from -> Nat]
  BY <1>3
<1>5. [f \in Stage[s].from |-> cur[f]] \in Recs
  BY <1>2, <1>4 DEF Recs
<1>6. Rendered(s) = [status |-> "ready", rec |-> [f \in Stage[s].from |-> cur[f]], stamp |-> 0]
  BY DEF Rendered, Content
<1>7. Rendered(s) \in Held
  BY <1>5, <1>6 DEF Held, Status
<1>8. Rendered(s).rec = [f \in Stage[s].from |-> cur[f]] /\ Rendered(s).status = "ready"
  BY <1>6
<1> QED
  BY <1>3, <1>7, <1>8

\* An artifact that a stage requires and passes is ready, and worth what it records.
LEMMA RequiredReady ==
  ASSUME VouchInv, NEW s \in Made, Runnable(s), Passes(s), NEW f, Requires(s, f)
  PROVE  /\ f \in Files /\ f \in Made /\ cur[f] > 0 /\ cur[f] \in DOMAIN seen[f]
         /\ seen[f][cur[f]].status = "ready" /\ Worth(f, seen[f][cur[f]])
<1>1. f \in Made /\ f \in Stage[s].parses /\ (f \in Stage[s].ready \/ ~Stage[f].onFailure)
  BY DEF Requires, NeverFails
<1>2. f \in Files /\ cur[f] > 0
  <2>1. Stage[s].parses \subseteq Stage[s].reads /\ Stage[s].reads \subseteq Files
    BY StageFacts
  <2> QED
    BY <1>1, <2>1 DEF Runnable
<1>3. Worth(f, seen[f][cur[f]]) /\ seen[f][cur[f]] \in Held /\ cur[f] \in DOMAIN seen[f]
  BY <1>1, <1>2, Present
<1>4. seen[f][cur[f]].status \in Status /\ seen[f][cur[f]].status # "broken"
  BY <1>1, <1>3 DEF Passes, Broken, Held
<1>5. seen[f][cur[f]].status = "ready"
  BY <1>1, <1>3, <1>4 DEF Passes, Worth, Status
<1> QED
  BY <1>1, <1>2, <1>3, <1>5

\* A hash that the tables vouch for is sound once the run has written its files.
LEMMA RunSound ==
  ASSUME VouchInv, NEW s \in Made, Runnable(s), Passes(s),
         NEW contents, Writes(contents), Put(contents),
         \A t \in Stage[s].writes : t \in DOMAIN contents /\ contents[t] = Rendered(s),
         NEW x \in DOMAIN Stage[s].keeps \cap Own, Vouches(s, x),
         NEW n \in Nat, n = RunHash(s, x), n > 0
  PROVE  Sound(x, n)'
<1> DEFINE ref == Stage[s].keeps[x]
<1>1. FilesOK /\ x \in Files /\ ref[2] = x
      /\ ref[1] \in Stage[s].reads \cup (Stage[s].writes \cap {x})
      /\ Stage[s].reads \subseteq Files
  BY StagesAreFiles, StageFacts DEF VouchInv
<1>2. CASE ref[1] = x /\ x \in Stage[s].writes
  <2>1. contents[x] = Rendered(s) /\ x \in DOMAIN contents
    BY <1>2
  <2>2. /\ cur'[x] = VersionOf(x, Rendered(s)) /\ cur'[x] \in 1..Len(seen'[x])
        /\ seen'[x][cur'[x]] = Rendered(s)
    BY <1>1, <2>1, PutFile
  <2>3. n = cur'[x]
    BY <1>2, <2>2 DEF RunHash
  <2>4. seen'[x] \in Seq(Held)
    BY <1>1, PutFile
  <2>5. Records[x] = DOMAIN Rendered(s).rec /\ Rendered(s).status = "ready"
    BY <1>2, StageFacts, RenderedHeld
  <2>6. n \in DOMAIN seen'[x] /\ seen'[x][n] = Rendered(s)
    BY <2>2, <2>3, <2>4
  <2> QED
    BY <2>5, <2>6 DEF Sound
<1>3. CASE ~(ref[1] = x /\ x \in Stage[s].writes)
  <2> SUFFICES Sound(x, n)
    BY <1>1, SoundKept
  <2>1. n = Hash(ref)
    BY <1>3 DEF RunHash
  <2>2. ref[1] \in Stage[s].reads /\ ref[1] \in Files /\ cur[ref[1]] > 0
    BY <1>1, <1>3 DEF Runnable
  \* A required artifact is ready, and worth what it records.
  <2>3. ASSUME NEW f, Requires(s, f)
        PROVE  /\ f \in Files /\ f \in Made /\ cur[f] > 0
               /\ seen[f][cur[f]].status = "ready" /\ Worth(f, seen[f][cur[f]])
    BY <2>3, RequiredReady
  \* So is what it records and it is trusted with.
  <2>4. ASSUME NEW f, Requires(s, f), Trusted(f, x), Recorded(f, x) = n PROVE Sound(x, n)
    <3>1. seen[f][cur[f]].status = "ready" /\ Worth(f, seen[f][cur[f]])
      BY <2>3, <2>4
    <3>2. x \in DOMAIN seen[f][cur[f]].rec /\ seen[f][cur[f]].rec[x] = n
      BY <2>4 DEF Recorded
    <3> QED
      BY <2>4, <3>1, <3>2 DEF Worth, Trusted
  <2>5. CASE ref = <<x, x>> /\ Requires(s, x)
    <3>1. n = cur[x]
      BY <2>1, <2>5 DEF Hash
    <3>2. n \in DOMAIN seen[x]
      BY <1>1, <3>1 DEF FilesOK
    <3>3. x \in Made /\ seen[x][n].status = "ready" /\ DOMAIN seen[x][n].rec = Records[x]
      BY <2>3, <2>5, <3>1 DEF Worth
    <3> QED
      BY <3>2, <3>3 DEF Sound
  <2>6. CASE ref = <<x, x>> /\ \E f \in Made : Requires(s, f) /\ Trusted(f, x)
                                 /\ << <<f, x>>, <<x, x>> >> \in Stage[s].agree
    <3>1. PICK f \in Made : Requires(s, f) /\ Trusted(f, x)
                            /\ << <<f, x>>, <<x, x>> >> \in Stage[s].agree
      BY <2>6
    <3>2. n = cur[x]
      BY <2>1, <2>6 DEF Hash
    <3>3. Hash(<<f, x>>) = Hash(<<x, x>>)
      BY <3>1 DEF Passes
    <3>4. CASE f = x
      <4>1. Requires(s, x)
        BY <3>1, <3>4
      <4> QED
        BY <2>5, <2>6, <4>1
    <3>5. CASE f # x
      <4>1. Recorded(f, x) = n
        BY <3>2, <3>3, <3>5 DEF Hash
      <4> QED
        BY <2>4, <3>1, <4>1
    <3> QED
      BY <3>4, <3>5
  <2>7. CASE ref[1] # x /\ Requires(s, ref[1]) /\ Trusted(ref[1], x)
    <3>1. Recorded(ref[1], x) = n
      BY <1>1, <2>1, <2>7 DEF Hash
    <3> QED
      BY <2>4, <2>7, <3>1
  <2>8. CASE ref[1] # x /\ CopiesEvenFailed(ref[1], x)
    <3>1. Recorded(ref[1], x) = n
      BY <1>1, <2>1, <2>8 DEF Hash
    <3>2. ref[1] \in Made
      BY <2>8 DEF CopiesEvenFailed
    <3>3. Worth(ref[1], seen[ref[1]][cur[ref[1]]])
      BY <2>2, <3>2, Present
    <3> DEFINE f == ref[1]
               c == seen[f][cur[f]]
    <3>4. Worth(f, c) /\ CopiesEvenFailed(f, x) /\ Recorded(f, x) = n
      BY <2>8, <3>1, <3>3
    <3> HIDE DEF f
    <3>5. n # 0
      OBVIOUS
    <3>6. x \in DOMAIN c.rec /\ c.rec[x] = n
      BY <3>4, <3>5, RecordedIs
    <3> HIDE DEF c
    <3>7. c.rec[x] > 0
      BY <3>6
    <3> QED
      BY <3>4, <3>6, <3>7, WorthCopied
  <2> QED
    BY <1>3, <2>5, <2>6, <2>7, <2>8 DEF Vouches
<1> QED
  BY <1>2, <1>3

\* A hash copied from an artifact that is never written failed.
LEMMA CopySound ==
  ASSUME VouchInv, NEW s \in Made, Runnable(s), NEW x \in Own, CopiesEvenFailed(s, x),
         NEW n \in Nat, n = Hash(Stage[s].keeps[x]), n > 0
  PROVE  Sound(x, n)
<1> DEFINE ref == Stage[s].keeps[x]
<1> DEFINE g == ref[1]
<1>1. x \in DOMAIN Stage[s].keeps /\ g # x /\ NeverFails(g) /\ Trusted(g, x)
  BY DEF CopiesEvenFailed
<1>2. ref[2] = x /\ g \in Stage[s].reads /\ Stage[s].reads \subseteq Files
  BY <1>1, StageFacts
<1>3. g \in Files /\ cur[g] > 0 /\ g \in Made /\ ~Stage[g].onFailure
  BY <1>1, <1>2 DEF Runnable, NeverFails
<1>4. n = Recorded(g, x)
  BY <1>1, <1>2 DEF Hash
<1>5. x \in DOMAIN seen[g][cur[g]].rec /\ seen[g][cur[g]].rec[x] = n
  <2>1. n # 0
    OBVIOUS
  <2> QED
    BY <1>4, <2>1, RecordedIs
<1>6. Worth(g, seen[g][cur[g]]) /\ seen[g][cur[g]] \in Held
  BY <1>3, Present
<1>7. seen[g][cur[g]].status = "ready"
  <2>1. seen[g][cur[g]].status \in Status
    BY <1>6 DEF Held
  <2>2. seen[g][cur[g]].status # "broken" /\ seen[g][cur[g]].status # "blocked"
    BY <1>3, <1>5, <1>6 DEF Worth
  <2> QED
    BY <2>1, <2>2 DEF Status
<1> QED
  BY <1>1, <1>5, <1>6, <1>7 DEF Worth, Trusted

LEMMA RunHashBound ==
  ASSUME VouchInv, NEW s \in Made, Runnable(s), NEW x \in DOMAIN Stage[s].keeps
  PROVE  RunHash(s, x) \in Nat
<1>1. CASE Stage[s].keeps[x][1] = x /\ x \in Stage[s].writes
  <2>1. x \in Files
    BY <1>1, StageFacts, StagesAreFiles
  <2>2. seen[x] \in Seq(Held)
    BY <2>1 DEF VouchInv, FilesOK
  <2>3. VersionOf(x, Rendered(s)) \in 1..(Len(seen[x]) + 1)
    BY <2>2, VersionBound
  <2> QED
    BY <1>1, <2>2, <2>3 DEF RunHash
<1>2. CASE ~(Stage[s].keeps[x][1] = x /\ x \in Stage[s].writes)
  BY <1>2, HashBound DEF RunHash
<1> QED
  BY <1>1, <1>2

\* What the artifact of a run holds.
LEMMA WrittenHeld ==
  ASSUME VouchInv, NEW s \in Made, Runnable(s)
  PROVE  /\ Written(s) \in Held /\ Written(s).status = "ready"
         /\ DOMAIN Written(s).rec = Records[s]
         /\ \A x \in DOMAIN Stage[s].keeps : Written(s).rec[x] = RunHash(s, x)
<1> DEFINE rec == [x \in DOMAIN Stage[s].keeps |-> RunHash(s, x)]
           stamp == IF Stage[s].timed THEN Len(seen[s]) ELSE 0
<1>1. Written(s) = [status |-> "ready", rec |-> rec, stamp |-> stamp]
  <2>1. ASSUME NEW x \in DOMAIN Stage[s].keeps
        PROVE  (IF Stage[s].keeps[x][1] = Stage[s].keeps[x][2]
                     /\ Stage[s].keeps[x][1] \in Stage[s].writes
                  THEN VersionOf(Stage[s].keeps[x][1], Rendered(s))
                  ELSE Hash(Stage[s].keeps[x])) = RunHash(s, x)
    <3>1. Stage[s].keeps[x][2] = x
      BY StageFacts
    <3> QED
      BY <3>1 DEF RunHash
  <2> QED
    BY <2>1, Zenon DEF Written, Content
<1>2. \A x \in DOMAIN Stage[s].keeps : RunHash(s, x) \in Nat
  BY RunHashBound
<1>3. rec \in Recs
  <2>1. DOMAIN Stage[s].keeps \subseteq Names
    BY StageFacts
  <2> QED
    BY <1>2, <2>1 DEF Recs
<1>4. stamp \in Nat
  <2>1. seen[s] \in Seq(Held)
    BY StageFacts DEF VouchInv, FilesOK
  <2> QED
    BY <2>1
<1>5. Written(s) \in Held
  BY <1>1, <1>3, <1>4 DEF Held, Status
<1>6. Written(s).rec = rec /\ Written(s).status = "ready"
  BY <1>1
<1>7. Records[s] = DOMAIN Stage[s].keeps
  BY StageFacts
<1> QED
  BY <1>5, <1>6, <1>7

LEMMA BlockedHeld ==
  ASSUME VouchInv, NEW s \in Made, Runnable(s)
  PROVE  /\ Blocked(s) \in Held /\ Blocked(s).status = "blocked"
         /\ DOMAIN Blocked(s).rec = Records[s]
         /\ \A x \in DOMAIN Stage[s].keeps : Blocked(s).rec[x] = Hash(Stage[s].keeps[x])
<1> DEFINE rec == [x \in DOMAIN Stage[s].keeps |-> Hash(Stage[s].keeps[x])]
<1>1. Blocked(s) = [status |-> "blocked", rec |-> rec, stamp |-> 0]
  BY DEF Blocked, Content
<1>2. \A x \in DOMAIN Stage[s].keeps : Hash(Stage[s].keeps[x]) \in Nat
  BY HashBound
<1>3. rec \in Recs
  <2>1. DOMAIN Stage[s].keeps \subseteq Names
    BY StageFacts
  <2> QED
    BY <1>2, <2>1 DEF Recs
<1>4. Blocked(s) \in Held
  BY <1>1, <1>3 DEF Held, Status
<1>5. Blocked(s).rec = rec /\ Blocked(s).status = "blocked"
  BY <1>1
<1>6. Records[s] = DOMAIN Stage[s].keeps
  BY StageFacts
<1> QED
  BY <1>4, <1>5, <1>6

-----------------------------------------------------------------------------
(* One run, whole or killed.                                                *)

LEMMA TextsFit ==
  ASSUME VouchInv, NEW s \in Made, Runnable(s),
         NEW contents, Writes(contents), Put(contents),
         NEW t \in Stage[s].writes, contents[t] = Rendered(s)
  PROVE  Exists(contents[t])' /\ (t \in Made => Worth(t, contents[t])')
<1>1. DOMAIN contents[t].rec = Stage[s].from
      /\ \A x \in Stage[s].from : contents[t].rec[x] <= Len(seen[x])
      /\ contents[t] \in Held
  BY RenderedHeld
<1>2. ASSUME NEW x \in Own
      PROVE  Len(seen[x]) <= Len(seen'[x]) /\ Len(seen[x]) \in Nat /\ Len(seen'[x]) \in Nat
  BY PutFile, StagesAreFiles, PutFilesOK DEF VouchInv, FilesOK
<1>3. \A x \in DOMAIN contents[t].rec : contents[t].rec[x] \in Nat
  BY <1>1 DEF Held, Recs
<1>4. Exists(contents[t])'
  BY <1>1, <1>2, <1>3 DEF Exists
<1> QED
  BY <1>4, StageFacts

LEMMA RunVouches ==
  ASSUME VouchInv, NEW s \in Made, Runnable(s), NEW contents, contents = Outcome(s),
         Put(contents)
  PROVE  VouchInv'
<1>0. /\ s \in Files /\ Stage[s].writes \subseteq Files /\ s \notin Stage[s].writes
      /\ Stage[s].writes \cap Made = {}
  BY StageFacts, StagesAreFiles
<1>1. ASSUME NEW x \in Own
      PROVE  /\ x \in Files /\ Len(seen[x]) <= Len(seen'[x])
             /\ Len(seen[x]) \in Nat /\ Len(seen'[x]) \in Nat
  <2>1. Writes(contents) => Len(seen[x]) <= Len(seen'[x]) /\ Len(seen'[x]) \in Nat
    BY PutFile, StagesAreFiles DEF VouchInv
  <2>2. Writes(contents)
    <3>1. CASE Passes(s)
      <4>1. contents = [f \in Stage[s].writes \cup {s} |->
                          IF f = s THEN Written(s) ELSE Rendered(s)]
        BY <3>1 DEF Outcome, Result
      <4> QED
        BY <1>0, <4>1, WrittenHeld, RenderedHeld DEF Writes
    <3>2. CASE ~Passes(s)
      <4>1. contents = [f \in {y \in {s} : Stage[s].onFailure /\ ~Broken(Stage[s].vital)}
                          |-> Blocked(s)]
        BY <3>2 DEF Outcome
      <4> QED
        BY <1>0, <4>1, BlockedHeld DEF Writes
    <3> QED
      BY <3>1, <3>2
  <2> QED
    BY <2>1, <2>2, StagesAreFiles DEF VouchInv, FilesOK
<1>2. CASE Passes(s)
  <2>1. contents = [f \in Stage[s].writes \cup {s} |->
                      IF f = s THEN Written(s) ELSE Rendered(s)]
    BY <1>2 DEF Outcome, Result
  <2>2. /\ DOMAIN contents = Stage[s].writes \cup {s} /\ contents[s] = Written(s)
        /\ \A t \in Stage[s].writes : contents[t] = Rendered(s)
    BY <1>0, <2>1
  <2>3. Writes(contents)
    BY <1>0, <2>2, WrittenHeld, RenderedHeld DEF Writes
  <2>4. /\ DOMAIN contents[s].rec = DOMAIN Stage[s].keeps /\ DOMAIN Stage[s].keeps = Records[s]
        /\ contents[s].status = "ready"
        /\ \A x \in DOMAIN Stage[s].keeps : contents[s].rec[x] = RunHash(s, x)
    BY <2>2, WrittenHeld, StageFacts
  <2>5. ASSUME NEW x \in DOMAIN Stage[s].keeps \cap Own
        PROVE  RunHash(s, x) \in Nat /\ RunHash(s, x) <= Len(seen'[x])
    <3>0. RunHash(s, x) \in Nat
      BY RunHashBound
    <3>1. CASE Stage[s].keeps[x][1] = x /\ x \in Stage[s].writes
      <4>1. cur'[x] = VersionOf(x, Rendered(s)) /\ cur'[x] \in 1..Len(seen'[x])
        BY <1>1, <2>2, <2>3, <3>1, PutFile DEF VouchInv
      <4> QED
        BY <1>1, <3>0, <3>1, <4>1 DEF RunHash
    <3>2. CASE ~(Stage[s].keeps[x][1] = x /\ x \in Stage[s].writes)
      <4>1. RunHash(s, x) <= Len(seen[x])
        BY <3>2, HashBound DEF RunHash
      <4> QED
        BY <1>1, <3>0, <4>1
    <3> QED
      BY <3>0, <3>1, <3>2
  <2>6. Exists(contents[s])'
    BY <2>4, <2>5 DEF Exists
  <2>7. ASSUME NEW x \in DOMAIN Stage[s].keeps \cap Own, NEW n, n = RunHash(s, x), n > 0,
               <<s, x>> \notin Unread \/ CopiesEvenFailed(s, x)
        PROVE  Sound(x, n)'
    <3>1. n \in Nat
      BY <2>5, <2>7
    <3>2. CASE <<s, x>> \notin Unread
      <4>1. Vouches(s, x)
        BY <3>2, VouchingAssumption
      <4> QED
        BY <1>2, <2>2, <2>3, <2>7, <3>1, <4>1, RunSound
    <3>3. CASE CopiesEvenFailed(s, x)
      <4>1. ~(Stage[s].keeps[x][1] = x /\ x \in Stage[s].writes)
        BY <3>3 DEF CopiesEvenFailed
      <4>2. n = Hash(Stage[s].keeps[x])
        BY <2>7, <4>1 DEF RunHash
      <4>3. Sound(x, n)
        BY <2>7, <3>1, <3>3, <4>2, CopySound
      <4> QED
        BY <1>1, <2>3, <4>3, SoundKept DEF VouchInv
    <3> QED
      BY <2>7, <3>2, <3>3
  <2>8. Worth(s, contents[s])'
    <3>1. ASSUME NEW x \in DOMAIN contents[s].rec \cap Own, contents[s].rec[x] > 0,
                 (contents[s].status = "ready" /\ <<s, x>> \notin Unread) \/ CopiesEvenFailed(s, x)
          PROVE  Sound(x, contents[s].rec[x])'
      BY <2>4, <2>7, <3>1
    <3> QED
      BY <2>4, <3>1 DEF Worth
  <2>9. ASSUME NEW f \in DOMAIN contents
        PROVE  Exists(contents[f])' /\ (f \in Made => Worth(f, contents[f])')
    <3>1. CASE f = s
      BY <2>6, <2>8, <3>1
    <3>2. CASE f # s
      <4>1. f \in Stage[s].writes /\ contents[f] = Rendered(s)
        BY <2>2, <3>2
      <4> QED
        BY <2>3, <4>1, TextsFit
    <3> QED
      BY <3>1, <3>2
  <2> QED
    BY <2>3, <2>9, PutVouches
<1>3. CASE ~Passes(s)
  <2>1. contents = [f \in {y \in {s} : Stage[s].onFailure /\ ~Broken(Stage[s].vital)}
                      |-> Blocked(s)]
    BY <1>3 DEF Outcome
  <2>2. \A f \in DOMAIN contents : f = s /\ contents[f] = Blocked(s) /\ Stage[s].onFailure
    BY <2>1
  <2>3. Writes(contents)
    BY <1>0, <2>2, BlockedHeld DEF Writes
  <2>4. ASSUME s \in DOMAIN contents
        PROVE  Exists(contents[s])' /\ Worth(s, contents[s])'
    <3>1. contents[s] = Blocked(s) /\ Stage[s].onFailure
      BY <2>2, <2>4
    <3>2. /\ DOMAIN contents[s].rec = DOMAIN Stage[s].keeps /\ DOMAIN Stage[s].keeps = Records[s]
          /\ contents[s].status = "blocked"
          /\ \A x \in DOMAIN Stage[s].keeps : contents[s].rec[x] = Hash(Stage[s].keeps[x])
      BY <3>1, BlockedHeld, StageFacts
    <3>3. \A x \in DOMAIN Stage[s].keeps \cap Own :
            Hash(Stage[s].keeps[x]) \in Nat /\ Hash(Stage[s].keeps[x]) <= Len(seen[x])
      BY HashBound
    <3>4. Exists(contents[s])'
      BY <1>1, <3>2, <3>3 DEF Exists
    <3>5. ASSUME NEW x \in DOMAIN contents[s].rec \cap Own, contents[s].rec[x] > 0,
                 CopiesEvenFailed(s, x)
          PROVE  Sound(x, contents[s].rec[x])'
      <4>1. PICK n : n = contents[s].rec[x]
        OBVIOUS
      <4>2. n = Hash(Stage[s].keeps[x]) /\ n \in Nat /\ n > 0
        BY <3>2, <3>3, <3>5, <4>1
      <4>3. Sound(x, n)
        BY <3>5, <4>2, CopySound
      <4>4. Sound(x, n)'
        BY <1>1, <2>3, <4>3, SoundKept DEF VouchInv
      <4> QED
        BY <4>1, <4>4
    <3>6. Worth(s, contents[s])'
      BY <3>1, <3>2, <3>5 DEF Worth
    <3> QED
      BY <3>4, <3>6
  <2> QED
    BY <2>2, <2>3, <2>4, PutVouches
<1> QED
  BY <1>2, <1>3

LEMMA TornHeld == Torn \in Held /\ DOMAIN Torn.rec = {} /\ Torn.status = "broken"
<1>1. << >> \in [{} -> Nat]
  OBVIOUS
<1>2. << >> \in Recs
  BY <1>1 DEF Recs
<1> QED
  BY <1>2 DEF Torn, Content, Held, Status

LEMMA KillVouches ==
  ASSUME VouchInv, Kill
  PROVE  VouchInv'
<1>1. PICK i \in 1..next \cap 1..Len(Chain) :
        /\ Runnable(Chain[i])
        /\ \/ Put([t \in Stage[Chain[i]].writes |-> Rendered(Chain[i])])
           \/ Put(Result(Chain[i], Torn))
  BY DEF Kill
<1>2. PICK s \in Made : s = Chain[i]
  BY <1>1, ChainAssumption DEF Made
<1>3. /\ s \in Files /\ Stage[s].writes \subseteq Files /\ s \notin Stage[s].writes
      /\ Stage[s].writes \cap Made = {}
  BY StageFacts, StagesAreFiles
<1>4. Runnable(s)
  BY <1>1, <1>2
<1>5. CASE Put([t \in Stage[s].writes |-> Rendered(s)])
  <2>1. PICK contents : contents = [t \in Stage[s].writes |-> Rendered(s)] /\ Put(contents)
    BY <1>5
  <2>2. Writes(contents)
    BY <1>3, <1>4, <2>1, RenderedHeld DEF Writes
  <2>3. ASSUME NEW f \in DOMAIN contents
        PROVE  Exists(contents[f])' /\ (f \in Made => Worth(f, contents[f])')
    BY <1>4, <2>1, <2>2, TextsFit
  <2> QED
    BY <2>1, <2>2, <2>3, PutVouches
<1>6. CASE Put(Result(s, Torn))
  <2>1. PICK contents :
          /\ contents = [f \in Stage[s].writes \cup {s} |-> IF f = s THEN Torn ELSE Rendered(s)]
          /\ Put(contents)
    BY <1>6 DEF Result
  <2>2. Writes(contents)
    BY <1>3, <1>4, <2>1, RenderedHeld, TornHeld DEF Writes
  <2>3. ASSUME NEW f \in DOMAIN contents
        PROVE  Exists(contents[f])' /\ (f \in Made => Worth(f, contents[f])')
    <3>1. CASE f = s
      <4>1. contents[f] = Torn
        BY <2>1, <3>1
      <4>2. Exists(contents[f])'
        BY <4>1, TornHeld DEF Exists
      <4>3. Worth(f, contents[f])'
        BY <4>1, TornHeld DEF Worth
      <4> QED
        BY <4>2, <4>3
    <3>2. CASE f # s
      <4>1. f \in Stage[s].writes /\ contents[f] = Rendered(s)
        BY <2>1, <3>2
      <4> QED
        BY <1>4, <2>1, <2>2, <4>1, TextsFit
    <3> QED
      BY <3>1, <3>2
  <2> QED
    BY <2>1, <2>2, <2>3, PutVouches
<1> QED
  BY <1>1, <1>2, <1>5, <1>6

-----------------------------------------------------------------------------
(* The other disturbances.                                                  *)

\* A file outside the stages gets a content that records nothing new.
OtherPut == \E f \in Files \ Made, c \in Held : Exists(c) /\ Put([g \in {f} |-> c])

LEMMA OtherVouches ==
  ASSUME VouchInv, OtherPut
  PROVE  VouchInv'
<1>0. PICK f \in Files \ Made, c \in Held : Exists(c) /\ Put([g \in {f} |-> c])
  BY DEF OtherPut
<1>1. PICK contents : contents = [g \in {f} |-> c] /\ Put(contents)
  BY <1>0
<1>2. Writes(contents)
  BY <1>1 DEF Writes
<1>3. ASSUME NEW x \in Own
      PROVE  Len(seen[x]) <= Len(seen'[x]) /\ Len(seen[x]) \in Nat /\ Len(seen'[x]) \in Nat
  BY <1>1, <1>2, PutFile, StagesAreFiles, PutFilesOK DEF VouchInv, FilesOK
<1>4. \A x \in DOMAIN c.rec : c.rec[x] \in Nat
  BY DEF Held, Recs
<1>5. Exists(c)'
  BY <1>0, <1>3, <1>4 DEF Exists
<1> QED
  BY <1>0, <1>1, <1>2, <1>5, PutVouches

LEMMA RemakePuts ==
  ASSUME VouchInv, Remake
  PROVE  OtherPut
<1>1. PICK f \in Given :
        \/ \E fresh \in {0, 1} :
             LET rec == [x \in Carries[f] |-> Recorded(f, x) + fresh]
             IN  Put([g \in {f} |-> Content("ready", rec, Len(seen[f]))])
        \/ \E v \in 1..(cur[f] - 1) : Put([g \in {f} |-> seen[f][v]])
  BY DEF Remake
<1>2. f \in Files /\ f \notin Made /\ cur[f] > 0
  BY StagesAreFiles DEF Given, Own, VouchInv, FilesOK
<1>3. cur[f] \in Nat /\ cur[f] <= Len(seen[f]) /\ seen[f] \in Seq(Held) /\ Len(seen[f]) \in Nat
  BY <1>2 DEF VouchInv, FilesOK
<1>4. CASE \E fresh \in {0, 1} :
             LET rec == [x \in Carries[f] |-> Recorded(f, x) + fresh]
             IN  Put([g \in {f} |-> Content("ready", rec, Len(seen[f]))])
  <2>1. PICK fresh \in {0, 1} :
          Put([g \in {f} |-> Content("ready", [x \in Carries[f] |-> Recorded(f, x) + fresh],
                                     Len(seen[f]))])
    BY <1>4
  <2>2. PICK rec : rec = [x \in Carries[f] |-> Recorded(f, x) + fresh]
    OBVIOUS
  <2>3. PICK c : c = [status |-> "ready", rec |-> rec, stamp |-> Len(seen[f])]
    OBVIOUS
  <2>4. Put([g \in {f} |-> c])
    BY <2>1, <2>2, <2>3 DEF Content
  <2>5. \A x : Recorded(f, x) \in Nat
    BY <1>2, Present
  <2>6. rec \in [Carries[f] -> Nat]
    BY <2>2, <2>5
  <2>7. Carries[f] \subseteq Names
    BY DEF Names
  <2>8. rec \in Recs
    BY <2>6, <2>7 DEF Recs
  <2>9. c \in Held
    BY <1>3, <2>3, <2>8 DEF Held, Status
  <2>10. c.rec = rec /\ DOMAIN rec = Carries[f] /\ Carries[f] \cap Own = {}
    BY <2>2, <2>3, ChainAssumption
  <2>11. Exists(c)
    BY <2>10 DEF Exists
  <2> QED
    BY <1>2, <2>4, <2>9, <2>11 DEF OtherPut
<1>5. CASE \E v \in 1..(cur[f] - 1) : Put([g \in {f} |-> seen[f][v]])
  <2>1. PICK v \in 1..(cur[f] - 1) : Put([g \in {f} |-> seen[f][v]])
    BY <1>5
  <2>2. v \in DOMAIN seen[f] /\ seen[f][v] \in Held
    BY <1>3, <2>1
  <2>3. Exists(seen[f][v])
    BY <1>2, <2>2 DEF VouchInv
  <2>4. PICK c : c = seen[f][v]
    OBVIOUS
  <2>5. c \in Held /\ Exists(c) /\ Put([g \in {f} |-> c])
    BY <2>1, <2>2, <2>3, <2>4
  <2> QED
    BY <1>2, <2>5 DEF OtherPut
<1> QED
  BY <1>1, <1>4, <1>5

LEMMA EditPuts ==
  ASSUME VouchInv, EditText
  PROVE  OtherPut
<1>1. PICK t \in Own \ Made : Put([g \in {t} |-> Content("ready", << >>, Len(seen[t]))])
  BY DEF EditText
<1>2. t \in Files /\ t \notin Made
  BY StagesAreFiles
<1>3. Len(seen[t]) \in Nat
  BY <1>2 DEF VouchInv, FilesOK
<1>4. PICK c : c = [status |-> "ready", rec |-> << >>, stamp |-> Len(seen[t])]
  OBVIOUS
<1>5. << >> \in [{} -> Nat]
  OBVIOUS
<1>6. << >> \in Recs
  BY <1>5 DEF Recs
<1>7. c \in Held /\ DOMAIN c.rec = {}
  BY <1>3, <1>4, <1>6 DEF Held, Status
<1>8. Exists(c)
  BY <1>7 DEF Exists
<1>9. Put([g \in {t} |-> c])
  BY <1>1, <1>4 DEF Content
<1> QED
  BY <1>2, <1>7, <1>8, <1>9 DEF OtherPut

-----------------------------------------------------------------------------
(* What the hashes of an artifact say of each other.  The invariant speaks  *)
(* of every version again, and of versions that are there already: a        *)
(* content put in place later cannot make a claim false.                    *)

\* The artifact whose content is c and the version of x it records agree on y.
Fits(c, x, y) ==
  LET v == c.rec[x]
  IN  v \in DOMAIN seen[x] /\ (y \in DOMAIN seen[x][v].rec => seen[x][v].rec[y] = c.rec[y])

Tied(f, c) ==
  c.status = "ready" => \A pair \in Related[f] :
    Claimed(f, pair[1], pair[2]) => Fits(c, pair[1], pair[2])

TiedInv == \A f \in Made : \A v \in DOMAIN seen[f] : Tied(f, seen[f][v])

LEMMA RelatedIs ==
  ASSUME NEW f \in Files, NEW x, NEW y
  PROVE  <<x, y>> \in Related[f]
           <=> x \in Records[f] /\ y \in Records[x] /\ y \in Records[f]
<1>1. Related[f] = UNION {{<<a, b>> : b \in Records[a] \cap Records[f]} : a \in Records[f]}
  BY DEF Related
<1>2. ASSUME <<x, y>> \in Related[f]
      PROVE  x \in Records[f] /\ y \in Records[x] /\ y \in Records[f]
  <2>1. PICK a \in Records[f] : <<x, y>> \in {<<a, b>> : b \in Records[a] \cap Records[f]}
    BY <1>1, <1>2
  <2>2. PICK b \in Records[a] \cap Records[f] : <<x, y>> = <<a, b>>
    BY <2>1
  <2> QED
    BY <2>1, <2>2
<1>3. ASSUME x \in Records[f], y \in Records[x], y \in Records[f]
      PROVE  <<x, y>> \in Related[f]
  <2>1. <<x, y>> \in {<<x, b>> : b \in Records[x] \cap Records[f]}
    BY <1>3
  <2> QED
    BY <1>1, <1>3, <2>1
<1> QED
  BY <1>2, <1>3

\* What a claim is about.
LEMMA ClaimedIs ==
  ASSUME NEW f, NEW x, NEW y, Claimed(f, x, y)
  PROVE  /\ f \in Made /\ f \in Files /\ <<x, y>> \in Related[f]
         /\ x \in Records[f] /\ y \in Records[x] /\ y \in Records[f]
         /\ f # x /\ f # y /\ x \in Files
<1>1. f \in Made /\ <<x, y>> \in Related[f]
  BY DEF Claimed
<1>2. f \in Files
  BY <1>1, StageFacts
<1>3. x \in Records[f] /\ y \in Records[x] /\ y \in Records[f]
  BY <1>1, <1>2, RelatedIs
<1>4. f \notin Records[f]
  BY <1>2, ChainAssumption
<1>5. x \in Files
  <2>1. Records[f] = DOMAIN Stage[f].keeps
    BY <1>1, StageFacts
  <2> QED
    BY <1>1, <1>3, <2>1, ChainAssumption
<1> QED
  BY <1>1, <1>2, <1>3, <1>4, <1>5

\* A claim of a version in the files.
LEMMA ClaimHolds ==
  ASSUME TiedInv, NEW f, NEW x, NEW y, Claimed(f, x, y), NEW v \in DOMAIN seen[f],
         seen[f][v].status = "ready"
  PROVE  Fits(seen[f][v], x, y)
<1>1. f \in Made /\ <<x, y>> \in Related[f]
  BY ClaimedIs
<1>2. Tied(f, seen[f][v])
  BY <1>1 DEF TiedInv
<1>3. \A pair \in Related[f] :
        Claimed(f, pair[1], pair[2]) => Fits(seen[f][v], pair[1], pair[2])
  BY <1>2 DEF Tied
<1>4. <<x, y>>[1] = x /\ <<x, y>>[2] = y
  OBVIOUS
<1> QED
  BY <1>1, <1>3, <1>4

LEMMA FitsKept ==
  ASSUME FilesOK, NEW contents, Writes(contents), Put(contents),
         NEW c, NEW x \in Files, NEW y, Fits(c, x, y)
  PROVE  Fits(c, x, y)'
<1>1. PICK v : v = c.rec[x]
  OBVIOUS
<1>2. v \in DOMAIN seen[x] /\ (y \in DOMAIN seen[x][v].rec => seen[x][v].rec[y] = c.rec[y])
  BY <1>1 DEF Fits
<1>3. v \in DOMAIN seen'[x] /\ seen'[x][v] = seen[x][v]
  BY <1>2, PutFile DEF FilesOK
<1> QED
  BY <1>1, <1>2, <1>3 DEF Fits

LEMMA PutTied ==
  ASSUME FilesOK, TiedInv, NEW contents, Writes(contents), Put(contents),
         \A f \in DOMAIN contents \cap Made : Tied(f, contents[f])'
  PROVE  TiedInv'
<1> SUFFICES ASSUME NEW f \in Made, NEW v \in DOMAIN seen'[f] PROVE Tied(f, seen[f][v])'
  BY DEF TiedInv
<1>1. f \in Files
  BY StageFacts
<1>2. CASE v \in DOMAIN seen[f]
  <2>1. PICK c : c = seen[f][v]
    OBVIOUS
  <2>2. seen'[f][v] = c
    BY <1>1, <1>2, <2>1, PutFile
  <2>3. Tied(f, c)
    BY <1>2, <2>1 DEF TiedInv
  <2>4. ASSUME NEW x, NEW y, Claimed(f, x, y), Fits(c, x, y) PROVE Fits(c, x, y)'
    BY <2>4, ClaimedIs, FitsKept
  <2>5. Tied(f, c)'
    BY <2>3, <2>4 DEF Tied
  <2> QED
    BY <2>2, <2>5
<1>3. CASE v \notin DOMAIN seen[f]
  <2>1. f \in DOMAIN contents /\ seen'[f][v] = contents[f]
    BY <1>1, <1>3, PutFile
  <2> QED
    BY <2>1
<1> QED
  BY <1>2, <1>3

\* What w says of y, by the version of z it is or refers to.
LEMMA TellsIs ==
  ASSUME VouchInv, TiedInv, NEW s \in Made, Runnable(s), Passes(s),
         NEW w, NEW z \in Own, NEW y \in Records[z], Tells(s, w, z, y)
  PROVE  /\ Hash(<<w, z>>) \in DOMAIN seen[z]
         /\ seen[z][Hash(<<w, z>>)].rec[y] = Hash(<<w, y>>)
<1>1. Requires(s, w)
  BY DEF Tells
<1>2. PICK c : c = seen[w][cur[w]]
  OBVIOUS
<1>3. w \in Files /\ w \in Made /\ cur[w] > 0 /\ cur[w] \in DOMAIN seen[w]
      /\ c.status = "ready" /\ Worth(w, c)
  BY <1>1, <1>2, RequiredReady
<1>4. DOMAIN c.rec = Records[w]
  BY <1>3 DEF Worth
<1>5. \A x \in Records[w] : Recorded(w, x) = c.rec[x]
  BY <1>2, <1>4 DEF Recorded
<1>6. CASE w = z
  <2>1. Hash(<<w, z>>) = cur[z]
    BY <1>6 DEF Hash
  <2>2. y # z
    BY <1>3, <1>6, ChainAssumption
  <2>3. Hash(<<w, y>>) = c.rec[y]
    BY <1>5, <1>6, <2>2 DEF Hash
  <2> QED
    BY <1>2, <1>3, <1>6, <2>1, <2>3
<1>7. CASE w # z
  <2>1. Trusted(w, z) /\ Claimed(w, z, y)
    BY <1>7 DEF Tells
  <2>2. z \in Records[w] /\ y \in Records[w] /\ w # y
    BY <2>1, ClaimedIs
  <2>3. Hash(<<w, z>>) = c.rec[z] /\ Hash(<<w, y>>) = c.rec[y]
    BY <1>5, <1>7, <2>2 DEF Hash
  <2>4. Fits(c, z, y)
    BY <1>2, <1>3, <2>1, ClaimHolds
  <2>5. c.rec[z] \in DOMAIN seen[z]
        /\ (y \in DOMAIN seen[z][c.rec[z]].rec => seen[z][c.rec[z]].rec[y] = c.rec[y])
    BY <2>4 DEF Fits
  <2>6. seen[z] \in Seq(Held)
    BY StagesAreFiles DEF VouchInv, FilesOK
  <2>7. c.rec[z] > 0
    BY <2>5, <2>6
  <2>8. <<w, z>> \notin Unread
    BY <2>1 DEF Trusted
  <2>9. Sound(z, c.rec[z])
    BY <1>3, <1>4, <2>2, <2>7, <2>8 DEF Worth
  <2>10. DOMAIN seen[z][c.rec[z]].rec = Records[z]
    BY <2>9 DEF Sound
  <2> QED
    BY <2>3, <2>5, <2>10
<1> QED
  BY <1>6, <1>7

LEMMA HashOfPair ==
  ASSUME NEW a
  PROVE  Hash(a) = Hash(<<a[1], a[2]>>)
BY DEF Hash

LEMMA ComparedIs ==
  ASSUME NEW s, Passes(s), NEW a, NEW b, Compared(s, a, b)
  PROVE  Hash(a) = Hash(b)
<1>1. CASE a = b
  BY <1>1
<1>2. CASE <<a, b>> \in Stage[s].agree
  BY <1>2 DEF Passes
<1>3. CASE <<b, a>> \in Stage[s].agree
  BY <1>3 DEF Passes
<1> QED
  BY <1>1, <1>2, <1>3 DEF Compared

LEMMA FollowsIs ==
  ASSUME VouchInv, TiedInv, NEW s \in Made, Runnable(s), Passes(s),
         NEW a, NEW b, Follows(s, a, b)
  PROVE  Hash(a) = Hash(b)
<1>1. PICK z \in Own :
        /\ a[2] = b[2] /\ a[2] \in Records[z]
        /\ Compared(s, <<a[1], z>>, <<b[1], z>>)
        /\ Tells(s, a[1], z, a[2]) /\ Tells(s, b[1], z, a[2])
  BY DEF Follows
<1>2. PICK y : y = a[2]
  OBVIOUS
<1>3. seen[z][Hash(<<a[1], z>>)].rec[y] = Hash(<<a[1], y>>)
  BY <1>1, <1>2, TellsIs
<1>4. seen[z][Hash(<<b[1], z>>)].rec[y] = Hash(<<b[1], y>>)
  BY <1>1, <1>2, TellsIs
<1>5. Hash(<<a[1], z>>) = Hash(<<b[1], z>>)
  BY <1>1, ComparedIs
<1>6. Hash(<<a[1], y>>) = Hash(<<b[1], y>>)
  BY <1>3, <1>4, <1>5
<1> QED
  BY <1>1, <1>2, <1>6, HashOfPair

\* Two references that the tables make one hash are one when the stage passes.
LEMMA OneHashIs ==
  ASSUME VouchInv, TiedInv, NEW s \in Made, Runnable(s), Passes(s),
         NEW a, NEW b, OneHash(s, a, b)
  PROVE  Hash(a) = Hash(b)
<1>1. PICK c : Settled(s, a, c) /\ Settled(s, c, b)
  BY DEF OneHash
<1>2. Hash(a) = Hash(c)
  BY <1>1, ComparedIs, FollowsIs DEF Settled
<1>3. Hash(c) = Hash(b)
  BY <1>1, ComparedIs, FollowsIs DEF Settled
<1> QED
  BY <1>2, <1>3

\* The artifact of a run that passes fits what it records.
LEMMA RunFits ==
  ASSUME VouchInv, TiedInv, NEW s \in Made, Runnable(s), Passes(s),
         NEW contents, Writes(contents), Put(contents),
         \A t \in Stage[s].writes : t \in DOMAIN contents /\ contents[t] = Rendered(s),
         NEW x, NEW y, Claimed(s, x, y),
         NEW c, c.rec[x] = RunHash(s, x), c.rec[y] = RunHash(s, y)
  PROVE  Fits(c, x, y)'
<1> DEFINE keeps == Stage[s].keeps
<1>1. /\ x \in DOMAIN keeps /\ y \in DOMAIN keeps /\ y \in Records[x] /\ x \in Files
      /\ <<x, y>> \in Related[s] /\ x # y
  <2>1. Records[s] = DOMAIN keeps
    BY StageFacts
  <2>2. x \in Files /\ y \in Records[x]
    BY ClaimedIs
  <2>3. x # y
    BY <2>2, ChainAssumption
  <2> QED
    BY <2>1, <2>2, <2>3, ClaimedIs
<1>2. Reconciles(s, x, y)
  <2>1. <<x, y>>[1] = x /\ <<x, y>>[2] = y
    OBVIOUS
  <2> QED
    BY <1>1, <2>1, ReconcilingAssumption
<1>3. FilesOK /\ seen[x] \in Seq(Held)
  BY <1>1 DEF VouchInv, FilesOK
<1>4. y \notin Stage[s].writes
  BY <1>2 DEF Reconciles
<1>5. c.rec[y] = Hash(keeps[y])
  BY <1>4 DEF RunHash
<1>6. CASE x \in Stage[s].writes
  <2>1. keeps[x] = <<x, x>> /\ y \in Stage[s].from /\ OneHash(s, keeps[y], <<y, y>>)
    BY <1>2, <1>6 DEF Reconciles
  <2>2. contents[x] = Rendered(s) /\ x \in DOMAIN contents
    BY <1>6
  <2>3. /\ cur'[x] = VersionOf(x, Rendered(s)) /\ cur'[x] \in DOMAIN seen'[x]
        /\ seen'[x][cur'[x]] = Rendered(s)
    BY <1>1, <1>3, <2>2, PutFile
  <2>4. c.rec[x] = cur'[x]
    BY <1>6, <2>1, <2>3 DEF RunHash
  <2>5. Rendered(s).rec[y] = cur[y]
    BY <2>1 DEF Rendered, Content
  <2>6. Hash(keeps[y]) = cur[y]
    <3>1. Hash(keeps[y]) = Hash(<<y, y>>)
      BY <2>1, OneHashIs
    <3> QED
      BY <3>1 DEF Hash
  <2> QED
    BY <1>5, <2>3, <2>4, <2>5, <2>6 DEF Fits
<1>7. CASE x \notin Stage[s].writes
  <2>1. PICK w \in Files :
          /\ (w = x /\ x \in Stage[s].reads) \/ (Requires(s, w) /\ Claimed(w, x, y))
          /\ OneHash(s, keeps[x], <<w, x>>) /\ OneHash(s, keeps[y], <<w, y>>)
    BY <1>2, <1>7 DEF Reconciles
  <2>2. c.rec[x] = Hash(<<w, x>>)
    <3>1. c.rec[x] = Hash(keeps[x])
      BY <1>7 DEF RunHash
    <3> QED
      BY <2>1, <3>1, OneHashIs
  <2>3. c.rec[y] = Hash(<<w, y>>)
    BY <1>5, <2>1, OneHashIs
  <2> SUFFICES Fits(c, x, y)
    BY <1>1, <1>3, FitsKept
  <2>4. CASE w = x /\ x \in Stage[s].reads
    <3>1. c.rec[x] = cur[x] /\ cur[x] > 0
      BY <2>2, <2>4 DEF Hash, Runnable
    <3>2. cur[x] \in DOMAIN seen[x]
      BY <1>1, <1>3, <3>1 DEF FilesOK
    <3>3. c.rec[y] = Recorded(x, y)
      BY <1>1, <2>3, <2>4 DEF Hash
    <3> QED
      BY <3>1, <3>2, <3>3 DEF Fits, Recorded
  <2>5. CASE Requires(s, w) /\ Claimed(w, x, y)
    <3>1. PICK d : d = seen[w][cur[w]]
      OBVIOUS
    <3>2. cur[w] \in DOMAIN seen[w] /\ d.status = "ready" /\ Worth(w, d)
      BY <2>5, <3>1, RequiredReady
    <3>3. Fits(d, x, y)
      BY <2>5, <3>1, <3>2, ClaimHolds
    <3>4. x \in Records[w] /\ y \in Records[w] /\ w # x /\ w # y
      BY <2>5, ClaimedIs
    <3>5. DOMAIN d.rec = Records[w]
      BY <3>2 DEF Worth
    <3>6. Hash(<<w, x>>) = d.rec[x] /\ Hash(<<w, y>>) = d.rec[y]
      BY <3>1, <3>4, <3>5 DEF Hash, Recorded
    <3> QED
      BY <2>2, <2>3, <3>3, <3>6 DEF Fits
  <2> QED
    BY <2>1, <2>4, <2>5
<1> QED
  BY <1>6, <1>7

LEMMA RunTied ==
  ASSUME VouchInv, TiedInv, NEW s \in Made, Runnable(s), NEW contents, contents = Outcome(s),
         Put(contents)
  PROVE  TiedInv'
<1>0. /\ s \in Files /\ Stage[s].writes \subseteq Files /\ s \notin Stage[s].writes
      /\ Stage[s].writes \cap Made = {} /\ FilesOK
  BY StageFacts, StagesAreFiles DEF VouchInv
<1>1. CASE Passes(s)
  <2>1. contents = [f \in Stage[s].writes \cup {s} |->
                      IF f = s THEN Written(s) ELSE Rendered(s)]
    BY <1>1 DEF Outcome, Result
  <2>2. /\ DOMAIN contents = Stage[s].writes \cup {s} /\ contents[s] = Written(s)
        /\ \A t \in Stage[s].writes : contents[t] = Rendered(s)
    BY <1>0, <2>1
  <2>3. Writes(contents)
    BY <1>0, <2>2, WrittenHeld, RenderedHeld DEF Writes
  <2>4. PICK c : c = Written(s)
    OBVIOUS
  <2>5. /\ DOMAIN Stage[s].keeps = Records[s]
        /\ \A x \in DOMAIN Stage[s].keeps : c.rec[x] = RunHash(s, x)
    BY <2>4, WrittenHeld, StageFacts
  <2>6. ASSUME NEW x, NEW y, Claimed(s, x, y) PROVE Fits(c, x, y)'
    <3>1. x \in Records[s] /\ y \in Records[s]
      BY <2>6, ClaimedIs
    <3> QED
      BY <1>1, <2>2, <2>3, <2>5, <2>6, <3>1, RunFits
  <2>7. Tied(s, c)'
    BY <2>6 DEF Tied
  <2>8. \A f \in DOMAIN contents \cap Made : Tied(f, contents[f])'
    BY <1>0, <2>2, <2>4, <2>7
  <2> QED
    BY <1>0, <2>3, <2>8, PutTied
<1>2. CASE ~Passes(s)
  <2>1. contents = [f \in {y \in {s} : Stage[s].onFailure /\ ~Broken(Stage[s].vital)}
                      |-> Blocked(s)]
    BY <1>2 DEF Outcome
  <2>2. \A f \in DOMAIN contents : f = s /\ contents[f] = Blocked(s)
    BY <2>1
  <2>3. Writes(contents)
    BY <1>0, <2>2, BlockedHeld DEF Writes
  <2>4. \A f \in DOMAIN contents : contents[f].status # "ready"
    BY <2>2, BlockedHeld
  <2>5. \A f \in DOMAIN contents \cap Made : Tied(f, contents[f])'
    BY <2>4 DEF Tied
  <2> QED
    BY <1>0, <2>3, <2>5, PutTied
<1> QED
  BY <1>1, <1>2

LEMMA KillTied ==
  ASSUME VouchInv, TiedInv, Kill
  PROVE  TiedInv'
<1>1. PICK i \in 1..next \cap 1..Len(Chain) :
        /\ Runnable(Chain[i])
        /\ \/ Put([t \in Stage[Chain[i]].writes |-> Rendered(Chain[i])])
           \/ Put(Result(Chain[i], Torn))
  BY DEF Kill
<1>2. PICK s \in Made : s = Chain[i]
  BY <1>1, ChainAssumption DEF Made
<1>3. /\ s \in Files /\ Stage[s].writes \subseteq Files /\ s \notin Stage[s].writes
      /\ Stage[s].writes \cap Made = {} /\ Runnable(s) /\ FilesOK
  BY <1>1, <1>2, StageFacts, StagesAreFiles DEF VouchInv
\* A torn artifact is not ready, and a text is no artifact.
<1>4. PICK contents :
        /\ Put(contents) /\ DOMAIN contents \subseteq Stage[s].writes \cup {s}
        /\ \A f \in DOMAIN contents : IF f = s THEN contents[f] = Torn
                                               ELSE contents[f] = Rendered(s)
  <2>1. CASE Put([t \in Stage[s].writes |-> Rendered(s)])
    <3>1. PICK contents : contents = [t \in Stage[s].writes |-> Rendered(s)] /\ Put(contents)
      BY <2>1
    <3> QED
      BY <1>3, <3>1
  <2>2. CASE Put(Result(s, Torn))
    <3>1. PICK contents :
            /\ contents = [f \in Stage[s].writes \cup {s} |-> IF f = s THEN Torn ELSE Rendered(s)]
            /\ Put(contents)
      BY <2>2 DEF Result
    <3> QED
      BY <3>1
  <2> QED
    BY <1>1, <1>2, <2>1, <2>2
<1>5. Writes(contents)
  BY <1>3, <1>4, RenderedHeld, TornHeld DEF Writes
<1>6. \A f \in DOMAIN contents \cap Made : Tied(f, contents[f])'
  <2> SUFFICES ASSUME NEW f \in DOMAIN contents \cap Made PROVE Tied(f, contents[f])'
    OBVIOUS
  <2>1. contents[f] = Torn
    BY <1>3, <1>4
  <2> QED
    BY <2>1, TornHeld DEF Tied
<1> QED
  BY <1>3, <1>4, <1>5, <1>6, PutTied

LEMMA OtherTied ==
  ASSUME VouchInv, TiedInv, OtherPut
  PROVE  TiedInv'
<1>1. PICK f \in Files \ Made, c \in Held : Put([g \in {f} |-> c])
  BY DEF OtherPut
<1>2. PICK contents : contents = [g \in {f} |-> c] /\ Put(contents)
  BY <1>1
<1>3. Writes(contents) /\ DOMAIN contents \cap Made = {}
  BY <1>2 DEF Writes
<1> QED
  BY <1>2, <1>3, PutTied DEF VouchInv

-----------------------------------------------------------------------------
(* The theorems.                                                            *)

LEMMA InitVouches == Init => VouchInv
<1> SUFFICES ASSUME Init PROVE VouchInv
  OBVIOUS
<1>1. ASSUME NEW f \in Files
      PROVE  /\ seen[f] \in Seq(Held) /\ cur[f] \in Nat /\ cur[f] <= Len(seen[f])
             /\ f \in Given => cur[f] > 0
             /\ \A v \in DOMAIN seen[f] :
                  Exists(seen[f][v]) /\ (f \in Made => Worth(f, seen[f][v]))
  <2>1. CASE f \in Given
    <3>1. PICK rec : rec = [x \in Carries[f] |-> 1]
      OBVIOUS
    <3>2. PICK c : c = [status |-> "ready", rec |-> rec, stamp |-> 0]
      OBVIOUS
    <3>3. seen[f] = << c >> /\ cur[f] = 1
      BY <2>1, <3>1, <3>2 DEF Init, Content
    <3>4. Carries[f] \subseteq Names /\ Carries[f] \cap Own = {} /\ f \notin Made
      BY <2>1, ChainAssumption DEF Names, Given, Own
    <3>5. rec \in [Carries[f] -> Nat]
      BY <3>1
    <3>6. rec \in Recs
      BY <3>4, <3>5 DEF Recs
    <3>7. c \in Held
      BY <3>2, <3>6 DEF Held, Status
    <3>8. DOMAIN c.rec = Carries[f]
      BY <3>1, <3>2
    <3>9. Exists(c)
      BY <3>4, <3>8 DEF Exists
    <3>10. seen[f] \in Seq(Held) /\ Len(seen[f]) = 1 /\ \A v \in DOMAIN seen[f] : seen[f][v] = c
      BY <3>3, <3>7
    <3> QED
      BY <3>3, <3>4, <3>9, <3>10
  <2>2. CASE f \notin Given
    BY <2>2 DEF Init
  <2> QED
    BY <2>1, <2>2
<1>2. seen = [f \in Files |-> seen[f]] /\ cur = [f \in Files |-> cur[f]]
  BY DEF Init
<1> QED
  BY <1>1, <1>2, StagesAreFiles DEF VouchInv, FilesOK

\* The place in the chain and the disturbances so far.
Positions == next \in 1..(Len(Chain) + 1) /\ faults \in 0..MaxFaults

LEMMA NextPositions == Positions /\ [Next]_vars => Positions'
<1> SUFFICES ASSUME Positions, [Next]_vars PROVE Positions'
  OBVIOUS
<1>1. Len(Chain) \in Nat /\ MaxFaults \in Nat
  BY ChainAssumption
<1>2. CASE Advance
  <2>1. next <= Len(Chain) /\ UNCHANGED faults /\ (next' = next + 1 \/ next' = 1)
    BY <1>2 DEF Advance
  <2> QED
    BY <1>1, <2>1 DEF Positions
<1>3. CASE Rerun \/ Kill \/ Remake \/ EditText
  <2>1. faults < MaxFaults /\ faults' = faults + 1 /\ UNCHANGED next
    BY <1>3 DEF Rerun, Kill, Remake, EditText, Disturb
  <2> QED
    BY <1>1, <2>1 DEF Positions
<1>4. CASE UNCHANGED vars
  BY <1>4 DEF vars, Positions
<1> QED
  BY <1>2, <1>3, <1>4 DEF Next

LEMMA NextVouches == VouchInv /\ Positions /\ [Next]_vars => VouchInv'
<1> SUFFICES ASSUME VouchInv, Positions, [Next]_vars PROVE VouchInv'
  OBVIOUS
<1>0. ASSUME NEW i \in 1..Len(Chain), Runnable(Chain[i]),
             \E contents \in {Outcome(Chain[i])} : Put(contents)
      PROVE  VouchInv'
  <2>1. Chain[i] \in Made
    BY <1>0, ChainAssumption DEF Made
  <2>2. PICK contents : contents = Outcome(Chain[i]) /\ Put(contents)
    BY <1>0
  <2> QED
    BY <1>0, <2>1, <2>2, RunVouches
<1>1. CASE Advance
  <2>1. next \in 1..Len(Chain)
    BY <1>1, ChainAssumption DEF Advance, Positions
  <2>2. Runnable(Chain[next]) /\ \E contents \in {Outcome(Chain[next])} : Put(contents)
    BY <1>1 DEF Advance
  <2> QED
    BY <1>0, <2>1, <2>2
<1>2. CASE Rerun
  <2>1. PICK i \in 1..(next - 1) :
          Runnable(Chain[i]) /\ \E contents \in {Outcome(Chain[i])} : Put(contents)
    BY <1>2 DEF Rerun
  <2>2. i \in 1..Len(Chain)
    BY <2>1, ChainAssumption DEF Positions
  <2> QED
    BY <1>0, <2>1, <2>2
<1>3. CASE Kill
  BY <1>3, KillVouches
<1>4. CASE Remake
  BY <1>4, RemakePuts, OtherVouches
<1>5. CASE EditText
  BY <1>5, EditPuts, OtherVouches
<1>6. CASE UNCHANGED vars
  BY <1>6 DEF vars, VouchInv, FilesOK, Exists, Worth, Sound, CopiesEvenFailed
<1> QED
  BY <1>1, <1>2, <1>3, <1>4, <1>5, <1>6 DEF Next

LEMMA AlwaysVouches == Spec => [](VouchInv /\ Positions)
<1>1. Init => VouchInv /\ Positions
  BY InitVouches, ChainAssumption DEF Init, Positions
<1>2. (VouchInv /\ Positions) /\ [Next]_vars => (VouchInv /\ Positions)'
  BY NextVouches, NextPositions
<1> QED
  BY <1>1, <1>2, PTL DEF Spec

LEMMA InitTied == Init => TiedInv
<1> SUFFICES ASSUME Init, NEW f \in Made PROVE DOMAIN seen[f] = {}
  BY DEF TiedInv
<1>1. f \in Files /\ f \notin Given
  BY StageFacts DEF Given, Own
<1>2. seen[f] = << >>
  BY <1>1 DEF Init
<1> QED
  BY <1>2

LEMMA NextTied == VouchInv /\ TiedInv /\ Positions /\ [Next]_vars => TiedInv'
<1> SUFFICES ASSUME VouchInv, TiedInv, Positions, [Next]_vars PROVE TiedInv'
  OBVIOUS
<1>0. ASSUME NEW i \in 1..Len(Chain), Runnable(Chain[i]),
             \E contents \in {Outcome(Chain[i])} : Put(contents)
      PROVE  TiedInv'
  <2>1. Chain[i] \in Made
    BY <1>0, ChainAssumption DEF Made
  <2>2. PICK contents : contents = Outcome(Chain[i]) /\ Put(contents)
    BY <1>0
  <2> QED
    BY <1>0, <2>1, <2>2, RunTied
<1>1. CASE Advance
  <2>1. next \in 1..Len(Chain)
    BY <1>1, ChainAssumption DEF Advance, Positions
  <2>2. Runnable(Chain[next]) /\ \E contents \in {Outcome(Chain[next])} : Put(contents)
    BY <1>1 DEF Advance
  <2> QED
    BY <1>0, <2>1, <2>2
<1>2. CASE Rerun
  <2>1. PICK i \in 1..(next - 1) :
          Runnable(Chain[i]) /\ \E contents \in {Outcome(Chain[i])} : Put(contents)
    BY <1>2 DEF Rerun
  <2>2. i \in 1..Len(Chain)
    BY <2>1, ChainAssumption DEF Positions
  <2> QED
    BY <1>0, <2>1, <2>2
<1>3. CASE Kill
  BY <1>3, KillTied
<1>4. CASE Remake
  BY <1>4, RemakePuts, OtherTied
<1>5. CASE EditText
  BY <1>5, EditPuts, OtherTied
<1>6. CASE UNCHANGED vars
  BY <1>6 DEF vars, TiedInv, Tied, Fits
<1> QED
  BY <1>1, <1>2, <1>3, <1>4, <1>5, <1>6 DEF Next

LEMMA AlwaysTied == Spec => [](VouchInv /\ TiedInv /\ Positions)
<1>1. Init => VouchInv /\ TiedInv /\ Positions
  BY InitVouches, InitTied, ChainAssumption DEF Init, Positions
<1>2. (VouchInv /\ TiedInv /\ Positions) /\ [Next]_vars
        => (VouchInv /\ TiedInv /\ Positions)'
  BY NextVouches, NextTied, NextPositions
<1> QED
  BY <1>1, <1>2, PTL DEF Spec

\* A claim of an artifact that is ready now.
LEMMA TiedAgrees ==
  ASSUME VouchInv, TiedInv, NEW f \in Made, Ready(f), NEW pair \in Related[f],
         Claimed(f, pair[1], pair[2])
  PROVE  Agree(f, pair[1], pair[2])
<1>1. PICK x, y : x = pair[1] /\ y = pair[2]
  OBVIOUS
<1>2. PICK c : c = seen[f][cur[f]]
  OBVIOUS
<1>3. f \in Files /\ cur[f] > 0 /\ c.status = "ready"
  BY <1>2, StageFacts DEF Ready
<1>4. cur[f] \in DOMAIN seen[f] /\ Worth(f, c)
  BY <1>2, <1>3, Present
<1>5. Fits(c, x, y)
  BY <1>1, <1>2, <1>3, <1>4, ClaimHolds
<1>6. x \in Records[f] /\ y \in Records[f] /\ DOMAIN c.rec = Records[f]
  BY <1>1, <1>3, <1>4, ClaimedIs DEF Worth
<1>7. Recorded(f, x) = c.rec[x] /\ Recorded(f, y) = c.rec[y]
  BY <1>2, <1>6 DEF Recorded
<1>8. Agree(f, x, y)
  BY <1>5, <1>7 DEF Fits, Agree
<1> QED
  BY <1>1, <1>8

\* At every moment a file has at most one content, and the hashes that the
\* artifacts record are those of contents there have been.
THEOREM ChainTyped == Spec => []ChainTypeOK
<1>1. VouchInv /\ Positions => ChainTypeOK
  <2> SUFFICES ASSUME VouchInv, Positions PROVE ChainTypeOK
    OBVIOUS
  <2>1. ASSUME NEW f \in Files, NEW v \in DOMAIN seen[f]
        PROVE  /\ seen[f][v].status \in Status
               /\ \A x \in DOMAIN seen[f][v].rec \cap Own :
                    seen[f][v].rec[x] \in 0..Len(seen[x])
    <3>1. seen[f][v] \in Held /\ Exists(seen[f][v])
      BY DEF VouchInv, FilesOK
    <3>2. \A x \in DOMAIN seen[f][v].rec : seen[f][v].rec[x] \in Nat
      BY <3>1 DEF Held, Recs
    <3>3. \A x \in Own : Len(seen[x]) \in Nat
      BY StagesAreFiles DEF VouchInv, FilesOK
    <3>4. seen[f][v].status \in Status
      BY <3>1 DEF Held
    <3> QED
      BY <3>1, <3>2, <3>3, <3>4 DEF Exists
  <2>2. ASSUME NEW f \in Files PROVE cur[f] \in 0..Len(seen[f])
    BY DEF VouchInv, FilesOK
  <2> QED
    BY <2>1, <2>2 DEF ChainTypeOK, Positions
<1> QED
  BY <1>1, AlwaysVouches, PTL

\* Whatever was edited, rerun or killed, an artifact that is ready vouches only
\* for artifacts that were ready and texts that were rendered.
THEOREM ChainVouches == Spec => []VouchesForReady
<1>1. VouchInv => VouchesForReady
  <2> SUFFICES ASSUME VouchInv, NEW f \in Made, Ready(f), NEW x \in Records[f] \cap Own,
                      Recorded(f, x) > 0, <<f, x>> \notin Unread
               PROVE  /\ seen[x][Recorded(f, x)].status = "ready"
                      /\ DOMAIN seen[x][Recorded(f, x)].rec = Records[x]
    BY DEF VouchesForReady
  <2>1. f \in Files /\ cur[f] > 0 /\ seen[f][cur[f]].status = "ready"
    BY StageFacts DEF Ready
  <2>2. Worth(f, seen[f][cur[f]])
    BY <2>1, Present
  <2>3. x \in DOMAIN seen[f][cur[f]].rec /\ seen[f][cur[f]].rec[x] = Recorded(f, x)
    BY <2>1, <2>2 DEF Worth, Recorded
  <2>4. Sound(x, Recorded(f, x))
    BY <2>1, <2>2, <2>3 DEF Worth
  <2> QED
    BY <2>4 DEF Sound
<1> QED
  BY <1>1, AlwaysVouches, PTL

\* Whatever was edited, rerun or killed, and however often: an artifact that is
\* ready stands for one text.
THEOREM ChainSameContent == Spec => []SameContent
<1>1. VouchInv /\ TiedInv => SameContent
  <2> SUFFICES ASSUME VouchInv, TiedInv, NEW f \in Made, Ready(f), NEW pair \in Related[f],
                      pair[2] \in Contents, <<f, pair[1]>> \notin Mixed
               PROVE  Agree(f, pair[1], pair[2])
    BY DEF SameContent
  <2>1. \E x, y : pair = <<x, y>>
    BY StageFacts DEF Related
  <2>2. Claimed(f, pair[1], pair[2])
    BY <2>1 DEF Claimed
  <2> QED
    BY <2>2, TiedAgrees
<1> QED
  BY <1>1, AlwaysTied, PTL

\* Likewise: an artifact that is ready agrees with the artifacts and texts it
\* records, but for those that its stage does not reconcile.
THEOREM ChainCoherent == Spec => []Coherent
<1>1. VouchInv /\ TiedInv => Coherent
  <2> SUFFICES ASSUME VouchInv, TiedInv, NEW f \in Made, Ready(f), NEW pair \in Related[f],
                      <<f, pair[1]>> \notin Loose
               PROVE  Agree(f, pair[1], pair[2])
    BY DEF Coherent
  <2>1. \E x, y : pair = <<x, y>>
    BY StageFacts DEF Related
  <2>2. Claimed(f, pair[1], pair[2])
    BY <2>1 DEF Claimed
  <2> QED
    BY <2>2, TiedAgrees
<1> QED
  BY <1>1, AlwaysTied, PTL
=============================================================================
