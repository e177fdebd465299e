--------------------------- MODULE ArtifactChain ---------------------------
(***************************************************************************)
(* How a chain of retrieval-context commands runs over the files of a run  *)
(* directory: internal/retrievalcontext and its deonctl handlers.  Every   *)
(* command (a stage) reads artifacts that earlier ones wrote, compares the *)
(* SHA-256 hashes recorded in them with each other and with the files      *)
(* present, and writes an artifact that records hashes for the next one.   *)
(* Which stage reads, compares and records what is data: the tables of     *)
(* ContextStages, ProviderStages and ActivationStages.  This module is what*)
(* all stages have in common, and what happens between two commands.       *)
(*                                                                         *)
(* A hash is the number of a version: two contents of a file have the same *)
(* hash iff they are the same content, so seen[f] lists the contents file  *)
(* f ever had and cur[f] is the number of the present one (0: no file).    *)
(***************************************************************************)
EXTENDS Naturals, Sequences

CONSTANTS
  Stage,      \* [name -> what the stage reads, compares, records and writes]
  Chain,      \* the order in which the operator takes the stages
  Carries,    \* [file made elsewhere -> the subjects whose hashes it records]
  MaxFaults,  \* bound: edits, stray reruns and kills in a behaviour
  Contents,   \* the rendered and materialized texts, among the files
  Unread,     \* the stages, each with an artifact it hashes and does not read
  Loose,      \* the stages, each with a subject: not all that the subject records
              \* is compared with what the stage records
  Mixed       \* likewise, and not even the texts the subject records are compared

Files == UNION {Stage[s].reads \cup {s} \cup Stage[s].writes : s \in DOMAIN Stage}

\* What a file holds: the status its readers test, the hashes it records,
\* and a stamp that tells apart contents with equal records (the time of an
\* approval, a hand edit).
Status == {"ready", "blocked", "broken"}
Content(status, rec, stamp) == [status |-> status, rec |-> rec, stamp |-> stamp]

VARIABLES
  next,    \* place in Chain of the stage to run
  cur,     \* [file -> number of its present version, 0 when absent]
  seen,    \* [file -> its contents so far]
  faults   \* disturbances so far

vars == <<next, cur, seen, faults>>

\* The artifacts the stages of the chain write, with the texts they render,
\* and the files they find.
Made == {Chain[i] : i \in DOMAIN Chain}
Own == Made \cup UNION {Stage[s].writes : s \in Made}
Given == (UNION {Stage[s].reads : s \in Made}) \ Own

-----------------------------------------------------------------------------
(* Hashes.  <<f, f>> is the hash of the file f as it is now, <<f, x>> the  *)
(* hash that f records for the subject x.                                   *)

Recorded(f, x) ==
  LET rec == seen[f][cur[f]].rec IN IF x \in DOMAIN rec THEN rec[x] ELSE 0

Hash(ref) == IF ref[1] = ref[2] THEN cur[ref[1]] ELSE Recorded(ref[1], ref[2])

\* The number content c has, or would get, among the versions of f.
VersionOf(f, c) ==
  LET Is(v) == seen[f][v] = c
  IN IF \E v \in DOMAIN seen[f] : Is(v)
       THEN CHOOSE v \in DOMAIN seen[f] : Is(v)
       ELSE Len(seen[f]) + 1

\* The files in the domain of contents now hold these contents.
Put(contents) ==
  /\ cur' = [f \in Files |-> IF f \in DOMAIN contents THEN VersionOf(f, contents[f])
                              ELSE cur[f]]
  /\ seen' = [f \in Files |->
                IF f \in DOMAIN contents /\ VersionOf(f, contents[f]) > Len(seen[f])
                  THEN Append(seen[f], contents[f]) ELSE seen[f]]

-----------------------------------------------------------------------------
(* Running one stage on the files present.                                  *)

Runnable(s) == \A f \in Stage[s].reads : cur[f] > 0

Broken(S) == \E f \in S : seen[f][cur[f]].status = "broken"

\* Mutation: an input that was cut short is taken as it is.
PassesUnparsed(s) ==
  /\ \A f \in Stage[s].ready : seen[f][cur[f]].status = "ready"
  /\ \A pair \in Stage[s].agree : Hash(pair[1]) = Hash(pair[2])

\* Mutation: the flags are tested and no hashes compared.
PassesUncompared(s) ==
  /\ ~Broken(Stage[s].parses)
  /\ \A f \in Stage[s].ready : seen[f][cur[f]].status = "ready"

\* Every artifact parsed is well formed, every flag the stage tests is set,
\* and every pair of hashes it compares is equal.
Passes(s) ==
  /\ ~Broken(Stage[s].parses)
  /\ \A f \in Stage[s].ready : seen[f][cur[f]].status = "ready"
  /\ \A pair \in Stage[s].agree : Hash(pair[1]) = Hash(pair[2])

\* The text a stage renders is determined by the texts it renders it from.
Rendered(s) == Content("ready", [f \in Stage[s].from |-> cur[f]], 0)

\* The artifact a stage writes.  The hash of the text it has just rendered
\* is among the hashes it records; an approval or request carries its time.
Written(s) ==
  LET of(ref) ==
        IF ref[1] = ref[2] /\ ref[1] \in Stage[s].writes
          THEN VersionOf(ref[1], Rendered(s)) ELSE Hash(ref)
  IN Content("ready", [x \in DOMAIN Stage[s].keeps |-> of(Stage[s].keeps[x])],
             IF Stage[s].timed THEN Len(seen[s]) ELSE 0)

Blocked(s) ==
  Content("blocked", [x \in DOMAIN Stage[s].keeps |-> Hash(Stage[s].keeps[x])], 0)

\* What running the stage leaves behind.  One that passes writes its text,
\* then the artifact c.  One that does not exits with an error: most leave the
\* files alone, the rest write the artifact with status failed.
Result(s, c) == [f \in Stage[s].writes \cup {s} |-> IF f = s THEN c ELSE Rendered(s)]
Outcome(s) ==
  IF Passes(s) THEN Result(s, Written(s))
  ELSE [f \in {x \in {s} : Stage[s].onFailure /\ ~Broken(Stage[s].vital)} |-> Blocked(s)]

-----------------------------------------------------------------------------
\* The operator has the artifacts of the earlier parts of the pipeline, each
\* as its command wrote it, and has run nothing of this chain.
Init ==
  /\ next = 1
  /\ cur = [f \in Files |-> IF f \in Given THEN 1 ELSE 0]
  /\ seen = [f \in Files |->
               IF f \in Given
                 THEN <<Content("ready", [x \in Carries[f] |-> 1], 0)>> ELSE <<>>]
  /\ faults = 0

\* The operator runs the next stage; when it refuses, the chain is taken
\* again from its first stage.
Advance ==
  /\ next <= Len(Chain)
  /\ Runnable(Chain[next])
  /\ \E contents \in {Outcome(Chain[next])} : Put(contents)
  /\ next' = IF Passes(Chain[next]) THEN next + 1 ELSE 1
  /\ UNCHANGED faults

Disturb == faults < MaxFaults /\ faults' = faults + 1 /\ UNCHANGED next

\* An earlier stage is run again on its own, by hand or by a script.
Rerun ==
  /\ Disturb
  /\ \E i \in 1..(next - 1) :
       /\ Runnable(Chain[i])
       /\ \E contents \in {Outcome(Chain[i])} : Put(contents)

\* A command is killed before it has written its artifact: with the text in
\* place and the artifact not yet, or in the middle of the artifact, which
\* os.WriteFile truncates and then fills.
Torn == Content("broken", << >>, 0)
Kill ==
  /\ Disturb
  /\ \E i \in 1..next \cap 1..Len(Chain) :
       /\ Runnable(Chain[i])
       /\ Passes(Chain[i])
       /\ \/ /\ Stage[Chain[i]].writes # {}
             /\ Put([t \in Stage[Chain[i]].writes |-> Rendered(Chain[i])])
          \/ Put(Result(Chain[i], Torn))

\* An input is edited, or made again by the part of the pipeline before this
\* chain, from the same sources or from others; or that is undone.
Remake ==
  /\ Disturb
  /\ \E f \in Given :
       \/ \E fresh \in {0, 1} :
            LET rec == [x \in Carries[f] |-> Recorded(f, x) + fresh]
            IN  Put([g \in {f} |-> Content("ready", rec, Len(seen[f]))])
       \/ \E v \in 1..(cur[f] - 1) : Put([g \in {f} |-> seen[f][v]])

\* A rendered text is edited by hand.
EditText ==
  /\ Disturb
  /\ \E t \in Own \ Made :
       cur[t] > 0 /\ Put([g \in {t} |-> Content("ready", << >>, Len(seen[t]))])

Next == Advance \/ Rerun \/ Kill \/ Remake \/ EditText

Spec == Init /\ [][Next]_vars

\* The operator keeps taking the chain.
FairSpec == Spec /\ WF_vars(Advance)
-----------------------------------------------------------------------------
(* The tables.                                                              *)

\* What an artifact or text of this chain can record of other files.
Records ==
  [f \in Files |->
     IF f \in DOMAIN Stage THEN DOMAIN Stage[f].keeps
     ELSE UNION {Stage[s].from : s \in {s \in Made : f \in Stage[s].writes}}]

\* Stage s goes on only if the artifact f of this chain is whole and ready: it
\* tests the flag, or parses an f that is never written with status failed.
NeverFails(f) == f \in Made /\ ~Stage[f].onFailure
Requires(s, f) ==
  f \in Made /\ f \in Stage[s].parses /\ (f \in Stage[s].ready \/ NeverFails(f))

\* What f records of x is worth something: f has compared it or relies on the
\* artifact that has.  A failed f may still copy it from one that cannot fail.
Trusted(f, x) == f \in Made /\ x \in DOMAIN Stage[f].keeps /\ <<f, x>> \notin Unread
CopiesEvenFailed(f, x) ==
  LET ref == Stage[f].keeps[x]
  IN  /\ f \in Made /\ x \in DOMAIN Stage[f].keeps
      /\ ref[1] # x /\ NeverFails(ref[1]) /\ Trusted(ref[1], x)

\* The hash of x that stage s records stands for an artifact that was ready or
\* a text that was rendered: s renders it, requires it, finds the file equal
\* to what a trusted artifact records, or copies what one records.
Vouches(s, x) ==
  LET ref == Stage[s].keeps[x]
  IN  \/ ref = <<x, x>> /\ x \in Stage[s].writes
      \/ ref = <<x, x>> /\ Requires(s, x)
      \/ /\ ref = <<x, x>>
         /\ \E f \in Made : /\ Requires(s, f) /\ Trusted(f, x)
                            /\ << <<f, x>>, <<x, x>> >> \in Stage[s].agree
      \/ ref[1] # x /\ Requires(s, ref[1]) /\ Trusted(ref[1], x)
      \/ ref[1] # x /\ CopiesEvenFailed(ref[1], x)

\* The pairs of subjects a file records of which one records the other.
Related ==
  [f \in Files |->
     UNION {{<<x, y>> : y \in Records[x] \cap Records[f]} : x \in Records[f]}]

\* What f says of y is what the version of x it records says of y.
Claimed(f, x, y) ==
  /\ f \in Made /\ <<x, y>> \in Related[f]
  /\ <<f, x>> \notin Loose \/ (y \in Contents /\ <<f, x>> \notin Mixed)

\* The hashes a and b are one, or s compares them.
Compared(s, a, b) == a = b \/ <<a, b>> \in Stage[s].agree \/ <<b, a>> \in Stage[s].agree

\* What w says of y stands in the version of z that w is, or refers to.
Tells(s, w, z, y) == Requires(s, w) /\ (w = z \/ (Trusted(w, z) /\ Claimed(w, z, y)))

\* Two artifacts that refer to one version of z say the same of what it records.
Follows(s, a, b) ==
  \E z \in Own :
    /\ a[2] = b[2] /\ a[2] \in Records[z]
    /\ Compared(s, <<a[1], z>>, <<b[1], z>>)
    /\ Tells(s, a[1], z, a[2]) /\ Tells(s, b[1], z, a[2])

\* When s passes, a and b are one hash: in at most two steps of either kind.
Settled(s, a, b) == Compared(s, a, b) \/ Follows(s, a, b)
OneHash(s, a, b) ==
  \E f \in Files : LET c == <<f, a[2]>> IN Settled(s, a, c) /\ Settled(s, c, b)

\* What s records of x and y fits together: it renders x from y, or the hashes
\* are those of a file x it reads, or of an artifact that claims they fit.
Reconciles(s, x, y) ==
  LET keeps == Stage[s].keeps
  IN  /\ y \notin Stage[s].writes
      /\ IF x \in Stage[s].writes
           THEN keeps[x] = <<x, x>> /\ y \in Stage[s].from /\ OneHash(s, keeps[y], <<y, y>>)
           ELSE \E w \in Files :
                  /\ (w = x /\ x \in Stage[s].reads) \/ (Requires(s, w) /\ Claimed(w, x, y))
                  /\ OneHash(s, keeps[x], <<w, x>>) /\ OneHash(s, keeps[y], <<w, y>>)

ASSUME ChainAssumption ==
  /\ Chain \in Seq(DOMAIN Stage)
  /\ MaxFaults \in Nat
  /\ \A f \in Given : Carries[f] \cap Own = {}
  /\ \A f \in Files : f \notin Records[f]
  /\ \A s \in Made :
       /\ Stage[s].parses \subseteq Stage[s].reads
       /\ Stage[s].from \subseteq Stage[s].reads
       /\ DOMAIN Stage[s].keeps \subseteq Files
       /\ Stage[s].writes \cap DOMAIN Stage = {}
       /\ \A r \in Made : r # s => Stage[r].writes \cap Stage[s].writes = {}
       /\ \A x \in DOMAIN Stage[s].keeps :
            /\ Stage[s].keeps[x][2] = x
            /\ Stage[s].keeps[x][1] \in Stage[s].reads \cup (Stage[s].writes \cap {x})

\* Every hash a stage records is vouched for, but for those listed in Unread.
ASSUME VouchingAssumption ==
  \A s \in Made : \A x \in DOMAIN Stage[s].keeps \cap Own :
    <<s, x>> \in Unread \/ Vouches(s, x)

\* The hashes a stage records fit together, but for those of Loose and Mixed.
ASSUME ReconcilingAssumption ==
  \A s \in Made : \A pair \in Related[s] :
    Claimed(s, pair[1], pair[2]) => Reconciles(s, pair[1], pair[2])

-----------------------------------------------------------------------------
(* Properties.                                                              *)

Ready(f) == cur[f] > 0 /\ seen[f][cur[f]].status = "ready"

\* The version of x that f records says of y what f says of y.
Agree(f, x, y) ==
  LET v == Recorded(f, x)
  IN v \in DOMAIN seen[x] /\ y \in DOMAIN seen[x][v].rec => seen[x][v].rec[y] = Recorded(f, y)

\* Every file has at most one present content, artifacts record versions that
\* exist, and nothing else is recorded.
ChainTypeOK ==
  /\ next \in 1..(Len(Chain) + 1)
  /\ faults \in 0..MaxFaults
  /\ \A f \in Files :
       /\ cur[f] \in 0..Len(seen[f])
       /\ \A v \in DOMAIN seen[f] :
            /\ seen[f][v].status \in Status
            /\ \A x \in DOMAIN seen[f][v].rec \cap Own :
                 seen[f][v].rec[x] \in 0..Len(seen[x])

\* Whatever was edited, rerun or killed in between, an artifact that is ready
\* stands for one text: every artifact it records by hash was made for the
\* materialized context, the prompt and the payload it records itself, though
\* no stage compares more than a few of these hashes.  Exempt are the artifacts
\* whose texts the stage does not compare (Mixed).
SameContent ==
  \A f \in Made : Ready(f) =>
    \A pair \in Related[f] :
      pair[2] \in Contents /\ <<f, pair[1]>> \notin Mixed => Agree(f, pair[1], pair[2])

\* An artifact that is ready agrees with the artifacts and texts it records on
\* every file that both record, the approvals, policies and plans included; but
\* for the artifacts whose records the stage does not compare (Loose).
Coherent ==
  \A f \in Made : Ready(f) =>
    \A pair \in Related[f] : <<f, pair[1]>> \notin Loose => Agree(f, pair[1], pair[2])

\* An artifact that is ready vouches only for artifacts that were ready and
\* texts that were rendered: never for one that failed, was torn by a kill or
\* was edited by hand.
VouchesForReady ==
  \A f \in Made : Ready(f) => \A x \in Records[f] \cap Own :
    Recorded(f, x) > 0 /\ <<f, x>> \notin Unread =>
      LET c == seen[x][Recorded(f, x)]
      IN c.status = "ready" /\ DOMAIN c.rec = Records[x]

\* The chain has no dead end: whatever state edits, reruns and kills leave the
\* files in, taking the stages again in order gets through.
Completes == <>(next > Len(Chain))
=============================================================================
