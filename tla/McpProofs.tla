------------------------------ MODULE McpProofs ------------------------------
(***************************************************************************)
(* What McpSession.tla and McpApproval.tla promise, for every registry,    *)
(* policy and bound.                                                       *)
(*                                                                         *)
(* The exchange: the lines in the two pipes stand in the order of the      *)
(* requests they carry or answer, all of them after the last line taken    *)
(* and none after the request at hand, so that the next line, if it        *)
(* answers a request at all, answers that one.  The command: what each of  *)
(* the files was when it was loaded, compared and hashed for the bundle,   *)
(* unless somebody edited it since the command started.                    *)
(***************************************************************************)
EXTENDS McpApproval, SequenceTheorems, TLAPS

-----------------------------------------------------------------------------
Requests == 1 .. Len(Methods(kind))
Asked == {Methods(kind)[i] : i \in Requests}

\* Which request of the session a line is about.
Place(m) == CASE m = "initialize" -> 1 [] m = "tools/list" -> 2 [] m = "tools/call" -> 3
              [] OTHER -> Len(Methods(kind))
Real(line) == line.re # "none"

\* The last request that has been sent, while the exchange goes on.
Limit == IF client = "sending" THEN step - 1 ELSE step
About(m) == m \in Asked /\ Place(m) <= Limit

\* Every line in a pipe is about a request that was sent, later than the ones ahead of it.
Bounded ==
    /\ \A i \in 1 .. Len(stdout) : Real(stdout[i]) => About(stdout[i].re)
    /\ \A i \in 1 .. Len(stdin) : About(stdin[i])
Ordered ==
    /\ \A i, j \in 1 .. Len(stdout) : i < j /\ Real(stdout[i]) /\ Real(stdout[j]) =>
         Place(stdout[i].re) < Place(stdout[j].re)
    /\ \A i \in 1 .. Len(stdout), j \in 1 .. Len(stdin) : Real(stdout[i]) =>
         Place(stdout[i].re) < Place(stdin[j])
    /\ \A i, j \in 1 .. Len(stdin) : i < j => Place(stdin[i]) < Place(stdin[j])

\* And so is the last line taken.
Latest == taken[Len(taken)]
AfterLatest ==
    Len(taken) > 0 /\ Real(Latest) =>
        /\ About(Latest.re)
        /\ \A j \in 1 .. Len(stdout) : Real(stdout[j]) => Place(Latest.re) < Place(stdout[j].re)
        /\ \A j \in 1 .. Len(stdin) : Place(Latest.re) < Place(stdin[j])

Exchanging == client \in {"sending", "waiting"}
Paired == ~runErr /\ Len(taken) = step - 1 /\ Bounded /\ Ordered /\ AfterLatest
ToolListed == Calls(kind) /\ step >= 3 => taken[2].re = "tools/list"
CallAnswered == Calls(kind) /\ Len(taken) >= 3 => taken[3].re \in {"tools/call", "none"}
NoErrorTaken ==
    ~runErr => \A i \in 1 .. Len(taken) : taken[i].says # "garbled" /\ (kind # "smoke" => taken[i].says # "error")
Completed == ~runErr /\ client \in {"closing", "reaping"} => Len(taken) = Len(Methods(kind))

SessionInv ==
    /\ step <= Len(Methods(kind))
    /\ Exchanging => Paired /\ ToolListed
    /\ RecordedAnswer
    /\ CallAnswered
    /\ NoErrorTaken
    /\ Completed

-----------------------------------------------------------------------------
\* A command is a record whose fields are of these types, and stands at a step that its
\* operation has.
CommandFields == {"op", "at", "next", "draft", "id", "decision", "got", "hash", "proposal", "approval",
                  "status", "calls", "answer", "failed", "exit"}
FieldsOK(c) ==
    /\ DOMAIN c = CommandFields /\ DOMAIN c.got = Settings /\ DOMAIN c.hash = Settings
    /\ \A f \in Settings : c.got[f] \in Optional(Contents(f))
    /\ c.op \in Ops /\ c.exit \in {0, 1} /\ c.calls \in {0, 1} /\ c.answer \subseteq Lines
    /\ c.failed = TRUE \/ c.failed = FALSE
ConfigRead(c) ==
    \/ c.at \in {"decide", "hash", "plan"}
    \/ c.at = "load" /\ \E i \in 1 .. c.next - 1 : Loads(c.op)[i] = "config"
StageOK(c) ==
    /\ c.at \in {"load", "decide", "hash", "plan", "talk", "artifacts", "bundle", "write", "ended"}
    /\ c.next \in 1 .. 5
    /\ c.at = "load" => c.op # "new" /\ c.next <= Len(Loads(c.op))
    /\ c.at \in {"hash", "bundle"} => c.next <= 3
    /\ c.at = "decide" => c.op # "new"
    /\ c.at \in {"plan", "talk", "artifacts"} => c.op \in Talks
    /\ c.at = "ended" => c.op = "smoke"
    /\ c.op \in Talks /\ ConfigRead(c) => c.got["config"] \in Configs
WorldOK ==
    /\ DOMAIN files = Settings /\ \A f \in Settings : files[f] \in Optional(Contents(f))
    /\ edited \subseteq Settings /\ runs \in 0 .. MaxCommands
    /\ artifacts \in [result: 0..MaxCommands, response: 0..MaxCommands, answer: SUBSET Lines]
Connected == client # "off" <=> cmd.at = "talk"
CmdInv == FieldsOK(cmd) /\ StageOK(cmd) /\ WorldOK /\ Connected

\* A setting `execute` has loaded, compared with the approval, and hashed for the bundle is
\* still what it was then, if nobody edited it since.
Fresh(f) == Wanted(f) => cmd.got[f] = files[f] \/ f \in edited
Compared(f) ==
    \/ f \in edited
    \/ f # "policy" /\ cmd.approval.hash[f] = Absent
    \/ /\ cmd.approval.hash[f] = files[f]
       /\ f = "runtime" => "runtime" \in cmd.proposal.paths
Bundled(f) ==
    \/ f \in edited
    \/ f = "runtime" /\ "runtime" \notin cmd.proposal.paths
    \/ cmd.hash[f] = files[f]

LoadPlace(f) == CASE f = "config" -> 2 [] f = "policy" -> 3 [] f = "runtime" -> 4
HashPlace(f) == CASE f = "policy" -> 1 [] f = "config" -> 2 [] f = "runtime" -> 3

AllLoaded == \A f \in Settings : (At("load") => LoadPlace(f) < cmd.next) => Fresh(f)
Decided == At("load") \/ At("decide") \/ ApprovalMatches
AllCompared ==
    \A f \in Settings : ~At("load") /\ ~At("decide") /\ (At("hash") => HashPlace(f) < cmd.next) => Compared(f)
AllBundled ==
    \A f \in Settings : At("write") \/ (At("bundle") /\ HashPlace(f) < cmd.next) => Bundled(f)
TalksAdmitted == At("talk") => kind = "call" /\ Admits("call", cmd.got.policy, cmd.got.config, cmd.proposal)

Answered(lines) == \E line \in lines : line.re \in {"tools/call", "none"} /\ line.says # "error"
CallMade ==
    (At("artifacts") \/ At("bundle") \/ At("write")) /\ ~cmd.failed =>
        cmd.status = "succeeded" /\ cmd.calls = 1 /\ Answered(cmd.answer)
CallKept ==
    (At("bundle") \/ At("write")) /\ ~cmd.failed =>
        artifacts.result = runs /\ artifacts.response = runs /\ artifacts.answer = cmd.answer

ExecuteOK == AllLoaded /\ Decided /\ AllCompared /\ AllBundled /\ TalksAdmitted /\ CallMade /\ CallKept

IInv == SessionTypeOK /\ SessionInv /\ CmdInv /\ (cmd.op = "execute" => ExecuteOK)

-----------------------------------------------------------------------------
(* The exchange.                                                           *)

\* A session has three requests, or four with the call, and each is asked once, in its place.
LEMMA MethodsAreDistinct ==
    ASSUME kind \in Kinds
    PROVE  /\ Len(Methods(kind)) = 3 \/ Len(Methods(kind)) = 4
           /\ Methods(kind) \in Seq({"initialize", "tools/list", "tools/call", "shutdown"})
           /\ Calls(kind) => Len(Methods(kind)) = 4
           /\ \A i \in Requests : Place(Methods(kind)[i]) = i /\ Methods(kind)[i] \in Asked
           /\ \A m \in Asked : Place(m) \in Requests /\ Methods(kind)[Place(m)] = m
           /\ Methods(kind)[2] = "tools/list"
           /\ Calls(kind) => Methods(kind)[3] = "tools/call"
<1>1. Methods(kind) \in Seq({"initialize", "tools/list", "tools/call", "shutdown"})
  <2>1. CASE Calls(kind)
    BY <2>1 DEF Methods
  <2>2. CASE ~Calls(kind)
    BY <2>2 DEF Methods
  <2> QED  BY <2>1, <2>2
<1>2. /\ Len(Methods(kind)) = 3 \/ Len(Methods(kind)) = 4
      /\ Calls(kind) => Len(Methods(kind)) = 4
  BY DEF Methods, Calls
<1>3. \A i \in Requests : Place(Methods(kind)[i]) = i /\ Methods(kind)[i] \in Asked
  BY DEF Kinds, Calls, Methods, Place, Requests, Asked
<1>4. \A m \in Asked : Place(m) \in Requests /\ Methods(kind)[Place(m)] = m
  BY DEF Kinds, Calls, Methods, Place, Requests, Asked
<1>5. /\ Methods(kind)[2] = "tools/list"
      /\ Calls(kind) => Methods(kind)[3] = "tools/call"
  BY DEF Methods
<1> QED  BY <1>1, <1>2, <1>3, <1>4, <1>5

\* The type invariant in two parts, of which no prover does both at once.
Flags == fake \in BOOLEAN /\ expired \in BOOLEAN /\ runErr \in BOOLEAN /\ held \in BOOLEAN
Fields ==
    /\ kind \in Kinds /\ step \in 1..4
    /\ client \in {"off", "sending", "waiting", "closing", "reaping"}
    /\ server \in {"none", "running", "exited", "crashed", "killed"}
    /\ stdout \in Seq(Lines) /\ taken \in Seq(Lines)
    /\ stdin \in Seq({"initialize", "tools/list", "tools/call", "shutdown", "exit"})
    /\ noise \in 0..MaxNoise

\* The two together.
LEMMA TypeParts == SessionTypeOK <=> Flags /\ Fields
<1>1. {expired, runErr, held} \subseteq BOOLEAN
        <=> expired \in BOOLEAN /\ runErr \in BOOLEAN /\ held \in BOOLEAN
  OBVIOUS
<1> QED  BY ONLY <1>1, Zenon DEF SessionTypeOK, Flags, Fields

\* Nothing of the old exchange matters when another is opened, and nothing is left of one
\* that is forgotten.
LEMMA OpenInv ==
    ASSUME NEW k \in Kinds, NEW isFake \in BOOLEAN, MaxNoise \in Nat, Open(k, isFake)
    PROVE  SessionTypeOK' /\ SessionInv'
<1>1. Flags'
  BY DEF Open, Flags
<1>2. Fields'
  BY DEF Open, Fields
<1>3. SessionInv'
  BY DEF Open, SessionInv, Exchanging, Paired, ToolListed, RecordedAnswer, CallAnswered, NoErrorTaken, Completed,
         Bounded, Ordered, AfterLatest, Methods, Calls
<1> QED  BY <1>1, <1>2, <1>3, TypeParts, PTL

\* A session that is forgotten leaves nothing behind.
LEMMA ForgetInv ==
    ASSUME MaxNoise \in Nat, Forget
    PROVE  SessionTypeOK' /\ SessionInv'
<1>1. Flags'
  BY DEF Forget, Flags
<1>2. Fields'
  BY DEF Forget, Fields, Kinds
<1>3. SessionInv'
  BY DEF Forget, SessionInv, Exchanging, Paired, ToolListed, RecordedAnswer, CallAnswered, NoErrorTaken, Completed,
         Methods, Calls
<1> QED  BY <1>1, <1>2, <1>3, TypeParts, PTL

\* No session has been opened yet.
LEMMA SessionInitInv ==
    ASSUME MaxNoise \in Nat, SessionInit
    PROVE  SessionTypeOK /\ SessionInv
<1>1. Flags
  BY DEF SessionInit, Flags
<1>2. Fields
  BY DEF SessionInit, Fields, Kinds
<1>3. SessionInv
  BY DEF SessionInit, SessionInv, Exchanging, Paired, ToolListed, RecordedAnswer, CallAnswered, NoErrorTaken,
         Completed, Methods, Calls
<1> QED  BY <1>1, <1>2, <1>3, TypeParts

\* Every step of an exchange keeps the types of its flags.
LEMMA FlagTypes ==
    ASSUME Flags, SessionStep
    PROVE  Flags'
BY DEF Flags, SessionStep, ClientStep, ServerStep, Send, Receive, ReceiveNothing, SayExit, FakeServes, RealServes,
       RealNotifies, RealEnds, ChildEnds, Expire, KillServer, Orphans

\* And of its pipes, its place in the session and its two sides.
LEMMA FieldTypes ==
    ASSUME MaxNoise \in Nat, Fields, step <= Len(Methods(kind)), SessionStep
    PROVE  Fields'
<1> USE DEF Fields
<1>m. Methods(kind)[step] \in {"initialize", "tools/list", "tools/call", "shutdown"}
  BY MethodsAreDistinct
<1>k. Len(Methods(kind)) = 3 \/ Len(Methods(kind)) = 4
  BY MethodsAreDistinct
<1>o. \A x : x = 3 \/ x = 4 => x \in Nat /\ x <= 4
  OBVIOUS
<1>n. Len(Methods(kind)) \in Nat /\ Len(Methods(kind)) <= 4
  BY <1>k, <1>o
<1>1. CASE Send
  <2>1. ASSUME NEW m \in {"initialize", "tools/list", "tools/call", "shutdown"}
        PROVE  Append(stdin, m) \in Seq({"initialize", "tools/list", "tools/call", "shutdown", "exit"})
    OBVIOUS
  <2> QED  BY <1>1, <1>m, <2>1 DEF Send
<1>2. CASE Receive
  <2>1. stdout # <<>>
    BY <1>2 DEF Receive
  <2>2. Tail(stdout) \in Seq(Lines) /\ Append(taken, Head(stdout)) \in Seq(Lines)
    BY <2>1
  <2>3. (kind = kind' /\ step' \in {step, step + 1} /\ client' \in {"closing", "sending"}) /\ (step' > step => step # Len(Methods(kind)))
    BY <1>2 DEF Receive
  <2>4. step' \in 1..4
    BY <1>n, <2>3
  <2>5. stdout' = Tail(stdout) /\ taken' = Append(taken, Head(stdout)) /\ stdin' = stdin /\ server' = server /\ noise' = noise
    BY <1>2 DEF Receive
  <2>6. client' \in {"off", "sending", "waiting", "closing"} /\ kind' \in Kinds
    BY <2>3
  <2> QED  BY <2>2, <2>4, <2>5, <2>6
<1>3. CASE ReceiveNothing
  BY <1>3 DEF ReceiveNothing
<1>4. CASE SayExit
  BY <1>4 DEF SayExit
<1>5. CASE FakeServes
  <2>1. ASSUME NEW says \in FakeSays(Head(stdin)), stdin # <<>>, Head(stdin) # "exit"
        PROVE  Line(Head(stdin), says) \in Lines
    BY <2>1 DEF Line, Lines, Says, FakeSays
  <2>2. stdin # <<>>
    BY <1>5 DEF FakeServes
  <2>3. Tail(stdin) \in Seq({"initialize", "tools/list", "tools/call", "shutdown", "exit"})
    BY <2>2
  <2>4. ASSUME NEW line \in Lines
        PROVE  Append(stdout, line) \in Seq(Lines)
    OBVIOUS
  <2>5. stdout' \in Seq(Lines)
    BY <1>5, <2>1, <2>4 DEF FakeServes
  <2> QED  BY <1>5, <2>3, <2>5 DEF FakeServes
<1>6. CASE RealServes
  <2>1. ASSUME NEW says \in RealSays(Head(stdin)), stdin # <<>>, Head(stdin) # "exit"
        PROVE  Line(Head(stdin), says) \in Lines
    BY <2>1 DEF Line, Lines, Says, RealSays
  <2>2. stdin # <<>>
    BY <1>6 DEF RealServes
  <2>3. Tail(stdin) \in Seq({"initialize", "tools/list", "tools/call", "shutdown", "exit"})
    BY <2>2
  <2>4. ASSUME NEW line \in Lines
        PROVE  Append(stdout, line) \in Seq(Lines)
    OBVIOUS
  <2>5. stdout' \in Seq(Lines)
    BY <1>6, <2>1, <2>4 DEF RealServes
  <2> QED  BY <1>6, <2>3, <2>5 DEF RealServes
<1>7. CASE RealNotifies
  <2>1. Line("none", "result") \in Lines
    BY DEF Line, Lines, Says
  <2> QED  BY <1>7, <2>1 DEF RealNotifies
<1>8. CASE RealEnds
  BY <1>8 DEF RealEnds
<1>9. CASE ChildEnds
  BY <1>9 DEF ChildEnds
<1>10. CASE Expire
  BY <1>10 DEF Expire
<1>11. CASE KillServer
  BY <1>11 DEF KillServer
<1> QED  BY <1>1, <1>2, <1>3, <1>4, <1>5, <1>6, <1>7, <1>8, <1>9, <1>10, <1>11
         DEF SessionStep, ClientStep, ServerStep

\* The elements of a sequence, as its ends are moved.
LEMMA AppendElements ==
    ASSUME NEW S, NEW s \in Seq(S), NEW e \in S
    PROVE  /\ Len(s) \in Nat /\ Len(Append(s, e)) = Len(s) + 1 /\ Append(s, e)[Len(s) + 1] = e
           /\ \A i \in 1 .. Len(s) : Append(s, e)[i] = s[i]
OBVIOUS

\* What is left of a sequence whose head was taken.
LEMMA TailElements ==
    ASSUME NEW S, NEW s \in Seq(S), s # <<>>
    PROVE  /\ Len(s) \in Nat /\ Len(s) >= 1 /\ Head(s) = s[1] /\ Len(Tail(s)) = Len(s) - 1
           /\ \A i \in 1 .. Len(s) - 1 : Tail(s)[i] = s[i + 1]
OBVIOUS

\* A line in a pipe that is about no request, or about the one ahead of all that are still
\* to be served, keeps the order.
PipesInv == Bounded /\ Ordered /\ AfterLatest

\* The server takes a request and answers it, or not.
LEMMA ServeKeepsOrder ==
    ASSUME Fields, PipesInv, stdin # <<>>, stdin' = Tail(stdin),
           UNCHANGED <<kind, client, step, taken>>,
           \/ stdout' = stdout
           \/ \E says \in Says : Line(Head(stdin), says) \in Lines /\ stdout' = Append(stdout, Line(Head(stdin), says))
    PROVE  PipesInv'
<1> DEFINE n == Len(stdin)
           m == Len(stdout)
<1>t. stdin \in Seq({"initialize", "tools/list", "tools/call", "shutdown", "exit"}) /\ stdout \in Seq(Lines)
  BY DEF Fields
<1>1. n \in Nat /\ n >= 1 /\ Head(stdin) = stdin[1] /\ Len(stdin') = n - 1
      /\ \A i \in 1 .. n - 1 : stdin'[i] = stdin[i + 1]
  BY <1>t, TailElements
<1>m. m \in Nat
  BY <1>t
<1>u. Asked' = Asked /\ Limit' = Limit /\ Latest' = Latest /\ Len(taken') = Len(taken)
      /\ \A x : (Place(x))' = Place(x) /\ ((About(x))' <=> About(x))
  BY DEF Asked, Requests, Limit, Latest, Place, About
<1>2. CASE stdout' = stdout
  BY <1>1, <1>2, <1>u, <1>m DEF PipesInv, Bounded, Ordered, AfterLatest
<1>3. CASE \E says \in Says : Line(Head(stdin), says) \in Lines /\ stdout' = Append(stdout, Line(Head(stdin), says))
  <2>1. PICK says \in Says : Line(Head(stdin), says) \in Lines /\ stdout' = Append(stdout, Line(Head(stdin), says))
    BY <1>3
  <2>2. /\ Len(stdout') = m + 1 /\ stdout'[m + 1].re = stdin[1]
        /\ \A i \in 1 .. m : stdout'[i] = stdout[i]
    BY <1>t, <1>1, <2>1, AppendElements DEF Line
  <2> HIDE DEF n, m
  <2>3. Bounded'
    BY <1>1, <1>m, <1>u, <2>2 DEF PipesInv, Bounded, n, m
  <2>o. /\ \A i, j \in 1 .. m : i < j /\ Real(stdout[i]) /\ Real(stdout[j]) =>
              Place(stdout[i].re) < Place(stdout[j].re)
        /\ \A i \in 1 .. m, j \in 1 .. n : Real(stdout[i]) => Place(stdout[i].re) < Place(stdin[j])
        /\ \A i, j \in 1 .. n : i < j => Place(stdin[i]) < Place(stdin[j])
    BY DEF PipesInv, Ordered, n, m
  <2>p. Len(stdin') = n - 1 /\ \A i \in 1 .. n - 1 : stdin'[i] = stdin[i + 1]
    BY <1>1
  <2>q. \A x : (Place(x))' = Place(x)
    BY <1>u
  <2>4. Ordered'
    <3>1. \A i, j \in 1 .. Len(stdout') : i < j /\ Real(stdout'[i]) /\ Real(stdout'[j]) =>
            Place(stdout'[i].re) < Place(stdout'[j].re)
      BY <1>1, <1>m, <2>2, <2>o
    <3>2. \A i \in 1 .. Len(stdout'), j \in 1 .. Len(stdin') : Real(stdout'[i]) =>
            Place(stdout'[i].re) < Place(stdin'[j])
      BY <1>1, <1>m, <2>2, <2>o, <2>p
    <3>3. \A i, j \in 1 .. Len(stdin') : i < j => Place(stdin'[i]) < Place(stdin'[j])
      BY <1>1, <2>o, <2>p
    <3> QED  BY <2>q, <3>1, <3>2, <3>3 DEF Ordered, Real
  <2>5. AfterLatest'
    <3>1. ASSUME Len(taken) > 0, Real(Latest)
          PROVE  /\ About(Latest.re)
                 /\ \A j \in 1 .. m : Real(stdout[j]) => Place(Latest.re) < Place(stdout[j].re)
                 /\ \A j \in 1 .. n : Place(Latest.re) < Place(stdin[j])
      BY <3>1 DEF PipesInv, AfterLatest, n, m
    <3>2. ASSUME Len(taken) > 0, Real(Latest)
          PROVE  /\ \A j \in 1 .. Len(stdout') : Real(stdout'[j]) => Place(Latest.re) < Place(stdout'[j].re)
                 /\ \A j \in 1 .. Len(stdin') : Place(Latest.re) < Place(stdin'[j])
      BY <1>1, <1>m, <2>2, <2>p, <3>1, <3>2
    <3> QED  BY <1>u, <3>1, <3>2 DEF AfterLatest, Real
  <2> QED  BY <2>3, <2>4, <2>5 DEF PipesInv
<1> QED  BY <1>2, <1>3

\* A line that answers nothing has no place in the order.
LEMMA NotifyKeepsOrder ==
    ASSUME Fields, PipesInv, stdin' = stdin, Line("none", "result") \in Lines,
           stdout' = Append(stdout, Line("none", "result")),
           UNCHANGED <<kind, client, step, taken>>
    PROVE  PipesInv'
<1> DEFINE m == Len(stdout)
<1>t. stdin \in Seq({"initialize", "tools/list", "tools/call", "shutdown", "exit"}) /\ stdout \in Seq(Lines)
  BY DEF Fields
<1>u. Asked' = Asked /\ Limit' = Limit /\ Latest' = Latest /\ Len(taken') = Len(taken)
      /\ \A x : (Place(x))' = Place(x) /\ ((About(x))' <=> About(x))
  BY DEF Asked, Requests, Limit, Latest, Place, About
<1>2. /\ m \in Nat /\ Len(stdout') = m + 1 /\ ~Real(stdout'[m + 1])
      /\ \A i \in 1 .. m : stdout'[i] = stdout[i]
  BY <1>t, AppendElements DEF Line, Real
<1> HIDE DEF m
<1>3. Bounded'
  BY <1>u, <1>2 DEF PipesInv, Bounded, m
<1>4. Ordered'
  BY <1>u, <1>2 DEF PipesInv, Ordered, m
<1>5. AfterLatest'
  BY <1>u, <1>2 DEF PipesInv, AfterLatest, m
<1> QED  BY <1>3, <1>4, <1>5 DEF PipesInv

\* The request at hand is sent after all that is in the pipes.
LEMMA SendKeepsOrder ==
    ASSUME Fields, PipesInv, client = "sending", client' = "waiting", step \in Requests,
           stdin' = Append(stdin, Methods(kind)[step]), UNCHANGED <<kind, step, stdout, taken>>
    PROVE  PipesInv'
<1> DEFINE n == Len(stdin)
           m == Len(stdout)
           now == Methods(kind)[step]
<1>t. stdin \in Seq({"initialize", "tools/list", "tools/call", "shutdown", "exit"}) /\ stdout \in Seq(Lines)
      /\ kind \in Kinds /\ step \in 1 .. 4
  BY DEF Fields
<1>u. Asked' = Asked /\ Limit = step - 1 /\ Limit' = step /\ Latest' = Latest /\ Len(taken') = Len(taken)
      /\ \A x : (Place(x))' = Place(x)
  BY DEF Asked, Requests, Limit, Latest, Place
<1>n. now \in Asked /\ Place(now) = step /\ now \in {"initialize", "tools/list", "tools/call", "shutdown"}
      /\ \A x \in Asked : Place(x) \in Nat
  BY <1>t, MethodsAreDistinct DEF Requests
<1>a. \A x : About(x) => (About(x))' /\ Place(x) < step
  BY <1>t, <1>u, <1>n DEF About
<1>b. \A x : x = now => (About(x))'
  BY <1>t, <1>u, <1>n DEF About
<1>2. /\ n \in Nat /\ m \in Nat /\ Len(stdin') = n + 1 /\ stdin'[n + 1] = now
      /\ \A i \in 1 .. n : stdin'[i] = stdin[i]
  BY <1>t, <1>n, AppendElements
<1> HIDE DEF n, m, now
<1>3. Bounded'
  BY <1>u, <1>a, <1>b, <1>2 DEF PipesInv, Bounded, n, m
<1>4. Ordered'
  <2>1. \A i, j \in 1 .. Len(stdout') : i < j /\ Real(stdout'[i]) /\ Real(stdout'[j]) =>
          Place(stdout'[i].re) < Place(stdout'[j].re)
    BY DEF PipesInv, Ordered
  <2>2. ASSUME NEW i \in 1 .. m, NEW j \in 1 .. n + 1, Real(stdout[i])
        PROVE  Place(stdout[i].re) < Place(stdin'[j])
    <3>1. CASE j \in 1 .. n
      BY <1>2, <2>2, <3>1 DEF PipesInv, Ordered, n, m
    <3>2. CASE j = n + 1
      BY <1>a, <1>n, <1>2, <2>2, <3>2 DEF PipesInv, Bounded, m
    <3> QED  BY <1>2, <3>1, <3>2
  <2>3. ASSUME NEW i \in 1 .. n + 1, NEW j \in 1 .. n + 1, i < j
        PROVE  Place(stdin'[i]) < Place(stdin'[j])
    <3>1. CASE j \in 1 .. n
      BY <1>2, <2>3, <3>1 DEF PipesInv, Ordered, n
    <3>2. CASE j = n + 1
      BY <1>a, <1>n, <1>2, <2>3, <3>2 DEF PipesInv, Bounded, n
    <3> QED  BY <1>2, <3>1, <3>2
  <2> QED  BY <1>u, <1>2, <2>1, <2>2, <2>3 DEF Ordered, m
<1>5. AfterLatest'
  BY <1>t, <1>u, <1>a, <1>n, <1>2 DEF PipesInv, AfterLatest, n, m
<1> QED  BY <1>3, <1>4, <1>5 DEF PipesInv

\* A line taken is the new latest.
LEMMA ReceiveKeepsOrder ==
    ASSUME Fields, PipesInv, client = "waiting", client' = "sending", stdout # <<>>, stdout' = Tail(stdout),
           taken' = Append(taken, Head(stdout)), step' = step + 1, UNCHANGED <<kind, stdin>>
    PROVE  PipesInv'
<1> DEFINE n == Len(stdin)
           m == Len(stdout)
<1>t. stdin \in Seq({"initialize", "tools/list", "tools/call", "shutdown", "exit"}) /\ stdout \in Seq(Lines)
      /\ taken \in Seq(Lines) /\ kind \in Kinds /\ step \in 1 .. 4
  BY DEF Fields
<1>u. Asked' = Asked /\ Limit' = Limit
      /\ \A x : (Place(x))' = Place(x) /\ ((About(x))' <=> About(x))
  <2>1. Asked' = Asked /\ \A x : (Place(x))' = Place(x)
    BY DEF Asked, Requests, Place
  <2>2. Limit' = Limit
    BY <1>t DEF Limit
  <2> QED  BY <2>1, <2>2 DEF About
<1>2. /\ n \in Nat /\ m \in Nat /\ m >= 1 /\ Len(stdout') = m - 1 /\ Head(stdout) = stdout[1]
      /\ \A i \in 1 .. m - 1 : stdout'[i] = stdout[i + 1]
  BY <1>t, TailElements
<1>3. Head(stdout) \in Lines
  BY <1>t
<1>4. Latest' = stdout[1]
  BY <1>t, <1>2, <1>3, AppendElements DEF Latest
<1> HIDE DEF n, m
<1>5. Bounded'
  BY <1>u, <1>2 DEF PipesInv, Bounded, n, m
<1>6. Ordered'
  BY <1>u, <1>2 DEF PipesInv, Ordered, n, m
<1>7. AfterLatest'
  BY <1>u, <1>2, <1>4 DEF PipesInv, Bounded, Ordered, AfterLatest, n, m
<1> QED  BY <1>5, <1>6, <1>7 DEF PipesInv

\* Steps that leave the command's side alone.
Listens == UNCHANGED <<kind, client, step, taken, runErr>>

\* A step of the server: only the order of the pipes is at stake.
LEMMA ListenInv ==
    ASSUME SessionInv, Listens, Exchanging /\ PipesInv => PipesInv'
    PROVE  SessionInv'
<1>1. step <= Len(Methods(kind)) /\ RecordedAnswer /\ CallAnswered /\ NoErrorTaken /\ Completed
      /\ (Exchanging => Paired /\ ToolListed)
  BY DEF SessionInv
<1>2. (step <= Len(Methods(kind)) /\ RecordedAnswer /\ CallAnswered /\ NoErrorTaken /\ Completed)'
  BY <1>1 DEF Listens, RecordedAnswer, CallAnswered, NoErrorTaken, Completed
<1>3. (Exchanging => Paired /\ ToolListed)'
  <2> SUFFICES ASSUME Exchanging'
               PROVE  Paired' /\ ToolListed'
    OBVIOUS
  <2>1. Exchanging
    BY DEF Listens, Exchanging
  <2>2. PipesInv'
    BY <1>1, <2>1 DEF Paired, PipesInv
  <2>3. ToolListed'
    BY <1>1, <2>1 DEF Listens, ToolListed
  <2>4. ~runErr' /\ Len(taken') = step' - 1
    BY <1>1, <2>1 DEF Listens, Paired
  <2> QED  BY <2>2, <2>3, <2>4 DEF Paired, PipesInv
<1> QED  BY <1>2, <1>3 DEF SessionInv

\* A line that is taken is the answer to the request at hand, or to none.
LEMMA ReceiveInv ==
    ASSUME Fields, SessionInv, Receive
    PROVE  SessionInv'
<1> DEFINE line == stdout[1]
<1>t. stdout \in Seq(Lines) /\ taken \in Seq(Lines) /\ kind \in Kinds /\ step \in 1 .. 4
  BY DEF Fields
<1>1. /\ client = "waiting" /\ stdout # <<>> /\ stdout' = Tail(stdout) /\ taken' = Append(taken, Head(stdout))
      /\ UNCHANGED <<kind, stdin, server, fake, expired, held, noise>>
  BY DEF Receive
<1>2. line = Head(stdout) /\ line \in Lines /\ Len(stdout) \in Nat /\ Len(stdout) >= 1
  BY <1>t, <1>1, TailElements
<1>3. ~runErr /\ Len(taken) = step - 1 /\ PipesInv /\ ToolListed /\ RecordedAnswer /\ CallAnswered /\ NoErrorTaken
      /\ step <= Len(Methods(kind))
  BY <1>1 DEF SessionInv, Exchanging, Paired, PipesInv
<1>4. Len(taken') = step /\ taken'[step] = line /\ \A i \in 1 .. step - 1 : taken'[i] = taken[i]
  BY <1>t, <1>1, <1>2, <1>3, AppendElements
<1>5. \/ Refused(line) /\ runErr' = TRUE /\ client' = "closing" /\ step' = step
      \/ ~Refused(line) /\ runErr' = runErr /\ step = Len(Methods(kind)) /\ client' = "closing" /\ step' = step
      \/ ~Refused(line) /\ runErr' = runErr /\ step # Len(Methods(kind)) /\ client' = "sending" /\ step' = step + 1
  BY <1>2 DEF Receive
<1>6. /\ Len(Methods(kind)) \in Nat /\ step \in Requests /\ Methods(kind)[2] = "tools/list"
      /\ Calls(kind) => Len(Methods(kind)) = 4 /\ Methods(kind)[3] = "tools/call"
      /\ \A i \in Requests : Place(Methods(kind)[i]) = i /\ Methods(kind)[i] \in Asked
      /\ \A m \in Asked : Place(m) \in Requests /\ Methods(kind)[Place(m)] = m
  BY <1>t, <1>3, MethodsAreDistinct DEF Requests
<1>7. Real(line) => line.re \in Asked /\ Place(line.re) \in Nat /\ Place(line.re) <= step
                    /\ Methods(kind)[Place(line.re)] = line.re /\ 1 <= Place(line.re)
  BY <1>1, <1>2, <1>3, <1>6 DEF PipesInv, Bounded, About, Limit, Requests
<1>8. Real(line) /\ step > 1 /\ Real(taken[step - 1]) => Place(taken[step - 1].re) < Place(line.re)
  BY <1>t, <1>2, <1>3 DEF PipesInv, AfterLatest, Latest
<1>9. RecordedAnswer'
  <2> SUFFICES ASSUME NEW i \in 1 .. step, \A j \in 1 .. i : taken'[j].re # "none"
               PROVE  taken'[i].re = Methods(kind)[i]
    BY <1>t, <1>1, <1>4 DEF RecordedAnswer
  <2>1. CASE i < step
    <3>1. \A j \in 1 .. i : j \in 1 .. step - 1 /\ taken'[j] = taken[j]
      BY <1>t, <1>4, <2>1
    <3>2. DOMAIN taken = 1 .. step - 1 /\ i \in 1 .. i
      BY <1>t, <1>3
    <3>3. i \in DOMAIN taken /\ taken'[i] = taken[i] /\ \A j \in 1 .. i : taken'[j] = taken[j]
      BY <3>1, <3>2
    <3> QED  BY <1>3, <3>3 DEF RecordedAnswer
  <2>2. CASE i = step /\ step = 1
    BY <1>4, <1>7, <2>2 DEF Real
  <2>3. CASE i = step /\ step > 1
    <3>1. step - 1 \in DOMAIN taken /\ \A j \in 1 .. step - 1 : taken'[j] = taken[j]
      BY <1>t, <1>3, <1>4, <2>3
    <3>2. taken[step - 1].re = Methods(kind)[step - 1] /\ Real(taken[step - 1])
      BY <1>t, <1>3, <2>3, <3>1 DEF RecordedAnswer, Real
    <3>3. step - 1 \in Requests
      BY <1>t, <1>6, <2>3 DEF Requests
    <3>4. Real(line)
      BY <1>4, <2>3 DEF Real
    <3>5. Place(line.re) = step
      BY <1>t, <1>6, <1>7, <1>8, <2>3, <3>2, <3>3, <3>4
    <3> QED  BY <1>4, <1>7, <2>3, <3>4, <3>5
  <2> QED  BY <1>t, <2>1, <2>2, <2>3
<1>10. CallAnswered'
  <2> SUFFICES ASSUME Calls(kind), step >= 3
               PROVE  taken'[3].re \in {"tools/call", "none"}
    BY <1>1, <1>4 DEF CallAnswered
  <2>1. CASE step > 3
    BY <1>t, <1>3, <1>4, <2>1 DEF CallAnswered
  <2>2. CASE step = 3
    <3>1. taken[2].re = "tools/list" /\ Place("tools/list") = 2
      BY <1>3, <2>2 DEF ToolListed, Place
    <3>2. taken'[3] = line
      BY <1>4, <2>2
    <3>3. Real(line) => Place(line.re) = 3
      BY <1>7, <1>8, <2>2, <3>1 DEF Real
    <3> QED  BY <1>6, <1>7, <3>2, <3>3 DEF Real
  <2> QED  BY <1>t, <2>1, <2>2
<1>11. NoErrorTaken'
  <2> SUFFICES ASSUME ~runErr', NEW i \in 1 .. step
               PROVE  taken'[i].says # "garbled" /\ (kind # "smoke" => taken'[i].says # "error")
    BY <1>1, <1>4 DEF NoErrorTaken
  <2>1. ~Refused(line)
    BY <1>5
  <2>2. CASE i = step
    BY <1>4, <2>1, <2>2 DEF Refused
  <2>3. CASE i < step
    BY <1>t, <1>3, <1>4, <2>3 DEF NoErrorTaken
  <2> QED  BY <1>t, <2>2, <2>3
<1>12. (Exchanging => Paired /\ ToolListed)'
  <2> SUFFICES ASSUME client' = "sending"
               PROVE  Paired' /\ ToolListed'
    BY <1>5 DEF Exchanging
  <2>1. ~Refused(line) /\ runErr' = runErr /\ step' = step + 1
    BY <1>5
  <2>2. PipesInv'
    BY <1>1, <1>3, <2>1, ReceiveKeepsOrder
  <2>3. Len(taken') = step' - 1
    BY <1>t, <1>4, <2>1
  <2>4. ToolListed'
    <3>k. kind' = kind /\ (step' >= 3 => step >= 2)
      BY <1>t, <1>1, <2>1
    <3> SUFFICES ASSUME Calls(kind), step >= 2
                 PROVE  taken'[2].re = "tools/list"
      BY <3>k DEF ToolListed
    <3>1. CASE step = 2
      BY <1>4, <1>6, <2>1, <3>1 DEF Refused, Listed
    <3>2. CASE step > 2
      BY <1>t, <1>3, <1>4, <3>2 DEF ToolListed
    <3> QED  BY <1>t, <3>1, <3>2
  <2> QED  BY <1>3, <2>1, <2>2, <2>3, <2>4 DEF Paired, PipesInv
<1>13. Completed'
  BY <1>1, <1>4, <1>5 DEF Completed
<1>14. (step <= Len(Methods(kind)))'
  BY <1>t, <1>1, <1>3, <1>5, <1>6
<1> QED  BY <1>9, <1>10, <1>11, <1>12, <1>13, <1>14 DEF SessionInv

\* The command gives the exchange up, or closes it after the last answer.
LEMMA CloseInv ==
    ASSUME SessionInv, UNCHANGED <<kind, step, taken>>, ~Exchanging',
           runErr' \/ (runErr' = runErr /\ client = "closing")
    PROVE  SessionInv'
BY DEF SessionInv, RecordedAnswer, CallAnswered, NoErrorTaken, Completed

\* A request that is sent, to a server that listens or to one that is gone.
LEMMA SendInv ==
    ASSUME Fields, SessionInv, Send
    PROVE  SessionInv'
<1>1. CASE server = "running"
  <2>1. /\ client = "sending" /\ client' = "waiting" /\ stdin' = Append(stdin, Methods(kind)[step])
        /\ UNCHANGED <<kind, step, stdout, taken, runErr>>
    BY <1>1 DEF Send
  <2>2. step \in Requests
    BY MethodsAreDistinct DEF Fields, SessionInv, Requests
  <2>3. Paired /\ ToolListed
    BY <2>1 DEF SessionInv, Exchanging
  <2>4. PipesInv'
    BY <2>1, <2>2, <2>3, SendKeepsOrder DEF Paired, PipesInv
  <2>5. Paired' /\ ToolListed'
    BY <2>1, <2>3, <2>4 DEF Paired, PipesInv, ToolListed
  <2> QED  BY <2>1, <2>5 DEF SessionInv, Exchanging, RecordedAnswer, CallAnswered, NoErrorTaken, Completed
<1>2. CASE server # "running"
  BY <1>2, CloseInv DEF Send, Exchanging
<1> QED  BY <1>1, <1>2

\* Every step of an exchange keeps its invariant.
LEMMA SessionStepInv ==
    ASSUME MaxNoise \in Nat, SessionTypeOK, SessionInv, SessionStep
    PROVE  SessionTypeOK' /\ SessionInv'
<1>f. Flags /\ Fields
  BY TypeParts
<1>t. SessionTypeOK'
  <2>1. Flags' /\ Fields'
    BY <1>f, FlagTypes, FieldTypes DEF SessionInv
  <2> QED  BY <2>1, TypeParts, PTL
<1> SUFFICES SessionInv'
  BY <1>t
<1>1. CASE Send
  BY <1>1, <1>f, SendInv
<1>2. CASE Receive
  BY <1>2, <1>f, ReceiveInv
<1>3. CASE ReceiveNothing
  BY <1>3, CloseInv DEF ReceiveNothing, Exchanging
<1>4. CASE SayExit
  BY <1>4, CloseInv DEF SayExit, Exchanging
<1>5. CASE FakeServes
  <2>1. stdin # <<>> /\ stdin' = Tail(stdin) /\ Listens
    BY <1>5 DEF FakeServes, Listens
  <2>2. \/ stdout' = stdout
        \/ \E says \in Says : Line(Head(stdin), says) \in Lines /\ stdout' = Append(stdout, Line(Head(stdin), says))
    <3>1. ASSUME NEW says \in FakeSays(Head(stdin)), Head(stdin) # "exit"
          PROVE  says \in Says /\ Line(Head(stdin), says) \in Lines
      BY <1>f, <2>1, <3>1 DEF Fields, Line, Lines, Says, FakeSays
    <3> QED  BY <1>5, <3>1 DEF FakeServes
  <2>3. PipesInv => PipesInv'
    BY <1>f, <2>1, <2>2, ServeKeepsOrder DEF Listens
  <2> QED  BY <2>1, <2>3, ListenInv
<1>6. CASE RealServes
  <2>1. stdin # <<>> /\ stdin' = Tail(stdin) /\ Listens
    BY <1>6 DEF RealServes, Listens
  <2>2. \/ stdout' = stdout
        \/ \E says \in Says : Line(Head(stdin), says) \in Lines /\ stdout' = Append(stdout, Line(Head(stdin), says))
    <3>1. ASSUME NEW says \in RealSays(Head(stdin)), Head(stdin) # "exit"
          PROVE  says \in Says /\ Line(Head(stdin), says) \in Lines
      BY <1>f, <2>1, <3>1 DEF Fields, Line, Lines, Says, RealSays
    <3> QED  BY <1>6, <3>1 DEF RealServes
  <2>3. PipesInv => PipesInv'
    BY <1>f, <2>1, <2>2, ServeKeepsOrder DEF Listens
  <2> QED  BY <2>1, <2>3, ListenInv
<1>7. CASE RealNotifies
  <2>1. Line("none", "result") \in Lines
    BY DEF Line, Lines, Says
  <2>2. PipesInv => PipesInv'
    BY <1>7, <1>f, <2>1, NotifyKeepsOrder DEF RealNotifies
  <2> QED  BY <1>7, <2>2, ListenInv DEF RealNotifies, Listens
<1>8. CASE RealEnds \/ ChildEnds \/ Expire \/ KillServer
  <2>1. UNCHANGED <<kind, client, step, stdin, stdout, taken, runErr>>
    BY <1>8 DEF RealEnds, ChildEnds, Expire, KillServer
  <2>2. PipesInv => PipesInv'
    BY <2>1 DEF PipesInv, Bounded, Ordered, AfterLatest, Latest, About, Asked, Requests, Limit, Place
  <2> QED  BY <2>1, <2>2, ListenInv DEF Listens
<1> QED  BY <1>1, <1>2, <1>3, <1>4, <1>5, <1>6, <1>7, <1>8 DEF SessionStep, ClientStep, ServerStep

-----------------------------------------------------------------------------
(* The command.                                                            *)

\* The model's type invariant is part of this one.
LEMMA TypesFollow == SessionTypeOK /\ CmdInv => McpTypeOK
BY DEF McpTypeOK, CmdInv, FieldsOK, StageOK, WorldOK, Connected

\* All but the step a command stands at.
Carried(c, d) ==
    /\ DOMAIN d = CommandFields
    /\ d.op = c.op /\ d.draft = c.draft /\ d.id = c.id /\ d.decision = c.decision
    /\ d.got = c.got /\ d.hash = c.hash /\ d.proposal = c.proposal /\ d.approval = c.approval
    /\ d.status = c.status /\ d.calls = c.calls /\ d.answer = c.answer /\ d.failed = c.failed /\ d.exit = c.exit

\* So the fields keep their types.
LEMMA CarriedFields ==
    ASSUME NEW c, NEW d, FieldsOK(c), Carried(c, d)
    PROVE  FieldsOK(d)
BY DEF FieldsOK, Carried

\* The two ways a command goes on: to another step, or to the next file of this one.
LEMMA GoToCarries ==
    ASSUME NEW c, DOMAIN c = CommandFields, NEW at, GoTo(c, at)
    PROVE  Carried(c, cmd') /\ cmd'.at = at /\ cmd'.next = 1 /\ edited' = edited
BY DEF GoTo, Become, CommandFields, Carried

\* The next file of the same step.
LEMMA NextCarries ==
    ASSUME NEW c, DOMAIN c = CommandFields, Become([c EXCEPT !.next = @ + 1])
    PROVE  Carried(c, cmd') /\ cmd'.at = c.at /\ cmd'.next = c.next + 1 /\ edited' = edited
BY DEF Become, CommandFields, Carried

\* A command that begins is in order.
LEMMA CommandsAreOK ==
    ASSUME NEW op \in Ops, NEW draft, NEW id, NEW decision
    PROVE  FieldsOK(Command(op, draft, id, decision)) /\ StageOK(Command(op, draft, id, decision))
<1>1. DOMAIN Command(op, draft, id, decision) = CommandFields
  BY DEF Command, CommandFields
<1>2. FieldsOK(Command(op, draft, id, decision))
  BY <1>1 DEF Command, FieldsOK, NoHashes, Optional
<1>3. StageOK(Command(op, draft, id, decision))
  BY DEF Command, StageOK, ConfigRead, Loads, Ops, Kinds, Talks
<1> QED  BY <1>2, <1>3

\* A command that has ended keeps nothing, and has talked to the end if it talked.
LEMMA ExitInv ==
    ASSUME CmdInv, NEW code \in {0, 1}, Exit(code), client' = "off", UNCHANGED <<files, runs, artifacts>>
    PROVE  CmdInv' /\ cmd'.op = "smoke" /\ cmd'.at = "ended" /\ cmd'.exit = code
<1> DEFINE c == Command("smoke", SomeDraft, 0, "approved")
<1>1. FieldsOK(c) /\ StageOK(c) /\ c.op = "smoke"
  BY CommandsAreOK DEF Ops, Kinds, Command
<1>2. cmd' = [c EXCEPT !.at = "ended", !.exit = code] /\ edited' = {}
  BY DEF Exit
<1> HIDE DEF c
<1>3. FieldsOK(cmd') /\ cmd'.op = "smoke" /\ cmd'.at = "ended" /\ cmd'.exit = code /\ cmd'.next = c.next
  BY <1>1, <1>2 DEF FieldsOK, CommandFields
<1>4. StageOK(cmd')
  BY <1>1, <1>3 DEF StageOK, ConfigRead
<1>5. WorldOK'
  BY <1>2 DEF CmdInv, WorldOK
<1>6. Connected'
  BY <1>3 DEF Connected
<1> QED  BY <1>3, <1>4, <1>5, <1>6 DEF CmdInv

\* A command that goes on has its fields from c.
LEMMA GoOnInv ==
    ASSUME CmdInv, NEW c, FieldsOK(c), Carried(c, cmd'), StageOK(cmd'), edited' = edited,
           UNCHANGED <<files, runs, artifacts>>, client' # "off" <=> cmd'.at = "talk"
    PROVE  CmdInv'
<1>1. FieldsOK(cmd')
  BY CarriedFields
<1>2. WorldOK'
  BY DEF CmdInv, WorldOK
<1> QED  BY <1>1, <1>2 DEF CmdInv, Connected

\* A file that has been loaded: the next one, or the decision.
LEMMA LoadedStage ==
    ASSUME NEW c, FieldsOK(c), StageOK(c), c.at = "load", Loaded(c),
           Loads(c.op)[c.next] = "config" => c.got["config"] \in Configs
    PROVE  /\ Carried(c, cmd') /\ StageOK(cmd') /\ edited' = edited
           /\ \/ cmd'.at = "decide" /\ c.next = Len(Loads(c.op))
              \/ cmd'.at = "load" /\ cmd'.next = c.next + 1
<1>1. DOMAIN c = CommandFields /\ c.op # "new" /\ c.next \in 1 .. 5 /\ c.next <= Len(Loads(c.op))
  BY DEF FieldsOK, StageOK
<1>2. Len(Loads(c.op)) \in Nat /\ Len(Loads(c.op)) <= 5
  BY <1>1 DEF Loads, FieldsOK, Ops, Kinds
<1>3. CASE c.next = Len(Loads(c.op))
  <2>1. Carried(c, cmd') /\ cmd'.at = "decide" /\ cmd'.next = 1 /\ edited' = edited
    BY <1>1, <1>3, GoToCarries DEF Loaded
  <2>2. ASSUME c.op \in Talks
        PROVE  cmd'.got["config"] \in Configs
    <3>1. \E i \in 1 .. c.next : Loads(c.op)[i] = "config"
      BY <1>3, <2>2 DEF Loads, Talks, Kinds
    <3>2. c.got["config"] \in Configs
      BY <1>1, <2>2, <3>1 DEF StageOK, ConfigRead
    <3> QED  BY <2>1, <3>2 DEF Carried
  <2> QED  BY <1>1, <1>3, <2>1, <2>2 DEF StageOK, ConfigRead, Carried
<1>4. CASE c.next # Len(Loads(c.op))
  <2>1. Carried(c, cmd') /\ cmd'.at = "load" /\ cmd'.next = c.next + 1 /\ edited' = edited
    BY <1>1, <1>4, NextCarries DEF Loaded
  <2>2. cmd'.op = c.op
    BY <2>1 DEF Carried
  <2>3. c.next + 1 \in 1 .. 5 /\ c.next + 1 <= Len(Loads(c.op))
    BY <1>1, <1>2, <1>4
  <2>4. ASSUME cmd'.op \in Talks, ConfigRead(cmd')
        PROVE  cmd'.got["config"] \in Configs
    <3>1. PICK i \in 1 .. c.next : Loads(c.op)[i] = "config"
      BY <1>1, <2>1, <2>2, <2>4 DEF ConfigRead
    <3>2. i = c.next \/ i \in 1 .. c.next - 1
      BY <1>1
    <3>3. c.got["config"] \in Configs
      BY <2>2, <2>4, <3>1, <3>2 DEF StageOK, ConfigRead
    <3> QED  BY <2>1, <3>3 DEF Carried
  <2> QED  BY <1>1, <2>1, <2>2, <2>3, <2>4 DEF StageOK
<1> QED  BY <1>3, <1>4

\* A file that has been hashed: the next one, or what follows.
LEMMA HashedStage ==
    ASSUME NEW c, FieldsOK(c), StageOK(c), c.at \in {"hash", "bundle"},
           NEW then \in {"plan", "write"}, then = "plan" => c.op = "execute" /\ c.at = "hash", Hashed(c, then)
    PROVE  /\ Carried(c, cmd') /\ StageOK(cmd') /\ edited' = edited
           /\ \/ cmd'.at = then /\ c.next = 3
              \/ cmd'.at = c.at /\ cmd'.next = c.next + 1
<1>1. DOMAIN c = CommandFields /\ c.next \in 1 .. 5 /\ c.next <= 3
  BY DEF FieldsOK, StageOK
<1>3. CASE c.next = 3
  <2>1. Carried(c, cmd') /\ cmd'.at = then /\ cmd'.next = 1 /\ edited' = edited
    BY <1>1, <1>3, GoToCarries DEF Hashed
  <2> QED  BY <1>1, <1>3, <2>1 DEF StageOK, ConfigRead, Carried, Talks
<1>4. CASE c.next # 3
  <2>1. Carried(c, cmd') /\ cmd'.at = c.at /\ cmd'.next = c.next + 1 /\ edited' = edited
    BY <1>1, <1>4, NextCarries DEF Hashed
  <2>2. cmd'.op = c.op
    BY <2>1 DEF Carried
  <2>3. c.next + 1 \in 1 .. 5 /\ c.next + 1 <= 3
    BY <1>1, <1>4
  <2>4. cmd'.got = c.got /\ (ConfigRead(cmd') => ConfigRead(c))
    BY <2>1 DEF ConfigRead, Carried
  <2> QED  BY <1>1, <2>1, <2>2, <2>3, <2>4 DEF StageOK
<1> QED  BY <1>3, <1>4

\* An edit of a setting is on record; without one, what was found out about it stays true.
LEMMA SettingKeeps ==
    ASSUME NEW f, cmd.op = "execute", cmd'.op = "execute",
           cmd'.proposal = cmd.proposal, cmd'.approval = cmd.approval,
           f \in edited' \/ (files'[f] = files[f] /\ f \notin edited)
    PROVE  /\ Fresh(f) /\ cmd'.got[f] = cmd.got[f] => Fresh(f)'
           /\ Compared(f) => Compared(f)'
           /\ Bundled(f) /\ cmd'.hash[f] = cmd.hash[f] => Bundled(f)'
BY DEF Fresh, Wanted, Opts, Compared, Bundled

\* Until it has decided, a command knows only what it has loaded.
LEMMA EarlyOK ==
    ASSUME cmd'.at \in {"load", "decide"}, AllLoaded'
    PROVE  ExecuteOK'
BY DEF ExecuteOK, Decided, AllCompared, AllBundled, TalksAdmitted, CallMade, CallKept, At

\* A setting is loaded as it is on the disk.
LEMMA LoadSettingInv ==
    ASSUME CmdInv, cmd.op = "execute" => ExecuteOK, LoadSetting
    PROVE  CmdInv' /\ (cmd'.op = "execute" => ExecuteOK')
<1> DEFINE f == Loads(cmd.op)[cmd.next]
           c == IF Wanted(f) THEN [cmd EXCEPT !.got[f] = files[f]] ELSE cmd
<1>1. /\ cmd.at = "load" /\ f \in Settings /\ (Exit(1) \/ Loaded(c))
      /\ UNCHANGED <<session, files, runs, artifacts>>
  BY DEF LoadSetting, At
<1>2. client' = client /\ client = "off"
  BY <1>1 DEF session, CmdInv, Connected
<1>3. CASE Exit(1)
  BY <1>1, <1>2, <1>3, ExitInv
<1>4. CASE Loaded(c) /\ ~Exit(1)
  <2>1. /\ FieldsOK(c) /\ StageOK(c) /\ c.at = "load" /\ c.op = cmd.op /\ c.next = cmd.next
        /\ c.proposal = cmd.proposal /\ c.approval = cmd.approval
        /\ Wanted(f) => c.got[f] = files[f]
        /\ \A g \in Settings \ {f} : c.got[g] = cmd.got[g]
        /\ f = "config" => c.got["config"] \in Configs
    <3>w. f = "config" => Wanted(f) /\ (files["config"] \in Configs \/ Exit(1))
      BY DEF LoadSetting, Wanted, CmdInv, WorldOK, Settings, Contents, Optional
    <3> HIDE DEF f
    <3>1. CASE Wanted(f)
      <4>1. c = [cmd EXCEPT !.got[f] = files[f]]
        BY <3>1
      <4> HIDE DEF c
      <4>2. /\ DOMAIN c = CommandFields /\ c.got = [cmd.got EXCEPT ![f] = files[f]]
            /\ c.at = cmd.at /\ c.op = cmd.op /\ c.next = cmd.next /\ c.proposal = cmd.proposal
            /\ c.approval = cmd.approval /\ c.hash = cmd.hash /\ c.exit = cmd.exit /\ c.calls = cmd.calls
            /\ c.answer = cmd.answer /\ c.failed = cmd.failed
        BY <4>1 DEF CmdInv, FieldsOK, CommandFields
      <4>3. FieldsOK(c)
        BY <1>1, <4>2 DEF CmdInv, FieldsOK, WorldOK
      <4>4. f = "config" => c.got["config"] \in Configs
        BY <1>1, <1>4, <3>w, <4>2 DEF CmdInv, FieldsOK
      <4>5. f # "config" => c.got["config"] = cmd.got["config"]
        BY <1>1, <4>2 DEF CmdInv, FieldsOK, Settings
      <4>6. StageOK(c)
        BY <4>2, <4>4, <4>5 DEF CmdInv, StageOK, ConfigRead
      <4> QED  BY <1>1, <4>2, <4>3, <4>4, <4>6 DEF CmdInv, FieldsOK
    <3>2. CASE ~Wanted(f)
      BY <1>1, <3>2, <3>w DEF CmdInv
    <3> QED  BY <3>1, <3>2
  <2> HIDE DEF c
  <2>2. /\ Carried(c, cmd') /\ StageOK(cmd') /\ edited' = edited
        /\ \/ cmd'.at = "decide" /\ c.next = Len(Loads(c.op))
           \/ cmd'.at = "load" /\ cmd'.next = c.next + 1
    BY <1>4, <2>1, LoadedStage
  <2>3. CmdInv'
    BY <1>1, <1>2, <2>1, <2>2, GoOnInv
  <2>4. ASSUME cmd'.op = "execute"
        PROVE  ExecuteOK'
    <3>1. cmd.op = "execute" /\ cmd'.proposal = cmd.proposal /\ cmd'.approval = cmd.approval /\ cmd'.got = c.got
      BY <2>1, <2>2, <2>4 DEF Carried
    <3>2. AllLoaded
      BY <3>1 DEF ExecuteOK
    <3>3. LoadPlace(f) = cmd.next /\ cmd.next \in 2 .. 4 /\ Len(Loads(cmd.op)) = 5
      BY <1>1, <3>1 DEF Loads, LoadPlace, Settings, CmdInv, StageOK
    <3>4. cmd'.at = "load" /\ cmd'.next = cmd.next + 1
      BY <2>1, <2>2, <3>3
    <3>5. ASSUME NEW g \in Settings, LoadPlace(g) < cmd.next + 1
          PROVE  Fresh(g)'
      <4>1. CASE g = f
        <5>1. (Wanted(g))' <=> Wanted(g)
          BY <2>4, <3>1 DEF Wanted, Opts
        <5> QED  BY <1>1, <2>1, <2>2, <3>1, <4>1, <5>1 DEF Fresh
      <4>2. CASE g # f
        <5>1. LoadPlace(g) # LoadPlace(f) /\ LoadPlace(g) \in Nat
          BY <1>1, <4>2 DEF LoadPlace, Settings
        <5>2. LoadPlace(g) < cmd.next
          BY <3>3, <3>5, <5>1
        <5>3. Fresh(g)
          BY <1>1, <3>2, <5>2 DEF AllLoaded, At
        <5>4. cmd'.got[g] = cmd.got[g]
          BY <2>1, <3>1, <4>2
        <5>5. g \in edited' \/ (files'[g] = files[g] /\ g \notin edited)
          BY <1>1, <2>2
        <5> QED  BY <2>4, <3>1, <5>3, <5>4, <5>5, SettingKeeps
      <4> QED  BY <4>1, <4>2
    <3>6. \A g : (LoadPlace(g))' = LoadPlace(g)
      BY DEF LoadPlace
    <3>7. AllLoaded'
      BY <3>4, <3>5, <3>6 DEF AllLoaded, At
    <3> QED  BY <3>4, <3>7, EarlyOK
  <2> QED  BY <2>3, <2>4
<1> QED  BY <1>1, <1>3, <1>4

\* Nothing that was found out about the settings is lost by a step that changes none of
\* them and none of what the command has loaded.
LEMMA AllKeep ==
    ASSUME cmd.op = "execute", cmd'.op = "execute", UNCHANGED <<files, edited>>,
           cmd'.proposal = cmd.proposal, cmd'.approval = cmd.approval, cmd'.got = cmd.got
    PROVE  \A f : /\ Fresh(f) => Fresh(f)'
                  /\ Compared(f) => Compared(f)'
                  /\ Bundled(f) /\ cmd'.hash[f] = cmd.hash[f] => Bundled(f)'
BY DEF Fresh, Wanted, Opts, Compared, Bundled

\* Settings are loaded and hashed each in its place.
LEMMA Places ==
    /\ \A f : (LoadPlace(f))' = LoadPlace(f) /\ (HashPlace(f))' = HashPlace(f)
    /\ \A f \in Settings : LoadPlace(f) \in {2, 3, 4} /\ HashPlace(f) \in {1, 2, 3}
    /\ \A i \in 1 .. 3 : SettingOrder[i] \in Settings /\ HashPlace(SettingOrder[i]) = i
    /\ \A f \in Settings : \A i \in 1 .. 3 : HashPlace(f) = i => f = SettingOrder[i]
BY DEF LoadPlace, HashPlace, Settings, SettingOrder

\* The proposal, or the approval, is loaded.
LEMMA LoadRecordInv ==
    ASSUME CmdInv, cmd.op = "execute" => ExecuteOK, LoadRecord
    PROVE  CmdInv' /\ (cmd'.op = "execute" => ExecuteOK')
<1> DEFINE f == Loads(cmd.op)[cmd.next]
           c == IF f = "proposal" THEN [cmd EXCEPT !.proposal = proposal] ELSE [cmd EXCEPT !.approval = approval]
<1>1. /\ cmd.at = "load" /\ f \in {"proposal", "approval"} /\ (Exit(1) \/ Loaded(c))
      /\ UNCHANGED <<session, files, runs, artifacts>>
  BY DEF LoadRecord, At
<1>2. client' = client /\ client = "off"
  BY <1>1 DEF session, CmdInv, Connected
<1>3. CASE Exit(1)
  BY <1>1, <1>2, <1>3, ExitInv
<1>4. CASE Loaded(c)
  <2>1. /\ DOMAIN c = CommandFields /\ c.got = cmd.got /\ c.at = cmd.at /\ c.op = cmd.op /\ c.next = cmd.next
        /\ f = "approval" => c.proposal = cmd.proposal
        /\ c.hash = cmd.hash /\ c.exit = cmd.exit /\ c.calls = cmd.calls
        /\ c.answer = cmd.answer /\ c.failed = cmd.failed
    <3> HIDE DEF f
    <3> QED  BY DEF CmdInv, FieldsOK, CommandFields
  <2> HIDE DEF c
  <2>2. FieldsOK(c) /\ StageOK(c) /\ c.at = "load"
    BY <1>1, <2>1 DEF CmdInv, FieldsOK, StageOK, ConfigRead
  <2>3. /\ Carried(c, cmd') /\ StageOK(cmd') /\ edited' = edited
        /\ \/ cmd'.at = "decide" /\ c.next = Len(Loads(c.op))
           \/ cmd'.at = "load" /\ cmd'.next = c.next + 1
    BY <1>1, <1>4, <2>1, <2>2, LoadedStage
  <2>4. CmdInv'
    BY <1>1, <1>2, <2>2, <2>3, GoOnInv
  <2>5. ASSUME cmd'.op = "execute"
        PROVE  ExecuteOK'
    <3>1. cmd.op = "execute" /\ cmd'.got = cmd.got
      BY <2>1, <2>3, <2>5 DEF Carried
    <3>2. AllLoaded
      BY <3>1 DEF ExecuteOK
    <3>3. (cmd.next = 1 /\ f = "proposal") \/ (cmd.next = 5 /\ f = "approval")
      BY <1>1, <3>1 DEF Loads, CmdInv, StageOK
    <3>4. Len(Loads(cmd.op)) = 5
      BY <3>1 DEF Loads
    <3>5. CASE cmd.next = 1
      <4>1. cmd'.at = "load" /\ cmd'.next = 2
        BY <2>1, <2>3, <3>4, <3>5
      <4>2. AllLoaded'
        BY <4>1, Places DEF AllLoaded, At
      <4> QED  BY <4>1, <4>2, EarlyOK
    <3>6. CASE cmd.next = 5 /\ f = "approval"
      <4>1. cmd'.proposal = cmd.proposal /\ cmd'.at \in {"load", "decide"}
        BY <2>1, <2>3, <3>6 DEF Carried
      <4>2. \A g \in Settings : Fresh(g)
        BY <1>1, <3>2, <3>6, Places DEF AllLoaded, At
      <4>3. \A g \in Settings : Fresh(g)'
        BY <1>1, <2>3, <2>5, <3>1, <4>1, <4>2 DEF Fresh, Wanted, Opts
      <4>4. AllLoaded'
        BY <4>3 DEF AllLoaded
      <4> QED  BY <4>1, <4>4, EarlyOK
    <3> QED  BY <3>3, <3>5, <3>6
  <2> QED  BY <2>4, <2>5
<1> QED  BY <1>1, <1>3, <1>4

\* From one step of the command to another, with all its fields.
LEMMA GoToInv ==
    ASSUME CmdInv, NEW c, FieldsOK(c), NEW at, GoTo(c, at), UNCHANGED <<files, runs, artifacts>>,
           at \in {"decide", "hash", "plan", "talk", "artifacts", "bundle", "write"},
           at = "decide" => c.op # "new",
           at \in {"plan", "talk", "artifacts"} => c.op \in Talks,
           at \in {"decide", "hash", "plan"} /\ c.op \in Talks => c.got["config"] \in Configs,
           client' # "off" <=> at = "talk"
    PROVE  CmdInv' /\ Carried(c, cmd') /\ cmd'.at = at /\ cmd'.next = 1 /\ edited' = edited
<1>1. Carried(c, cmd') /\ cmd'.at = at /\ cmd'.next = 1 /\ edited' = edited
  BY GoToCarries DEF FieldsOK
<1>2. StageOK(cmd')
  BY <1>1 DEF StageOK, ConfigRead, Carried
<1> QED  BY <1>1, <1>2, GoOnInv

\* The decision: execute goes on only with an approval of its proposal.
LEMMA DecideInv ==
    ASSUME CmdInv, cmd.op = "execute" => ExecuteOK, Decide
    PROVE  CmdInv' /\ (cmd'.op = "execute" => ExecuteOK')
<1>1. cmd.at = "decide" /\ cmd.op # "new" /\ UNCHANGED <<session, files, runs, artifacts>>
  BY DEF Decide, At, CmdInv, StageOK
<1>2. client' = client /\ client = "off"
  BY <1>1 DEF session, CmdInv, Connected
<1>3. \/ Exit(1)
      \/ cmd.op = "approve" /\ GoTo(cmd, "hash")
      \/ cmd.op = "execute" /\ ApprovalMatches /\ GoTo(cmd, "hash")
      \/ cmd.op \notin {"approve", "execute"} /\ GoTo(cmd, "plan")
  BY DEF Decide
<1>f. FieldsOK(cmd) /\ (cmd.op \in Talks => cmd.got["config"] \in Configs)
  BY <1>1 DEF CmdInv, StageOK, ConfigRead
<1>4. CASE Exit(1)
  BY <1>1, <1>2, <1>4, ExitInv
<1>5. CASE cmd.op = "approve" /\ GoTo(cmd, "hash")
  BY <1>1, <1>2, <1>5, <1>f, GoToInv DEF Carried
<1>6. CASE cmd.op \notin {"approve", "execute"} /\ GoTo(cmd, "plan")
  <2>1. cmd.op \in Talks
    BY <1>1, <1>6, <1>f DEF FieldsOK, Ops, Talks
  <2> QED  BY <1>1, <1>2, <1>6, <1>f, <2>1, GoToInv DEF Carried
<1>7. CASE cmd.op = "execute" /\ ApprovalMatches /\ GoTo(cmd, "hash")
  <2>1. CmdInv' /\ Carried(cmd, cmd') /\ cmd'.at = "hash" /\ cmd'.next = 1 /\ edited' = edited
    BY <1>1, <1>2, <1>7, <1>f, GoToInv
  <2>2. cmd'.op = "execute" /\ cmd'.proposal = cmd.proposal /\ cmd'.approval = cmd.approval /\ cmd'.got = cmd.got
    BY <1>7, <2>1 DEF Carried
  <2>3. \A f \in Settings : Fresh(f)
    BY <1>1, <1>7 DEF ExecuteOK, AllLoaded, At
  <2>4. AllLoaded'
    BY <1>1, <1>7, <2>1, <2>2, <2>3, AllKeep DEF AllLoaded
  <2>5. Decided'
    BY <1>7, <2>2 DEF Decided, ApprovalMatches
  <2>6. AllCompared'
    BY <2>1, Places DEF AllCompared, At
  <2> QED  BY <2>1, <2>4, <2>5, <2>6 DEF ExecuteOK, AllBundled, TalksAdmitted, CallMade, CallKept, At
<1> QED  BY <1>3, <1>4, <1>5, <1>6, <1>7

\* The hashes of a new proposal are no concern of execute's.
LEMMA HashForProposalInv ==
    ASSUME CmdInv, HashForProposal
    PROVE  CmdInv' /\ cmd'.op # "execute"
<1> DEFINE f == HashAt
           c == IF f \in cmd.draft.paths THEN [cmd EXCEPT !.hash[f] = files[f]] ELSE cmd
<1>1. /\ cmd.at = "hash" /\ cmd.op = "new" /\ Hashed(c, "write")
      /\ UNCHANGED <<session, files, runs, artifacts>>
  BY DEF HashForProposal, At
<1>2. client' = client /\ client = "off"
  BY <1>1 DEF session, CmdInv, Connected
<1>3. FieldsOK(c) /\ StageOK(c) /\ c.at = cmd.at /\ c.op = cmd.op
  <2> HIDE DEF f
  <2> QED  BY DEF CmdInv, FieldsOK, StageOK, ConfigRead, CommandFields
<1> HIDE DEF c
<1>4. Carried(c, cmd') /\ StageOK(cmd') /\ edited' = edited /\ cmd'.at \in {"write", "hash"}
  BY <1>1, <1>3, HashedStage
<1> QED  BY <1>1, <1>2, <1>3, <1>4, GoOnInv DEF Carried

\* Nor are those of an approval.
LEMMA HashForApprovalInv ==
    ASSUME CmdInv, HashForApproval
    PROVE  CmdInv' /\ cmd'.op # "execute"
<1> DEFINE f == HashAt
           v == IF f = "policy" \/ (cmd.proposal.hash[f] = Absent /\ f \in cmd.proposal.paths)
                THEN files[f] ELSE cmd.proposal.hash[f]
           c == [cmd EXCEPT !.hash[f] = v]
<1>1. /\ cmd.at = "hash" /\ cmd.op = "approve" /\ (Exit(1) \/ Hashed(c, "write"))
      /\ UNCHANGED <<session, files, runs, artifacts>>
  BY DEF HashForApproval, At
<1>2. client' = client /\ client = "off"
  BY <1>1 DEF session, CmdInv, Connected
<1>3. FieldsOK(c) /\ StageOK(c) /\ c.at = cmd.at /\ c.op = cmd.op
  <2> HIDE DEF f, v
  <2> QED  BY DEF CmdInv, FieldsOK, StageOK, ConfigRead, CommandFields
<1> HIDE DEF c
<1>4. CASE Exit(1)
  BY <1>1, <1>2, <1>4, ExitInv
<1>5. CASE Hashed(c, "write")
  <2>1. Carried(c, cmd') /\ StageOK(cmd') /\ edited' = edited /\ cmd'.at \in {"write", "hash"}
    BY <1>1, <1>3, <1>5, HashedStage
  <2> QED  BY <1>1, <1>2, <1>3, <2>1, GoOnInv DEF Carried
<1> QED  BY <1>1, <1>4, <1>5

\* A file is hashed and compared: it is as it was approved, or execute ends.
LEMMA CompareWithApprovalInv ==
    ASSUME CmdInv, cmd.op = "execute" => ExecuteOK, CompareWithApproval
    PROVE  CmdInv' /\ (cmd'.op = "execute" => ExecuteOK')
<1> DEFINE f == HashAt
           same == \/ f # "policy" /\ cmd.approval.hash[f] = Absent
                   \/ /\ f = "runtime" => "runtime" \in cmd.proposal.paths
                      /\ cmd.approval.hash[f] = files[f]
<1>1. /\ cmd.at = "hash" /\ cmd.op = "execute" /\ (Exit(1) \/ (same /\ Hashed(cmd, "plan")))
      /\ UNCHANGED <<session, files, runs, artifacts>>
  BY DEF CompareWithApproval, At
<1>2. client' = client /\ client = "off"
  BY <1>1 DEF session, CmdInv, Connected
<1>3. CASE Exit(1)
  BY <1>1, <1>2, <1>3, ExitInv
<1>4. CASE same /\ Hashed(cmd, "plan")
  <2>1. FieldsOK(cmd) /\ StageOK(cmd)
    BY DEF CmdInv
  <2>2. /\ Carried(cmd, cmd') /\ StageOK(cmd') /\ edited' = edited
        /\ \/ cmd'.at = "plan" /\ cmd.next = 3
           \/ cmd'.at = "hash" /\ cmd'.next = cmd.next + 1
    BY <1>1, <1>4, <2>1, HashedStage
  <2>3. CmdInv'
    BY <1>1, <1>2, <2>1, <2>2, GoOnInv
  <2>4. cmd'.op = "execute" /\ cmd'.proposal = cmd.proposal /\ cmd'.approval = cmd.approval /\ cmd'.got = cmd.got
    BY <1>1, <2>2 DEF Carried
  <2>5. AllLoaded'
    BY <1>1, <2>2, <2>4, AllKeep DEF ExecuteOK, AllLoaded, At
  <2>6. Decided'
    BY <1>1, <2>4 DEF ExecuteOK, Decided, ApprovalMatches, At
  <2>7. cmd.next \in 1 .. 3 /\ f \in Settings /\ HashPlace(f) = cmd.next
    BY <1>1, <2>1, Places DEF StageOK, HashAt
  <2>8. ASSUME NEW g \in Settings, HashPlace(g) <= cmd.next
        PROVE  Compared(g)'
    <3>1. Compared(g)
      <4>1. CASE HashPlace(g) = cmd.next
        <5>1. g = f
          BY <2>7, <4>1, Places DEF HashAt
        <5> QED  BY <1>4, <5>1 DEF Compared
      <4>2. CASE HashPlace(g) < cmd.next
        BY <1>1, <4>2 DEF ExecuteOK, AllCompared, At
      <4> QED  BY <2>7, <2>8, <4>1, <4>2, Places
    <3> QED  BY <1>1, <2>2, <2>4, <3>1, AllKeep
  <2>9. AllCompared'
    <3> SUFFICES ASSUME NEW g \in Settings, cmd'.at = "hash" => HashPlace(g) < cmd'.next
                 PROVE  Compared(g)'
      BY Places DEF AllCompared, At
    <3>1. HashPlace(g) <= cmd.next
      BY <2>2, <2>7, Places
    <3> QED  BY <2>8, <3>1
  <2> QED  BY <2>2, <2>3, <2>5, <2>6, <2>9
           DEF ExecuteOK, AllBundled, TalksAdmitted, CallMade, CallKept, At
<1> QED  BY <1>1, <1>3, <1>4

\* After the comparison, what has been loaded and compared stays so.
LEMMA LaterOK ==
    ASSUME cmd.op = "execute", ExecuteOK, ~At("load"), ~At("decide"), ~At("hash"),
           cmd'.at \in {"talk", "artifacts", "bundle", "write"}, cmd'.op = cmd.op, UNCHANGED <<files, edited>>,
           cmd'.proposal = cmd.proposal, cmd'.approval = cmd.approval, cmd'.got = cmd.got
    PROVE  AllLoaded' /\ Decided' /\ AllCompared'
<1>1. AllLoaded'
  BY AllKeep DEF ExecuteOK, AllLoaded, At
<1>2. Decided'
  BY DEF ExecuteOK, Decided, ApprovalMatches, At
<1>3. AllCompared'
  BY AllKeep DEF ExecuteOK, AllCompared, At
<1> QED  BY <1>1, <1>2, <1>3

\* The call is planned from what was loaded; a server is started only for what the policy admits.
LEMMA PlanCallInv ==
    ASSUME CmdInv, cmd.op = "execute" => ExecuteOK, PlanCall
    PROVE  CmdInv' /\ (cmd'.op = "execute" => ExecuteOK')
<1> DEFINE failure == [cmd EXCEPT !.status = "failed", !.failed = TRUE]
           refusal == [cmd EXCEPT !.failed = TRUE]
<1>1. cmd.at = "plan" /\ cmd.op = "execute" /\ UNCHANGED <<files, runs, artifacts>> /\ client = "off"
  BY DEF PlanCall, At, CmdInv, Connected
<1>f. FieldsOK(cmd) /\ cmd.op \in Talks
  BY <1>1 DEF CmdInv, Talks
<1>2. CASE GoTo(cmd, "talk") /\ Open("call", cmd.got.config.testOnly)
           /\ Admits("call", cmd.got.policy, cmd.got.config, Opts)
  <2>1. client' = "sending" /\ kind' = "call"
    BY <1>2 DEF Open
  <2>2. CmdInv' /\ Carried(cmd, cmd') /\ cmd'.at = "talk" /\ edited' = edited
    BY <1>1, <1>f, <1>2, <2>1, GoToInv
  <2>3. cmd'.op = cmd.op /\ cmd'.proposal = cmd.proposal /\ cmd'.approval = cmd.approval /\ cmd'.got = cmd.got
    BY <2>2 DEF Carried
  <2>4. AllLoaded' /\ Decided' /\ AllCompared'
    BY <1>1, <2>2, <2>3, LaterOK DEF At
  <2>5. TalksAdmitted'
    <3>1. Admits("call", cmd'.got.policy, cmd'.got.config, cmd'.proposal)
      BY <1>1, <1>2, <2>3 DEF Opts
    <3> QED  BY <2>1, <3>1 DEF TalksAdmitted, Admits, Startable, RealAllowed, ToolAllowed, Calls
  <2> QED  BY <2>2, <2>4, <2>5 DEF ExecuteOK, AllBundled, CallMade, CallKept, At
<1>3. CASE GoTo(failure, "artifacts") /\ UNCHANGED session
  <2>1. /\ FieldsOK(failure) /\ failure.op = cmd.op /\ failure.failed = TRUE /\ failure.proposal = cmd.proposal
        /\ failure.approval = cmd.approval /\ failure.got = cmd.got
    BY <1>f DEF FieldsOK, CommandFields
  <2> HIDE DEF failure
  <2>2. CmdInv' /\ Carried(failure, cmd') /\ cmd'.at = "artifacts" /\ edited' = edited
    BY <1>1, <1>f, <1>3, <2>1, GoToInv DEF session
  <2>3. /\ cmd'.op = cmd.op /\ cmd'.proposal = cmd.proposal /\ cmd'.approval = cmd.approval /\ cmd'.got = cmd.got
        /\ cmd'.failed = TRUE
    BY <2>1, <2>2 DEF Carried
  <2>4. AllLoaded' /\ Decided' /\ AllCompared'
    BY <1>1, <2>2, <2>3, LaterOK DEF At
  <2> QED  BY <2>2, <2>3, <2>4 DEF ExecuteOK, AllBundled, TalksAdmitted, CallMade, CallKept, At
<1>4. CASE GoTo(refusal, "bundle") /\ UNCHANGED session
  <2>1. /\ FieldsOK(refusal) /\ refusal.op = cmd.op /\ refusal.failed = TRUE /\ refusal.proposal = cmd.proposal
        /\ refusal.approval = cmd.approval /\ refusal.got = cmd.got
    BY <1>f DEF FieldsOK, CommandFields
  <2> HIDE DEF refusal
  <2>2. CmdInv' /\ Carried(refusal, cmd') /\ cmd'.at = "bundle" /\ cmd'.next = 1 /\ edited' = edited
    BY <1>1, <1>f, <1>4, <2>1, GoToInv DEF session
  <2>3. /\ cmd'.op = cmd.op /\ cmd'.proposal = cmd.proposal /\ cmd'.approval = cmd.approval /\ cmd'.got = cmd.got
        /\ cmd'.failed = TRUE
    BY <2>1, <2>2 DEF Carried
  <2>4. AllLoaded' /\ Decided' /\ AllCompared'
    BY <1>1, <2>2, <2>3, LaterOK DEF At
  <2>5. AllBundled'
    BY <2>2, Places DEF AllBundled, At
  <2> QED  BY <2>2, <2>3, <2>4, <2>5 DEF ExecuteOK, TalksAdmitted, CallMade, CallKept, At
<1> QED  BY <1>2, <1>3, <1>4 DEF PlanCall, Launch

\* A smoke has no approval to compare with.
LEMMA PlanSmokeInv ==
    ASSUME CmdInv, PlanSmoke
    PROVE  CmdInv' /\ cmd'.op # "execute"
<1> DEFINE c == Command(cmd.op, SomeDraft, 0, "approved")
           failure == [c EXCEPT !.status = "failed", !.failed = TRUE]
<1>1. cmd.at = "plan" /\ cmd.op \in Kinds /\ UNCHANGED <<files, runs, artifacts>> /\ client = "off"
  BY DEF PlanSmoke, At, CmdInv, Connected
<1>2. FieldsOK(c) /\ c.op = cmd.op /\ c.op \in Talks /\ c.op # "execute"
  <2>1. cmd.op \in Ops
    BY <1>1 DEF Ops
  <2> QED  BY <1>1, <2>1, CommandsAreOK DEF Command, Talks, Kinds
<1>3. \/ Open(cmd.op, cmd.got.config.testOnly) /\ GoTo(c, "talk")
      \/ GoTo(failure, "artifacts") /\ UNCHANGED session
      \/ Exit(1) /\ UNCHANGED session
  BY DEF PlanSmoke, Launch
<1> HIDE DEF c
<1>4. CASE Open(cmd.op, cmd.got.config.testOnly) /\ GoTo(c, "talk")
  <2>1. client' = "sending"
    BY <1>4 DEF Open
  <2> QED  BY <1>1, <1>2, <1>4, <2>1, GoToInv DEF Carried
<1>5. CASE GoTo(failure, "artifacts") /\ UNCHANGED session
  <2>1. FieldsOK(failure) /\ failure.op = c.op
    BY <1>2 DEF FieldsOK, CommandFields
  <2> HIDE DEF failure
  <2>2. client' = client
    BY <1>5 DEF session
  <2> QED  BY <1>1, <1>2, <1>5, <2>1, <2>2, GoToInv DEF Carried
<1>6. CASE Exit(1) /\ UNCHANGED session
  BY <1>1, <1>6, ExitInv DEF session
<1> QED  BY <1>3, <1>4, <1>5, <1>6

\* The command waits where it is while the exchange goes on.
LEMMA TalkInv ==
    ASSUME CmdInv, cmd.op = "execute" => ExecuteOK, Talk
    PROVE  CmdInv' /\ (cmd'.op = "execute" => ExecuteOK')
<1>1. /\ UNCHANGED <<files, artifacts, cmd, edited, runs>> /\ kind' = kind
      /\ client # "off" <=> client' # "off"
  BY DEF Talk, SessionStep, ClientStep, ServerStep, Send, Receive, ReceiveNothing, SayExit, FakeServes, RealServes,
         RealNotifies, RealEnds, ChildEnds, Expire, KillServer
<1>2. CmdInv'
  BY <1>1 DEF CmdInv, FieldsOK, StageOK, WorldOK, Connected
<1>3. ASSUME ExecuteOK
      PROVE  ExecuteOK'
  BY <1>1, <1>3 DEF ExecuteOK, AllLoaded, Decided, AllCompared, AllBundled, TalksAdmitted, CallMade, CallKept, At,
                    Fresh, Wanted, Opts, Compared, Bundled, LoadPlace, HashPlace, ApprovalMatches
<1> QED  BY <1>1, <1>2, <1>3

\* What a successful exchange leaves for the artifacts: an answer to the call, no error.
LEMMA AnswerOK ==
    ASSUME SessionTypeOK, SessionInv, kind = "call", Reapable, Succeeded
    PROVE  Answered(CallAnswer)
<1>1. Calls(kind) /\ Len(Methods(kind)) = 4
  BY MethodsAreDistinct DEF Calls, Kinds
<1>2. Len(taken) = 4
  BY <1>1 DEF SessionInv, Completed, Reapable, Succeeded
<1>3. taken[3].re \in {"tools/call", "none"} /\ taken[3].says \notin {"error", "garbled"}
  BY <1>1, <1>2 DEF SessionInv, CallAnswered, NoErrorTaken, Succeeded
<1>4. CallAnswer = {taken[3]}
  BY <1>1, <1>2, <1>3 DEF CallAnswer
<1> QED  BY <1>3, <1>4 DEF Answered

\* The session is over; its outcome is the command's.
LEMMA HearInv ==
    ASSUME SessionTypeOK, SessionInv, CmdInv, cmd.op = "execute" => ExecuteOK, Hear
    PROVE  CmdInv' /\ (cmd'.op = "execute" => ExecuteOK')
<1> DEFINE c == [cmd EXCEPT !.status = IF Succeeded THEN "succeeded" ELSE "failed",
                            !.calls = IF Succeeded /\ Calls(kind) THEN 1 ELSE 0,
                            !.answer = CallAnswer,
                            !.failed = ~Succeeded]
<1>1. /\ cmd.at = "talk" /\ GoTo(c, "artifacts") /\ Reapable /\ client' = "off"
      /\ UNCHANGED <<files, runs, artifacts>>
  BY DEF Hear, At, Reap, Forget
<1>2. CallAnswer \subseteq Lines
  <2>1. taken \in Seq(Lines)
    BY DEF SessionTypeOK
  <2>2. ASSUME Len(taken) >= 3
        PROVE  taken[3] \in Lines
    BY <2>1, <2>2
  <2> QED  BY <2>2 DEF CallAnswer
<1>3. /\ DOMAIN c = CommandFields /\ c.op = cmd.op /\ c.proposal = cmd.proposal /\ c.approval = cmd.approval
      /\ c.got = cmd.got /\ c.hash = cmd.hash /\ c.answer = CallAnswer /\ c.exit = cmd.exit
      /\ c.calls = IF Succeeded /\ Calls(kind) THEN 1 ELSE 0
      /\ c.status = IF Succeeded THEN "succeeded" ELSE "failed"
      /\ c.failed = ~Succeeded
  BY DEF CmdInv, FieldsOK, CommandFields
<1> HIDE DEF c
<1>4. c.calls \in {0, 1} /\ (c.failed = TRUE \/ c.failed = FALSE)
  BY <1>3
<1>5. FieldsOK(c) /\ c.op \in Talks
  BY <1>1, <1>2, <1>3, <1>4 DEF CmdInv, FieldsOK, StageOK
<1>6. CmdInv' /\ Carried(c, cmd') /\ cmd'.at = "artifacts" /\ edited' = edited
  BY <1>1, <1>5, GoToInv
<1>7. ASSUME cmd'.op = "execute"
      PROVE  ExecuteOK'
  <2>1. /\ cmd'.op = cmd.op /\ cmd'.proposal = cmd.proposal /\ cmd'.approval = cmd.approval /\ cmd'.got = cmd.got
        /\ cmd'.failed = c.failed /\ cmd'.status = c.status /\ cmd'.calls = c.calls /\ cmd'.answer = CallAnswer
    BY <1>3, <1>6 DEF Carried
  <2>2. AllLoaded' /\ Decided' /\ AllCompared'
    BY <1>1, <1>6, <1>7, <2>1, LaterOK DEF At
  <2>3. kind = "call"
    BY <1>1, <1>7, <2>1 DEF ExecuteOK, TalksAdmitted, At
  <2>4. ASSUME Succeeded
        PROVE  cmd'.status = "succeeded" /\ cmd'.calls = 1 /\ Answered(cmd'.answer)
    BY <1>1, <1>3, <2>1, <2>3, <2>4, AnswerOK DEF Calls
  <2>5. CallMade'
    <3>1. ASSUME ~cmd'.failed
          PROVE  Succeeded
      BY <1>3, <2>1, <3>1
    <3> QED  BY <2>4, <3>1 DEF CallMade, Answered
  <2> QED  BY <1>6, <2>2, <2>5 DEF ExecuteOK, AllBundled, TalksAdmitted, CallKept, At
<1> QED  BY <1>6, <1>7

\* The artifacts of a call are those of this run, or it has failed.
LEMMA WriteCallArtifactsInv ==
    ASSUME CmdInv, cmd.op = "execute" => ExecuteOK, WriteCallArtifacts
    PROVE  CmdInv' /\ (cmd'.op = "execute" => ExecuteOK')
<1>1. cmd.at = "artifacts" /\ cmd.op = "execute" /\ UNCHANGED <<session, files, runs>> /\ ExecuteOK
  BY DEF WriteCallArtifacts, At
<1>2. PICK n \in 0 .. 2 :
         /\ artifacts' = [result   |-> IF n >= 1 THEN runs ELSE artifacts.result,
                          response |-> IF n = 2 THEN runs ELSE artifacts.response,
                          answer   |-> IF n = 2 THEN cmd.answer ELSE artifacts.answer]
         /\ GoTo([cmd EXCEPT !.failed = @ \/ n < 2], "bundle")
  BY DEF WriteCallArtifacts
<1> DEFINE c == [cmd EXCEPT !.failed = @ \/ n < 2]
<1>3. /\ DOMAIN c = CommandFields /\ c.op = cmd.op /\ c.proposal = cmd.proposal /\ c.approval = cmd.approval
      /\ c.got = cmd.got /\ c.hash = cmd.hash /\ c.answer = cmd.answer /\ c.exit = cmd.exit
      /\ c.calls = cmd.calls /\ c.status = cmd.status /\ c.failed = (cmd.failed \/ n < 2)
  BY DEF CmdInv, FieldsOK, CommandFields
<1>4. GoTo(c, "bundle")
  BY <1>2
<1> HIDE DEF c
<1>5. Carried(c, cmd') /\ cmd'.at = "bundle" /\ cmd'.next = 1 /\ edited' = edited
  BY <1>3, <1>4, GoToCarries
<1>6. FieldsOK(c)
  <2>1. c.failed = TRUE \/ c.failed = FALSE
    BY <1>3
  <2> QED  BY <1>3, <2>1 DEF CmdInv, FieldsOK
<1>7. StageOK(cmd')
  BY <1>5 DEF StageOK, ConfigRead
<1>8. WorldOK'
  <2>1. artifacts' \in [result: 0..MaxCommands, response: 0..MaxCommands, answer: SUBSET Lines]
    <3>1. /\ runs \in 0 .. MaxCommands /\ artifacts.result \in 0 .. MaxCommands
          /\ artifacts.response \in 0 .. MaxCommands
          /\ artifacts.answer \in SUBSET Lines /\ cmd.answer \in SUBSET Lines
      BY DEF CmdInv, WorldOK, FieldsOK
    <3> QED  BY <1>2, <3>1
  <2> QED  BY <1>1, <1>5, <2>1 DEF CmdInv, WorldOK
<1>9. CmdInv'
  <2>1. FieldsOK(cmd')
    BY <1>5, <1>6, CarriedFields
  <2>2. Connected'
    BY <1>1, <1>5 DEF CmdInv, Connected, session
  <2> QED  BY <1>7, <1>8, <2>1, <2>2 DEF CmdInv
<1>10. /\ cmd'.op = cmd.op /\ cmd'.proposal = cmd.proposal /\ cmd'.approval = cmd.approval /\ cmd'.got = cmd.got
       /\ cmd'.answer = cmd.answer /\ cmd'.status = cmd.status /\ cmd'.calls = cmd.calls
       /\ cmd'.failed = c.failed
  BY <1>3, <1>5 DEF Carried
<1>11. AllLoaded' /\ Decided' /\ AllCompared'
  BY <1>1, <1>5, <1>10, LaterOK DEF At
<1>12. AllBundled'
  BY <1>5, Places DEF AllBundled, At
<1>13. CallMade' /\ CallKept'
  <2> SUFFICES ASSUME ~cmd'.failed
               PROVE  CallMade' /\ CallKept'
    BY DEF CallMade, CallKept
  <2>a. ~(cmd.failed \/ n < 2)
    BY <1>3, <1>10, Zenon
  <2>b. n = 2
    BY <2>a
  <2>1. ~cmd.failed /\ n = 2
    BY <2>a, <2>b
  <2>2. cmd.status = "succeeded" /\ cmd.calls = 1 /\ Answered(cmd.answer)
    BY <1>1, <2>1 DEF ExecuteOK, CallMade, At
  <2>3. artifacts'.result = runs' /\ artifacts'.response = runs' /\ artifacts'.answer = cmd'.answer
    BY <1>1, <1>2, <1>10, <2>1
  <2> QED  BY <1>10, <2>2, <2>3 DEF CallMade, CallKept, Answered
<1> QED  BY <1>5, <1>9, <1>11, <1>12, <1>13 DEF ExecuteOK, TalksAdmitted, At

\* Those of a smoke are not execute's.
LEMMA WriteSmokeArtifactsInv ==
    ASSUME CmdInv, WriteSmokeArtifacts
    PROVE  CmdInv' /\ cmd'.op # "execute"
<1>1. UNCHANGED <<session, files, runs, artifacts>> /\ client = "off"
  BY DEF WriteSmokeArtifacts, CmdInv, Connected, At
<1>2. PICK code \in {0, 1} : Exit(code)
  BY DEF WriteSmokeArtifacts
<1> QED  BY <1>1, <1>2, ExitInv DEF session

\* A file is hashed for the bundle.
LEMMA HashForBundleInv ==
    ASSUME CmdInv, cmd.op = "execute" => ExecuteOK, HashForBundle
    PROVE  CmdInv' /\ (cmd'.op = "execute" => ExecuteOK')
<1> DEFINE f == HashAt
           pathed == f = "runtime" => "runtime" \in cmd.proposal.paths
           c == IF pathed THEN [cmd EXCEPT !.hash[f] = files[f]] ELSE cmd
<1>1. cmd.at = "bundle" /\ (Exit(1) \/ Hashed(c, "write")) /\ UNCHANGED <<session, files, runs, artifacts>>
  BY DEF HashForBundle, At
<1>2. client' = client /\ client = "off"
  BY <1>1 DEF session, CmdInv, Connected
<1>3. CASE Exit(1)
  BY <1>1, <1>2, <1>3, ExitInv
<1>4. CASE Hashed(c, "write")
  <2>1. cmd.next \in 1 .. 3 /\ f \in Settings /\ HashPlace(f) = cmd.next
    BY <1>1, Places DEF CmdInv, StageOK, HashAt
  <2>2. /\ FieldsOK(c) /\ StageOK(c) /\ c.at = cmd.at /\ c.op = cmd.op /\ c.next = cmd.next
        /\ c.proposal = cmd.proposal /\ c.approval = cmd.approval /\ c.got = cmd.got
        /\ c.failed = cmd.failed /\ c.status = cmd.status /\ c.calls = cmd.calls /\ c.answer = cmd.answer
        /\ pathed => c.hash[f] = files[f]
        /\ \A g \in Settings \ {f} : c.hash[g] = cmd.hash[g]
    <3> HIDE DEF f
    <3>1. CASE pathed
      <4>1. c = [cmd EXCEPT !.hash[f] = files[f]]
        BY <3>1
      <4> HIDE DEF c, pathed
      <4>2. /\ DOMAIN c = CommandFields /\ c.hash = [cmd.hash EXCEPT ![f] = files[f]]
            /\ c.at = cmd.at /\ c.op = cmd.op /\ c.next = cmd.next /\ c.proposal = cmd.proposal
            /\ c.approval = cmd.approval /\ c.got = cmd.got /\ c.exit = cmd.exit /\ c.calls = cmd.calls
            /\ c.answer = cmd.answer /\ c.failed = cmd.failed /\ c.status = cmd.status
        BY <4>1 DEF CmdInv, FieldsOK, CommandFields
      <4>3. FieldsOK(c)
        BY <4>2 DEF CmdInv, FieldsOK
      <4>4. StageOK(c)
        BY <1>1, <4>2 DEF CmdInv, StageOK, ConfigRead
      <4> QED  BY <2>1, <4>2, <4>3, <4>4 DEF CmdInv, FieldsOK
    <3>2. CASE ~pathed
      BY <3>2 DEF CmdInv
    <3> QED  BY <3>1, <3>2
  <2> HIDE DEF c
  <2>3. /\ Carried(c, cmd') /\ StageOK(cmd') /\ edited' = edited
        /\ \/ cmd'.at = "write" /\ cmd.next = 3
           \/ cmd'.at = "bundle" /\ cmd'.next = cmd.next + 1
    BY <1>1, <1>4, <2>2, HashedStage
  <2>4. CmdInv'
    BY <1>1, <1>2, <2>2, <2>3, GoOnInv
  <2>5. ASSUME cmd'.op = "execute"
        PROVE  ExecuteOK'
    <3>1. /\ cmd.op = "execute" /\ cmd'.proposal = cmd.proposal /\ cmd'.approval = cmd.approval /\ cmd'.got = cmd.got
          /\ cmd'.hash = c.hash /\ cmd'.failed = cmd.failed /\ cmd'.status = cmd.status
          /\ cmd'.calls = cmd.calls /\ cmd'.answer = cmd.answer
      BY <2>2, <2>3, <2>5 DEF Carried
    <3>2. AllLoaded' /\ Decided' /\ AllCompared'
      BY <1>1, <2>3, <2>5, <3>1, LaterOK DEF At
    <3>3. ASSUME NEW g \in Settings, HashPlace(g) <= cmd.next
          PROVE  Bundled(g)'
      <4>1. CASE g = f
        BY <1>1, <2>2, <3>1, <4>1 DEF Bundled
      <4>2. CASE g # f
        <5>1. HashPlace(g) # cmd.next
          BY <2>1, <4>2, Places DEF HashAt
        <5>2. HashPlace(g) < cmd.next
          BY <2>1, <3>3, <5>1, Places
        <5>3. Bundled(g)
          BY <1>1, <3>1, <5>2 DEF ExecuteOK, AllBundled, At
        <5>4. cmd'.hash[g] = cmd.hash[g]
          BY <2>2, <3>1, <4>2
        <5> QED  BY <1>1, <2>3, <2>5, <3>1, <5>3, <5>4, AllKeep
      <4> QED  BY <4>1, <4>2
    <3>4. AllBundled'
      <4> SUFFICES ASSUME NEW g \in Settings, cmd'.at = "write" \/ HashPlace(g) < cmd'.next
                   PROVE  Bundled(g)'
        BY Places DEF AllBundled, At
      <4>1. HashPlace(g) <= cmd.next
        BY <2>1, <2>3, Places
      <4> QED  BY <3>3, <4>1
    <3>5. CallMade' /\ CallKept'
      BY <1>1, <2>3, <3>1 DEF ExecuteOK, CallMade, CallKept, At, Answered
    <3> QED  BY <2>3, <3>2, <3>4, <3>5 DEF ExecuteOK, TalksAdmitted, At
  <2> QED  BY <2>4, <2>5
<1> QED  BY <1>1, <1>3, <1>4

\* A proposal or an approval is written.
LEMMA WriteOutputInv ==
    ASSUME CmdInv, WriteOutput
    PROVE  CmdInv' /\ cmd'.op # "execute"
<1>1. UNCHANGED <<session, files, runs, artifacts>> /\ client = "off"
  BY DEF WriteOutput, CmdInv, Connected, At
<1>2. PICK code \in {0, 1} : Exit(code)
  BY DEF WriteOutput
<1> QED  BY <1>1, <1>2, ExitInv DEF session

\* An edit while a command runs is on the command's record.
LEMMA EditInv ==
    ASSUME CmdInv, cmd.op = "execute" => ExecuteOK, Edit
    PROVE  CmdInv' /\ (cmd'.op = "execute" => ExecuteOK')
<1>0. PICK f \in Settings : \E v \in (Contents(f) \cup {Absent}) \ {files[f]} :
        files' = [files EXCEPT ![f] = v] /\ edited' = IF Ended THEN edited ELSE edited \cup {f}
  BY DEF Edit
<1>1. PICK v \in Contents(f) \cup {Absent} :
        files' = [files EXCEPT ![f] = v] /\ edited' = IF Ended THEN edited ELSE edited \cup {f}
  BY <1>0
<1>2. UNCHANGED <<session, cmd, runs, artifacts>>
  BY DEF Edit
<1>3. files'[f] = v /\ DOMAIN files' = Settings /\ \A g \in Settings \ {f} : files'[g] = files[g]
  BY <1>1 DEF CmdInv, WorldOK
<1>4. CmdInv'
  <2>1. FieldsOK(cmd') /\ StageOK(cmd')
    BY <1>2 DEF CmdInv
  <2>2. WorldOK'
    BY <1>1, <1>2, <1>3 DEF CmdInv, WorldOK, Optional
  <2>3. Connected'
    BY <1>2 DEF CmdInv, Connected, session
  <2> QED  BY <2>1, <2>2, <2>3 DEF CmdInv
<1>5. ASSUME cmd'.op = "execute"
      PROVE  ExecuteOK'
  <2>1. cmd.op = "execute" /\ ExecuteOK /\ cmd' = cmd
    BY <1>2, <1>5
  <2>2. edited' = edited \cup {f}
    BY <1>1, <2>1 DEF Ended, CmdInv, StageOK
  <2>3. ASSUME NEW g \in Settings
        PROVE  /\ Fresh(g) => Fresh(g)'
               /\ Compared(g) => Compared(g)'
               /\ Bundled(g) => Bundled(g)'
    BY <1>3, <2>1, <2>2, <2>3 DEF Fresh, Wanted, Opts, Compared, Bundled
  <2>4. AllLoaded' /\ AllCompared' /\ AllBundled'
    BY <2>1, <2>3, Places DEF ExecuteOK, AllLoaded, AllCompared, AllBundled, At
  <2>5. ~At("talk") /\ ~At("talk")'
    BY <2>1 DEF Edit, At
  <2>6. Decided' /\ CallMade' /\ CallKept'
    BY <1>2, <2>1 DEF ExecuteOK, Decided, ApprovalMatches, CallMade, CallKept, At
  <2> QED  BY <2>4, <2>5, <2>6 DEF ExecuteOK, TalksAdmitted
<1> QED  BY <1>4, <1>5

\* A command that is killed has failed.
LEMMA KillInv ==
    ASSUME CmdInv, Kill
    PROVE  CmdInv' /\ cmd'.op # "execute"
<1>1. Exit(1) /\ client' = "off" /\ UNCHANGED <<files, runs, artifacts>>
  BY DEF Kill, Forget
<1> QED  BY <1>1, ExitInv

\* A command that starts has loaded nothing, and nobody has edited since.
LEMMA StartInv ==
    ASSUME CmdInv, MaxCommands \in Nat, StartNew \/ StartCommand \/ StartSmoke
    PROVE  CmdInv' /\ (cmd'.op = "execute" => ExecuteOK')
<1>1. /\ cmd.at = "ended" /\ UNCHANGED <<session, files, artifacts>> /\ edited' = {}
      /\ runs' \in 0 .. MaxCommands
  BY DEF StartNew, StartCommand, StartSmoke, Ended, CmdInv, WorldOK
<1>o. PICK op \in Ops : \E draft, id, decision : cmd' = Command(op, draft, id, decision)
  BY DEF StartNew, StartCommand, StartSmoke, Ops
<1>2. PICK draft, id, decision : cmd' = Command(op, draft, id, decision)
  BY <1>o
<1>3. FieldsOK(cmd') /\ StageOK(cmd')
  BY <1>2, CommandsAreOK
<1>4. cmd'.op = op /\ cmd'.at = (IF op = "new" THEN "hash" ELSE "load") /\ cmd'.next = 1
  BY <1>2 DEF Command
<1>5. CmdInv'
  <2>1. WorldOK'
    BY <1>1 DEF CmdInv, WorldOK
  <2>2. Connected'
    BY <1>1, <1>4 DEF CmdInv, Connected, session
  <2> QED  BY <1>3, <2>1, <2>2 DEF CmdInv
<1>6. ASSUME cmd'.op = "execute"
      PROVE  ExecuteOK'
  <2>1. AllLoaded'
    BY <1>4, <1>6, Places DEF AllLoaded, At
  <2> QED  BY <1>4, <1>6, <2>1, EarlyOK
<1> QED  BY <1>5, <1>6

-----------------------------------------------------------------------------
(* The specification.                                                      *)

\* The first state.
LEMMA InitInv == Init => IInv
<1> SUFFICES ASSUME Init
             PROVE  IInv
  OBVIOUS
<1> DEFINE c == Command("smoke", SomeDraft, 0, "approved")
<1>1. SessionTypeOK /\ SessionInv
  BY MaxNoiseAssumption, SessionInitInv DEF Init
<1>2. FieldsOK(c) /\ StageOK(c) /\ c.op = "smoke"
  BY CommandsAreOK DEF Ops, Kinds, Command
<1>3. cmd = [c EXCEPT !.at = "ended"]
  BY DEF Init
<1> HIDE DEF c
<1>4. FieldsOK(cmd) /\ StageOK(cmd) /\ cmd.op = "smoke" /\ cmd.at = "ended"
  BY <1>2, <1>3 DEF FieldsOK, StageOK, ConfigRead, CommandFields
<1>5. WorldOK
  BY McpAssumption DEF Init, WorldOK, Optional
<1>6. Connected
  BY <1>4 DEF Init, SessionInit, Connected
<1> QED  BY <1>1, <1>4, <1>5, <1>6 DEF IInv, CmdInv

\* Every step of a command opens, forgets, goes on with or leaves alone the exchange.
LEMMA SessionKeeps ==
    ASSUME SessionTypeOK, SessionInv, CmdInv, Next \/ UNCHANGED vars
    PROVE  SessionTypeOK' /\ SessionInv'
<1>1. CASE UNCHANGED session
  <2>1. UNCHANGED <<kind, client, step, stdin, stdout, server, fake, expired, runErr, taken, held, noise>>
    BY <1>1 DEF session
  <2>2. SessionTypeOK'
    BY <2>1 DEF SessionTypeOK
  <2>3. PipesInv => PipesInv'
    BY <2>1 DEF PipesInv, Bounded, Ordered, AfterLatest, Latest, About, Asked, Requests, Limit, Place
  <2> QED  BY <2>1, <2>2, <2>3, ListenInv DEF Listens
<1>2. CASE SessionStep
  BY <1>2, MaxNoiseAssumption, SessionStepInv
<1>3. CASE Forget
  BY <1>3, MaxNoiseAssumption, ForgetInv
<1>4. ASSUME NEW k \in Kinds, Open(k, cmd.got.config.testOnly), cmd.got["config"] \in Configs
      PROVE  SessionTypeOK' /\ SessionInv'
  <2>1. cmd.got.config.testOnly \in BOOLEAN
    BY <1>4, McpAssumption
  <2> QED  BY <1>4, <2>1, MaxNoiseAssumption, OpenInv
<1>5. CASE PlanCall \/ PlanSmoke
  <2>1. cmd.got["config"] \in Configs
    BY <1>5 DEF CmdInv, StageOK, ConfigRead, PlanCall, PlanSmoke, At, Talks
  <2>2. UNCHANGED session \/ \E k \in Kinds : Open(k, cmd.got.config.testOnly)
    BY <1>5 DEF PlanCall, PlanSmoke, Launch, Kinds
  <2> QED  BY <1>1, <1>4, <2>1, <2>2
<1>6. CASE Next
  <2>1. CASE CommandStep
    BY <1>1, <1>3, <1>5, <2>1 DEF CommandStep, LoadSetting, LoadRecord, Decide, HashForProposal, HashForApproval,
       CompareWithApproval, Hear, Reap, WriteCallArtifacts, WriteSmokeArtifacts, HashForBundle, WriteOutput
  <2>2. CASE StartNew \/ StartCommand \/ StartSmoke \/ Edit \/ Export
    BY <1>1, <2>2 DEF StartNew, StartCommand, StartSmoke, Edit, Export
  <2>3. CASE Talk \/ Kill
    BY <1>2, <1>3, <2>3 DEF Talk, Kill
  <2> QED  BY <1>6, <2>1, <2>2, <2>3 DEF Next
<1> QED  BY <1>1, <1>6 DEF vars

\* Every step keeps the invariant.
LEMMA NextInv ==
    IInv /\ [Next]_vars => IInv'
<1> SUFFICES ASSUME IInv, [Next]_vars
             PROVE  CmdInv' /\ (cmd'.op = "execute" => ExecuteOK')
  BY SessionKeeps DEF IInv
<1>i. SessionTypeOK /\ SessionInv /\ CmdInv /\ (cmd.op = "execute" => ExecuteOK)
  BY DEF IInv
<1>m. MaxCommands \in Nat
  BY McpAssumption
<1>1. CASE StartNew \/ StartCommand \/ StartSmoke
  BY <1>1, <1>i, <1>m, StartInv
<1>2. CASE LoadSetting \/ LoadRecord \/ Decide
  BY <1>2, <1>i, LoadSettingInv, LoadRecordInv, DecideInv
<1>3. CASE HashForProposal \/ HashForApproval \/ CompareWithApproval
  BY <1>3, <1>i, HashForProposalInv, HashForApprovalInv, CompareWithApprovalInv
<1>4. CASE PlanCall \/ PlanSmoke \/ Hear
  BY <1>4, <1>i, PlanCallInv, PlanSmokeInv, HearInv
<1>5. CASE WriteCallArtifacts \/ WriteSmokeArtifacts \/ HashForBundle \/ WriteOutput
  BY <1>5, <1>i, WriteCallArtifactsInv, WriteSmokeArtifactsInv, HashForBundleInv, WriteOutputInv
<1>6. CASE Talk
  BY <1>6, <1>i, TalkInv
<1>7. CASE Edit
  BY <1>7, <1>i, EditInv
<1>8. CASE Kill
  BY <1>8, <1>i, KillInv
<1>9. CASE Export \/ UNCHANGED vars
  <2>1. UNCHANGED <<session, files, artifacts, cmd, edited, runs>>
    BY <1>9 DEF Export, vars
  <2>2. client' = client /\ kind' = kind
    BY <2>1 DEF session
  <2>3. CmdInv'
    BY <1>i, <2>1, <2>2 DEF CmdInv, FieldsOK, StageOK, WorldOK, Connected
  <2>4. ASSUME ExecuteOK
        PROVE  ExecuteOK'
    BY <2>1, <2>2, <2>4
       DEF ExecuteOK, AllLoaded, Decided, AllCompared, AllBundled, TalksAdmitted, CallMade, CallKept, At,
           Fresh, Wanted, Opts, Compared, Bundled, LoadPlace, HashPlace, ApprovalMatches
  <2> QED  BY <1>i, <2>1, <2>3, <2>4
<1> QED  BY <1>1, <1>2, <1>3, <1>4, <1>5, <1>6, <1>7, <1>8, <1>9 DEF Next, CommandStep

\* The invariant holds of every behaviour.
THEOREM IInvHolds == Spec => []IInv
BY InitInv, NextInv, PTL DEF Spec

\* The command's fields, its step, the exchange's state and the settings are always of
\* their types (McpSession.tla and McpApproval.tla).
THEOREM McpTypeCorrect == Spec => []McpTypeOK
<1>1. IInv => McpTypeOK
  BY TypesFollow DEF IInv
<1> QED  BY <1>1, IInvHolds, PTL

\* The line a smoke command takes for the answer to a request answers that request, unless
\* the server wrote a line of its own before (smoke.go, the send closures).
THEOREM RecordedAnswerHolds == Spec => []RecordedAnswer
<1>1. IInv => RecordedAnswer
  BY DEF IInv, SessionInv
<1> QED  BY <1>1, IInvHolds, PTL

\* `execute` starts a server only under an approval of its proposal and arguments, for a call
\* that the policy and registry it has loaded admit, which are the approved ones unless
\* somebody edited them meanwhile (main.go, the handler of mcp proposal execute).
THEOREM CallWithinApprovalHolds == Spec => []CallWithinApproval
<1>1. IInv => CallWithinApproval
  <2> SUFFICES ASSUME IInv, cmd.op = "execute", cmd.at = "talk"
               PROVE  /\ <<cmd.approval.decision, cmd.approval.id, cmd.approval.args>>
                           = <<"approved", cmd.proposal.id, cmd.proposal.args>>
                      /\ Admits("call", cmd.got.policy, cmd.got.config, cmd.proposal)
                      /\ \A f \in Settings :
                           (Wanted(f) /\ cmd.approval.hash[f] # Absent) =>
                               cmd.got[f] = cmd.approval.hash[f] \/ f \in edited
    BY DEF CallWithinApproval
  <2>1. ExecuteOK
    BY DEF IInv
  <2>2. ApprovalMatches /\ Admits("call", cmd.got.policy, cmd.got.config, cmd.proposal)
    BY <2>1 DEF ExecuteOK, Decided, TalksAdmitted, At
  <2>3. \A f \in Settings : Fresh(f) /\ Compared(f)
    BY <2>1 DEF ExecuteOK, AllLoaded, AllCompared, At
  <2>4. ASSUME NEW f \in Settings, Wanted(f), cmd.approval.hash[f] # Absent
        PROVE  cmd.got[f] = cmd.approval.hash[f] \/ f \in edited
    BY <2>3, <2>4 DEF Fresh, Compared
  <2> QED  BY <2>2, <2>4 DEF ApprovalMatches
<1> QED  BY <1>1, IInvHolds, PTL

\* Only a command that has come to its last step and met no error exits well.
LEMMA OnlyWriteExitsWell ==
    ASSUME IInv, [Next]_vars, cmd.op = "execute", cmd'.at = "ended", cmd'.exit = 0
    PROVE  /\ cmd.at = "write" /\ ~cmd.failed
           /\ bundle' = BundleOf(cmd)
<1>1. ExecuteOK /\ CmdInv /\ cmd.at # "ended"
  BY DEF IInv, CmdInv, StageOK
<1>2. ~Exit(1)
  <2>1. Exit(1) => cmd'.exit = 1
    BY DEF Exit, Command
  <2> QED  BY <2>1
<1>d. DOMAIN cmd = CommandFields
  BY <1>1 DEF CmdInv, FieldsOK
<1>3. ASSUME NEW c, DOMAIN c = CommandFields, NEW at, at # "ended", GoTo(c, at)
      PROVE  FALSE
  BY <1>3, GoToCarries
<1>4. ASSUME NEW c, DOMAIN c = CommandFields, c.at # "ended", Become([c EXCEPT !.next = @ + 1])
      PROVE  FALSE
  BY <1>4, NextCarries
<1>5. ~LoadSetting
  <2>1. ASSUME NEW f
        PROVE  LET c == [cmd EXCEPT !.got[f] = files[f]] IN DOMAIN c = CommandFields /\ c.at = cmd.at
    BY <1>d DEF CommandFields
  <2> QED  BY <1>1, <1>2, <1>d, <1>3, <1>4, <2>1 DEF LoadSetting, Loaded
<1>6. ~LoadRecord
  <2>1. LET c == [cmd EXCEPT !.proposal = proposal] IN DOMAIN c = CommandFields /\ c.at = cmd.at
    BY <1>d DEF CommandFields
  <2>2. LET c == [cmd EXCEPT !.approval = approval] IN DOMAIN c = CommandFields /\ c.at = cmd.at
    BY <1>d DEF CommandFields
  <2> QED  BY <1>1, <1>2, <1>d, <1>3, <1>4, <2>1, <2>2 DEF LoadRecord, Loaded
<1>7. ~Decide /\ ~CompareWithApproval
  BY <1>1, <1>2, <1>d, <1>3, <1>4 DEF Decide, CompareWithApproval, Hashed
<1>8. ~HashForProposal /\ ~HashForApproval /\ ~PlanSmoke /\ ~WriteSmokeArtifacts
  BY DEF HashForProposal, HashForApproval, PlanSmoke, WriteSmokeArtifacts, Kinds
<1>9. ~PlanCall
  <2>1. LET c == [cmd EXCEPT !.status = "failed", !.failed = TRUE] IN DOMAIN c = CommandFields
    BY <1>d DEF CommandFields
  <2>2. LET c == [cmd EXCEPT !.failed = TRUE] IN DOMAIN c = CommandFields
    BY <1>d DEF CommandFields
  <2> QED  BY <1>d, <1>3, <2>1, <2>2 DEF PlanCall, Launch
<1>10. ~Hear /\ ~WriteCallArtifacts
  <2>1. ASSUME NEW s, NEW n, NEW l, NEW b
        PROVE  DOMAIN [cmd EXCEPT !.status = s, !.calls = n, !.answer = l, !.failed = b] = CommandFields
    BY <1>d DEF CommandFields
  <2>2. ASSUME NEW b
        PROVE  DOMAIN [cmd EXCEPT !.failed = b] = CommandFields
    BY <1>d DEF CommandFields
  <2> QED  BY <1>3, <2>1, <2>2 DEF Hear, WriteCallArtifacts
<1>11. ~HashForBundle
  <2>1. ASSUME NEW f
        PROVE  LET c == [cmd EXCEPT !.hash[f] = files[f]] IN DOMAIN c = CommandFields /\ c.at = cmd.at
    BY <1>d DEF CommandFields
  <2> QED  BY <1>1, <1>2, <1>d, <1>3, <1>4, <2>1 DEF HashForBundle, Hashed
<1>12. ~StartNew /\ ~StartCommand /\ ~StartSmoke
  BY <1>1 DEF StartNew, StartCommand, StartSmoke, Ended
<1>13. ~Talk /\ ~Edit /\ ~Export /\ ~UNCHANGED vars
  BY <1>1 DEF Talk, Edit, Export, vars
<1>14. ~Kill
  BY <1>2 DEF Kill
<1>15. WriteOutput
  BY <1>5, <1>6, <1>7, <1>8, <1>9, <1>10, <1>11, <1>12, <1>13, <1>14 DEF Next, CommandStep
<1>16. Put(FALSE) /\ Exit(IF cmd.failed THEN 1 ELSE 0)
  BY <1>2, <1>15 DEF WriteOutput
<1>17. bundle' = BundleOf(cmd)
  BY <1>16 DEF Put
<1> QED  BY <1>2, <1>15, <1>16, <1>17 DEF WriteOutput, At

\* An `execute` that exits well leaves a bundle that says what happened: one call, whose
\* answer the artifacts of this run hold, under the approved hashes of what it loaded
\* (main.go, the handler of mcp proposal execute; smoke.go, writeCallArtifacts).
THEOREM BundleTruthHolds == Spec => BundleTruth
<1> DEFINE Kept == \E line \in artifacts.answer : line.re \in {"tools/call", "none"} /\ line.says # "error"
           HashesAgree == \A f \in Settings \ edited :
                        /\ bundle'.hash[f] = cmd.got[f] \/ ~Wanted(f)
                        /\ bundle'.approval.hash[f] \in {Absent, bundle'.hash[f]}
<1>1. ASSUME IInv, [Next]_vars, cmd.op = "execute", cmd'.at = "ended", cmd'.exit = 0
      PROVE  /\ bundle'.run = runs /\ bundle'.status = "succeeded" /\ bundle'.calls = 1
             /\ artifacts.result = runs /\ artifacts.response = runs
             /\ Kept
             /\ HashesAgree
  <2>1. cmd.at = "write" /\ ~cmd.failed /\ bundle' = BundleOf(cmd)
    BY <1>1, OnlyWriteExitsWell
  <2>2. /\ bundle'.run = runs /\ bundle'.status = cmd.status /\ bundle'.calls = cmd.calls
        /\ bundle'.hash = cmd.hash /\ bundle'.approval = cmd.approval
    BY <2>1 DEF BundleOf
  <2>3. ExecuteOK
    BY <1>1 DEF IInv
  <2>4. cmd.status = "succeeded" /\ cmd.calls = 1 /\ Answered(cmd.answer)
    BY <2>1, <2>3 DEF ExecuteOK, CallMade, At
  <2>5. artifacts.result = runs /\ artifacts.response = runs /\ artifacts.answer = cmd.answer
    BY <2>1, <2>3 DEF ExecuteOK, CallKept, At
  <2>6. \A f \in Settings : Fresh(f) /\ Compared(f) /\ Bundled(f)
    BY <2>1, <2>3 DEF ExecuteOK, AllLoaded, AllCompared, AllBundled, At
  <2>7. HashesAgree
    <3> SUFFICES ASSUME NEW f \in Settings \ edited
                 PROVE  /\ cmd.hash[f] = cmd.got[f] \/ ~Wanted(f)
                        /\ cmd.approval.hash[f] \in {Absent, cmd.hash[f]}
      BY <2>2
    <3>1. cmd.hash[f] = cmd.got[f] \/ ~Wanted(f)
      BY <1>1, <2>6 DEF Fresh, Bundled, Wanted, Opts
    <3>2. cmd.approval.hash[f] \in {Absent, cmd.hash[f]}
      BY <2>6 DEF Compared, Bundled
    <3> QED  BY <3>1, <3>2
  <2> QED  BY <2>2, <2>4, <2>5, <2>7 DEF Answered
<1>2. IInv /\ [Next]_vars =>
        [(cmd.op = "execute" /\ cmd'.at = "ended" /\ cmd'.exit = 0) =>
          /\ bundle'.run = runs /\ bundle'.status = "succeeded" /\ bundle'.calls = 1
          /\ artifacts.result = runs /\ artifacts.response = runs
          /\ \E line \in artifacts.answer : line.re \in {"tools/call", "none"} /\ line.says # "error"
          /\ \A f \in Settings \ edited :
               /\ bundle'.hash[f] = cmd.got[f] \/ ~Wanted(f)
               /\ bundle'.approval.hash[f] \in {Absent, bundle'.hash[f]}]_vars
  BY <1>1
<1> QED  BY <1>2, IInvHolds, PTL DEF Spec, BundleTruth
=============================================================================
