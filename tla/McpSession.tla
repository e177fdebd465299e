----------------------------- MODULE McpSession -----------------------------
(***************************************************************************)
(* The exchange a smoke command has with an MCP server                     *)
(* (src/internal/mcpsmoke/smoke.go, runCommandSmoke and its three kin):    *)
(* the command starts the server's process, writes one request line at a   *)
(* time to its standard input and takes the next line of its standard      *)
(* output for the answer, whatever that line is; it ends with an exit      *)
(* notification, closes the input and waits for the process.  A timer      *)
(* kills the process.  The server of the registry's tests is RunFakeServer; *)
(* any other server is external and answers, keeps silent, writes lines of *)
(* its own, or ends when it likes.                                         *)
(***************************************************************************)
EXTENDS Naturals, Sequences

CONSTANT MaxNoise    \* lines a server writes that answer no request (a bound)

ASSUME MaxNoiseAssumption == MaxNoise \in Nat

VARIABLES
    kind,      \* which command talks: "smoke", "discover", "tool" or "call"
    client,    \* "off", "sending", "waiting", "closing" or "reaping"
    step,      \* the request at hand, an index into Methods(kind)
    stdin,     \* lines the server has not read
    stdout,    \* lines the command has not read
    server,    \* "none", "running", "exited", "crashed" or "killed"
    fake,      \* the server is RunFakeServer
    expired,   \* the context's deadline has passed
    runErr,    \* an error the command has met
    taken,     \* the lines taken for answers, in order
    held,      \* the server has ended, a child of it holds its output open
    noise      \* lines written that answer no request

session == <<kind, client, step, stdin, stdout, server, fake, expired, runErr, taken, held, noise>>

Kinds == {"smoke", "discover", "tool", "call"}
Calls(k) == k \in {"tool", "call"}

\* The requests of a session, in order.
Methods(k) ==
    IF Calls(k) THEN <<"initialize", "tools/list", "tools/call", "shutdown">>
                ELSE <<"initialize", "tools/list", "shutdown">>

\* A line of the server: the request it answers, or "none", and what it says.  "other" is
\* a result without the tool that was asked for, "garbled" a line that is not JSON.
Says == {"result", "other", "error", "garbled"}
Line(re, says) == [re |-> re, says |-> says]
Lines == [re: {"initialize", "tools/list", "tools/call", "shutdown", "none"}, says: Says]

Listed(line) == line.re = "tools/list" /\ line.says = "result"

-----------------------------------------------------------------------------
SessionInit ==
    /\ kind = "smoke" /\ client = "off" /\ step = 1
    /\ stdin = <<>> /\ stdout = <<>> /\ taken = <<>>
    /\ server = "none" /\ fake = TRUE
    /\ expired = FALSE /\ runErr = FALSE /\ held = FALSE /\ noise = 0

\* cmd.Start: the process runs, or the command reports that it cannot be started.
Open(k, isFake) ==
    /\ client = "off"
    /\ kind' = k /\ fake' = isFake
    /\ client' = "sending" /\ server' = "running"
    /\ step' = 1 /\ stdin' = <<>> /\ stdout' = <<>> /\ taken' = <<>>
    /\ expired' = FALSE /\ runErr' = FALSE /\ held' = FALSE /\ noise' = 0

\* The request is written and flushed; a process that has gone breaks the pipe.
Send ==
    /\ client = "sending"
    /\ IF server = "running"
       THEN /\ stdin' = Append(stdin, Methods(kind)[step])
            /\ client' = "waiting"
            /\ UNCHANGED runErr
       ELSE /\ runErr' = TRUE
            /\ client' = "closing"
            /\ UNCHANGED stdin
    /\ UNCHANGED <<kind, step, stdout, server, fake, expired, taken, held, noise>>

\* A line ends the exchange if it cannot be parsed, if it carries an error (which the
\* plain smoke does not look at), or if the list of tools lacks the tool to be called.
Refused(line) ==
    \/ line.says = "garbled"
    \/ line.says = "error" /\ kind # "smoke"
    \/ Calls(kind) /\ Methods(kind)[step] = "tools/list" /\ ~Listed(line)

\* Mutant: after a line that cannot be parsed the request is sent again.
ReceiveAgain ==
    /\ client = "waiting" /\ stdout # <<>>
    /\ stdout' = Tail(stdout) /\ taken' = Append(taken, Head(stdout))
    /\ client' = IF step = Len(Methods(kind)) THEN "closing" ELSE "sending"
    /\ step' = IF step = Len(Methods(kind)) \/ Head(stdout).says = "garbled" THEN step ELSE step + 1
    /\ UNCHANGED <<kind, stdin, server, fake, expired, runErr, held, noise>>

\* The next line is the answer to the request at hand: its id is not looked at.
Receive ==
    /\ client = "waiting" /\ stdout # <<>>
    /\ LET line == Head(stdout) IN
         /\ stdout' = Tail(stdout)
         /\ taken' = Append(taken, line)
         /\ IF Refused(line)
            THEN runErr' = TRUE /\ client' = "closing" /\ step' = step
            ELSE /\ UNCHANGED runErr
                 /\ IF step = Len(Methods(kind))
                    THEN client' = "closing" /\ step' = step
                    ELSE client' = "sending" /\ step' = step + 1
    /\ UNCHANGED <<kind, stdin, server, fake, expired, held, noise>>

\* The output is at its end: nobody has it open.
ReceiveNothing ==
    /\ client = "waiting" /\ stdout = <<>> /\ server # "running" /\ ~held
    /\ runErr' = TRUE /\ client' = "closing"
    /\ UNCHANGED <<kind, step, stdin, stdout, server, fake, expired, taken, held, noise>>

\* The exit notification is written, whatever went before, and the input is closed.
SayExit ==
    /\ client = "closing"
    /\ client' = "reaping"
    /\ IF server = "running"
       THEN stdin' = Append(stdin, "exit") /\ UNCHANGED runErr
       ELSE runErr' = TRUE /\ UNCHANGED stdin
    /\ UNCHANGED <<kind, step, stdout, server, fake, expired, taken, held, noise>>

\* cmd.Wait returns.  The deadline outranks every other outcome.
Reapable == client = "reaping" /\ server # "running"
\* Mutant: an error met on the way is forgotten when the server exits well.
SucceededByExit == ~expired /\ server = "exited"

Succeeded == ~expired /\ ~runErr /\ server = "exited"

\* Nothing of the exchange is left in the command.
Forget ==
    /\ kind' = "smoke" /\ client' = "off" /\ step' = 1
    /\ stdin' = <<>> /\ stdout' = <<>> /\ taken' = <<>>
    /\ server' = "none" /\ fake' = TRUE
    /\ expired' = FALSE /\ runErr' = FALSE /\ held' = FALSE /\ noise' = 0

\* Mutant: the exchange is not closed.
ReapHalf == Reapable /\ UNCHANGED session

Reap == Reapable /\ Forget

\* The result taken for the call's answer, as toolResponse; none before, or if it failed.
CallAnswer ==
    IF Calls(kind) /\ Len(taken) >= 3 /\ taken[3].says \notin {"error", "garbled"}
    THEN {taken[3]} ELSE {}

-----------------------------------------------------------------------------
\* A child of the server may outlive it, with its output open; no kill reaches it.
Orphans == held' \in {FALSE, ~fake}

\* context.WithTimeout, and the kill that exec.CommandContext does when it is over.
Expire ==
    /\ client # "off" /\ ~expired
    /\ expired' = TRUE
    /\ UNCHANGED <<kind, client, step, stdin, stdout, server, fake, runErr, taken, held, noise>>

\* Mutant: exec.Command, which knows no context.
KillNothing == FALSE

KillServer ==
    /\ expired /\ server = "running"
    /\ server' = "killed"
    /\ Orphans
    /\ UNCHANGED <<kind, client, step, stdin, stdout, fake, expired, runErr, taken, noise>>

\* RunFakeServer: one answer for each request, until it is told to exit.
FakeSays(m) == CASE m = "tools/list" -> {"result", "other"}
                 [] m = "tools/call" -> {"result", "error"}
                 [] OTHER            -> {"result"}

FakeServes ==
    /\ fake /\ server = "running" /\ stdin # <<>>
    /\ stdin' = Tail(stdin)
    /\ IF Head(stdin) = "exit"
       THEN server' = "exited" /\ UNCHANGED stdout
       ELSE /\ \E says \in FakeSays(Head(stdin)) : stdout' = Append(stdout, Line(Head(stdin), says))
            /\ UNCHANGED server
    /\ UNCHANGED <<kind, client, step, fake, expired, runErr, taken, held, noise>>

\* Any other server answers or drops a request,
RealSays(m) == IF m = "tools/list" THEN Says ELSE Says \ {"other"}

RealServes ==
    /\ ~fake /\ server = "running" /\ stdin # <<>>
    /\ stdin' = Tail(stdin)
    /\ \/ UNCHANGED stdout
       \/ /\ Head(stdin) # "exit"
          /\ \E says \in RealSays(Head(stdin)) : stdout' = Append(stdout, Line(Head(stdin), says))
    /\ UNCHANGED <<kind, client, step, server, fake, expired, runErr, taken, held, noise>>

\* writes a line nobody asked for,
RealNotifies ==
    /\ ~fake /\ server = "running" /\ noise < MaxNoise
    /\ noise' = noise + 1
    /\ stdout' = Append(stdout, Line("none", "result"))
    /\ UNCHANGED <<kind, client, step, stdin, server, fake, expired, runErr, taken, held>>

\* and ends, well or not, when it likes.
RealEnds ==
    /\ ~fake /\ server = "running"
    /\ server' \in {"exited", "crashed"}
    /\ Orphans
    /\ UNCHANGED <<kind, client, step, stdin, stdout, fake, expired, runErr, taken, noise>>

ChildEnds ==
    /\ held
    /\ held' = FALSE
    /\ UNCHANGED <<kind, client, step, stdin, stdout, server, fake, expired, runErr, taken, noise>>

ClientStep == Send \/ Receive \/ ReceiveNothing \/ SayExit
ServerStep == FakeServes \/ RealServes \/ RealNotifies \/ RealEnds \/ ChildEnds
SessionStep == ClientStep \/ ServerStep \/ Expire \/ KillServer

-----------------------------------------------------------------------------
SessionTypeOK ==
    /\ kind \in Kinds /\ step \in 1..4
    /\ client \in {"off", "sending", "waiting", "closing", "reaping"}
    /\ server \in {"none", "running", "exited", "crashed", "killed"}
    /\ fake \in BOOLEAN /\ {expired, runErr, held} \subseteq BOOLEAN
    /\ stdout \in Seq(Lines) /\ taken \in Seq(Lines)
    /\ stdin \in Seq({"initialize", "tools/list", "tools/call", "shutdown", "exit"})
    /\ noise \in 0..MaxNoise

\* The line taken for the answer to a request answers that request, unless the server wrote
\* a line of its own before: the command reads one line for each line it writes, and skips
\* none (smoke.go, the send closures, which do not look at the ids).
RecordedAnswer ==
    \A i \in DOMAIN taken :
        taken[i].re = Methods(kind)[i] \/ \E j \in 1..i : taken[j].re = "none"

=============================================================================
