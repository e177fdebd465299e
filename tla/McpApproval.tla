----------------------------- MODULE McpApproval -----------------------------
(***************************************************************************)
(* The proposal, approval and execution of one MCP tool call               *)
(* (src/internal/mcpapproval/approval.go, the mcp handlers of              *)
(* src/cmd/deonctl/main.go) and the smoke commands (internal/mcpsmoke).    *)
(*                                                                         *)
(* A command loads its files one after the other, the call policy, the     *)
(* registry and the runtime config among them, which anybody edits at any  *)
(* time.  `execute` decides on the contents it has loaded, then hashes the  *)
(* files again for the comparison with the approval, talks to the server   *)
(* (McpSession), writes the artifacts of the call and hashes the files a   *)
(* third time for its bundle.  A content stands for its own hash.          *)
(***************************************************************************)
EXTENDS McpSession, FiniteSets

CONSTANTS
    Absent,        \* no file, or no hash
    Torn,          \* a file that a killed command had begun to write
    Policies,      \* contents of a policy file: [valid, tools, docker, limit]
    Configs,       \* registries, as to the server: [valid, known, enabled, stdio, caps, testOnly]
    Runtimes,      \* contents of a runtime config
    Drafts,        \* the options of a proposal: [tool, args, runtime, paths]
    Starts,        \* the settings files at first
    MaxProposals,  \* proposals made (a bound)
    MaxCommands,   \* approve and execute commands started (a bound)
    MaxSmokes,     \* smoke commands started (a bound)
    MaxEdits,      \* edits of the three files (a bound)
    MaxKills       \* commands killed (a bound)

Settings == {"policy", "config", "runtime"}
Contents(f) == CASE f = "policy" -> Policies [] f = "config" -> Configs [] f = "runtime" -> Runtimes

ASSUME McpAssumption ==
    /\ \A start \in Starts : DOMAIN start = Settings /\ \A f \in Settings : start[f] \in Contents(f)
    /\ Policies \subseteq [valid: BOOLEAN, tools: SUBSET {d.tool : d \in Drafts}, docker: BOOLEAN, limit: Nat]
    /\ Configs \subseteq [valid: BOOLEAN, known: BOOLEAN, enabled: BOOLEAN, stdio: BOOLEAN,
                          caps: SUBSET {"read", "write", "exec"}, testOnly: BOOLEAN]
    /\ \A d \in Drafts : d.args \in Nat /\ d.runtime \in {"local", "docker"} /\ d.paths \subseteq {"config", "runtime"}
    /\ {MaxProposals, MaxCommands, MaxSmokes, MaxEdits, MaxKills} \subseteq Nat


VARIABLES
    files,      \* the three settings files
    proposal, approval, bundle,   \* the files of those names
    artifacts,  \* mcp-call-result.json and mcp-call-response.json: the run each is of, the answer
    cmd,        \* the command that runs, or the last one
    edited,     \* the settings edited since it started
    made, runs, smokes, edits, kills  \* what the bounds count

vars == <<session, files, proposal, approval, bundle, artifacts, cmd, edited, made, runs, smokes, edits, kills>>

Ops == {"new", "approve", "execute"} \cup Kinds
Talks == {"execute"} \cup Kinds      \* the commands that start a server
KindOf(op) == IF op = "execute" THEN "call" ELSE op

\* What a command reads before it decides, in its order.
Loads(op) ==
    CASE op = "new"     -> <<>>
      [] op = "approve" -> <<"proposal", "policy">>
      [] op = "execute" -> <<"proposal", "config", "policy", "runtime", "approval">>
      [] op = "smoke"   -> <<"config", "runtime">>
      [] OTHER          -> <<"config", "runtime", "policy">>

\* The order in which it hashes them afterwards: for a proposal, for an approval, to compare
\* them with the approval and, after the call, for the bundle.
SettingOrder == <<"policy", "config", "runtime">>

Ended == cmd.at = "ended"

\* The fields a command carries: its options, what it has loaded and hashed, how the call
\* went; of a command that has ended only the exit status is left.
NoHashes == [f \in Settings |-> Absent]
Command(op, draft, id, decision) ==
    [op |-> op, at |-> IF op = "new" THEN "hash" ELSE "load", next |-> 1,
     draft |-> draft, id |-> id, decision |-> decision,
     got |-> NoHashes, hash |-> NoHashes, proposal |-> Absent, approval |-> Absent,
     status |-> "", calls |-> 0, answer |-> {}, failed |-> FALSE, exit |-> 0]

SomeDraft == CHOOSE d \in Drafts : TRUE
At(at) == cmd.at = at
Exit(code) ==
    /\ cmd' = [Command("smoke", SomeDraft, 0, "approved") EXCEPT !.at = "ended", !.exit = code]
    /\ edited' = {}
Become(c) == cmd' = c /\ UNCHANGED edited
GoTo(c, at) == Become([c EXCEPT !.at = at, !.next = 1])

\* The tool, arguments, runtime and paths a command works with.
Opts == IF cmd.op \in {"approve", "execute"} THEN cmd.proposal ELSE cmd.draft

-----------------------------------------------------------------------------
Init ==
    /\ SessionInit
    /\ files \in Starts
    /\ proposal = Absent /\ approval = Absent /\ bundle = Absent
    /\ artifacts = [result |-> 0, response |-> 0, answer |-> {}]
    /\ cmd = [Command("smoke", SomeDraft, 0, "approved") EXCEPT !.at = "ended"]
    /\ edited = {} /\ made = 0 /\ runs = 0 /\ smokes = 0 /\ edits = 0 /\ kills = 0

StartNew ==
    /\ Ended /\ made < MaxProposals
    /\ \E d \in Drafts, id \in 1..made + 1 : cmd' = Command("new", d, id, "approved")
    /\ made' = made + 1 /\ edited' = {}
    /\ UNCHANGED <<session, files, proposal, approval, bundle, artifacts, runs, smokes, edits, kills>>

StartCommand ==
    /\ Ended /\ runs < MaxCommands
    /\ \/ \E decision \in {"approved", "rejected"} : cmd' = Command("approve", SomeDraft, 0, decision)
       \/ cmd' = Command("execute", SomeDraft, 0, "approved")
    /\ runs' = runs + 1 /\ edited' = {}
    /\ UNCHANGED <<session, files, proposal, approval, bundle, artifacts, made, smokes, edits, kills>>

\* A smoke command writes nothing the others read, nor reads what they write: it may as well
\* come first.
StartSmoke ==
    /\ Ended /\ smokes < MaxSmokes /\ made = 0 /\ runs = 0
    /\ \E op \in Kinds, d \in Drafts : cmd' = Command(op, d, 0, "approved")
    /\ smokes' = smokes + 1 /\ edited' = {}
    /\ UNCHANGED <<session, files, proposal, approval, bundle, artifacts, made, runs, edits, kills>>

\* loadMCPProposalValidationInputs, and the loads of the other handlers.  The runtime config
\* is loaded only for docker, and only where its path is given.
Wanted(f) == f = "runtime" => Opts.runtime = "docker" /\ "runtime" \in Opts.paths
Loaded(c) == IF c.next = Len(Loads(c.op)) THEN GoTo(c, "decide") ELSE Become([c EXCEPT !.next = @ + 1])

LoadSetting ==
    /\ At("load")
    /\ LET f == Loads(cmd.op)[cmd.next] IN
         /\ f \in Settings
         /\ IF ~Wanted(f) THEN Loaded(cmd)
            ELSE IF files[f] = Absent THEN Exit(1)
            ELSE Loaded([cmd EXCEPT !.got[f] = files[f]])
    /\ UNCHANGED <<session, files, proposal, approval, bundle, artifacts, made, runs, smokes, edits, kills>>

LoadRecord ==
    /\ At("load")
    /\ LET f == Loads(cmd.op)[cmd.next] IN
         \/ /\ f = "proposal"
            /\ IF proposal \in {Absent, Torn} THEN Exit(1) ELSE Loaded([cmd EXCEPT !.proposal = proposal])
         \/ /\ f = "approval"
            /\ IF approval \in {Absent, Torn} THEN Exit(1) ELSE Loaded([cmd EXCEPT !.approval = approval])
    /\ UNCHANGED <<session, files, proposal, approval, bundle, artifacts, made, runs, smokes, edits, kills>>

\* A server that any command may start: registered, disabled for all other use, read only.
Startable(config) ==
    /\ config.valid /\ config.known /\ ~config.enabled /\ config.stdio
    /\ config.caps \cap {"write", "exec"} = {}

\* One that is not a test server has its capabilities listed, and runs in docker if the
\* policy says so.
RealAllowed(policy, config, opts) ==
    config.caps # {} /\ (config.testOnly \/ ~policy.docker \/ opts.runtime = "docker")

\* A tool stands for its server too.
ToolAllowed(k, policy, opts) == opts.tool \in policy.tools /\ (k = "call" => opts.args <= policy.limit)

Admits(k, policy, config, opts) ==
    /\ Startable(config)
    /\ k # "smoke" => policy.valid
    /\ IF k \in {"smoke", "tool"} THEN config.testOnly ELSE RealAllowed(policy, config, opts)
    /\ Calls(k) => ToolAllowed(k, policy, opts)

\* BuildPreflight, on what was loaded.
Preflight ==
    /\ Admits("call", cmd.got.policy, cmd.got.config, cmd.proposal)
    /\ cmd.proposal.runtime = "docker" => cmd.got.runtime # Absent

\* ValidateExecution, before it reads a file.
ApprovalMatches ==
    /\ cmd.approval.decision = "approved"
    /\ cmd.approval.id = cmd.proposal.id
    /\ cmd.approval.args = cmd.proposal.args

Decide ==
    /\ At("decide")
    /\ CASE cmd.op = "approve" -> IF cmd.got.policy.valid THEN GoTo(cmd, "hash") ELSE Exit(1)
         [] cmd.op = "execute" -> \* the variables of the environment may be missing
                                  \E env \in BOOLEAN :
                                     IF env /\ Preflight /\ ApprovalMatches THEN GoTo(cmd, "hash") ELSE Exit(1)
         [] OTHER              -> GoTo(cmd, "plan")
    /\ UNCHANGED <<session, files, proposal, approval, bundle, artifacts, made, runs, smokes, edits, kills>>

-----------------------------------------------------------------------------
Hashed(c, then) == IF c.next = 3 THEN GoTo(c, then) ELSE Become([c EXCEPT !.next = @ + 1])
HashAt == SettingOrder[cmd.next]

\* NewProposal hashes the registry and the runtime config; a missing file is no hash.
HashForProposal ==
    /\ At("hash") /\ cmd.op = "new"
    /\ IF HashAt \in cmd.draft.paths
       THEN Hashed([cmd EXCEPT !.hash[HashAt] = files[HashAt]], "write")
       ELSE Hashed(cmd, "write")
    /\ UNCHANGED <<session, files, proposal, approval, bundle, artifacts, made, runs, smokes, edits, kills>>

\* BuildApproval hashes the policy, and what the proposal has a path but no hash for.
HashForApproval ==
    /\ At("hash") /\ cmd.op = "approve"
    /\ LET f == HashAt IN
         IF f = "policy" /\ files[f] = Absent THEN Exit(1)
         ELSE Hashed([cmd EXCEPT !.hash[f] =
                        IF f = "policy" \/ (cmd.proposal.hash[f] = Absent /\ f \in cmd.proposal.paths)
                        THEN files[f] ELSE cmd.proposal.hash[f]], "write")
    /\ UNCHANGED <<session, files, proposal, approval, bundle, artifacts, made, runs, smokes, edits, kills>>

\* Mutant: the files are compared with what was loaded.
CompareWithLoaded ==
    /\ At("hash") /\ cmd.op = "execute"
    /\ IF ~Wanted(HashAt) \/ files[HashAt] = cmd.got[HashAt] THEN Hashed(cmd, "plan") ELSE Exit(1)
    /\ UNCHANGED <<session, files, proposal, approval, bundle, artifacts, made, runs, smokes, edits, kills>>

\* The rest of ValidateExecution: the files as they are now against the approval's hashes.
CompareWithApproval ==
    /\ At("hash") /\ cmd.op = "execute"
    /\ LET f == HashAt
           bound == cmd.approval.hash[f]
           pathed == f = "runtime" => "runtime" \in cmd.proposal.paths
       IN IF (f # "policy" /\ bound = Absent) \/ (pathed /\ files[f] = bound /\ files[f] # Absent)
          THEN Hashed(cmd, "plan")
          ELSE Exit(1)
    /\ UNCHANGED <<session, files, proposal, approval, bundle, artifacts, made, runs, smokes, edits, kills>>

-----------------------------------------------------------------------------
\* What was loaded is validated and the launch planned, which may fail for docker's mounts
\* and variables; then the process is started, or it cannot be.
Launch(k, c) ==
    /\ Admits(k, cmd.got.policy, cmd.got.config, Opts)
    /\ Opts.runtime = "docker" => cmd.got.runtime # Absent
    /\ \/ Open(k, cmd.got.config.testOnly) /\ GoTo(c, "talk")
       \/ GoTo([c EXCEPT !.status = "failed", !.failed = TRUE], "artifacts") /\ UNCHANGED session

\* CallSmoke within `execute`: what it refuses goes into the bundle.
PlanCall ==
    /\ At("plan") /\ cmd.op = "execute"
    /\ \/ Launch("call", cmd)
       \/ GoTo([cmd EXCEPT !.failed = TRUE], "bundle") /\ UNCHANGED session
    /\ UNCHANGED <<files, proposal, approval, bundle, artifacts, made, runs, smokes, edits, kills>>

\* Smoke, ToolSmoke, Discover and CallSmoke, which look at none of their options afterwards.
PlanSmoke ==
    /\ At("plan") /\ cmd.op \in Kinds
    /\ \/ Launch(cmd.op, Command(cmd.op, SomeDraft, 0, "approved"))
       \/ Exit(1) /\ UNCHANGED session
    /\ UNCHANGED <<files, proposal, approval, bundle, artifacts, made, runs, smokes, edits, kills>>

Talk ==
    /\ At("talk") /\ SessionStep
    /\ UNCHANGED <<files, proposal, approval, bundle, artifacts, cmd, edited, made, runs, smokes, edits, kills>>

Hear ==
    /\ At("talk") /\ Reap
    /\ GoTo([cmd EXCEPT !.status = IF Succeeded THEN "succeeded" ELSE "failed",
                        !.calls = IF Succeeded /\ Calls(kind) THEN 1 ELSE 0,
                        !.answer = CallAnswer,
                        !.failed = ~Succeeded], "artifacts")
    /\ UNCHANGED <<files, proposal, approval, bundle, artifacts, made, runs, smokes, edits, kills>>

\* writeCallArtifacts: a write that fails ends it.  The error is the command's when the call
\* went well and is dropped when it did not; the status stays.
WriteCallArtifacts ==
    /\ At("artifacts") /\ cmd.op = "execute"
    /\ \E n \in 0..2 :
         /\ artifacts' = [result   |-> IF n >= 1 THEN runs ELSE artifacts.result,
                          response |-> IF n = 2 THEN runs ELSE artifacts.response,
                          answer   |-> IF n = 2 THEN cmd.answer ELSE artifacts.answer]
         /\ GoTo([cmd EXCEPT !.failed = @ \/ n < 2], "bundle")
    /\ UNCHANGED <<session, files, proposal, approval, bundle, made, runs, smokes, edits, kills>>

\* Its kin.  A smoke command has a directory of its own, which nothing reads.
WriteSmokeArtifacts ==
    /\ At("artifacts") /\ cmd.op \in Kinds
    /\ (Exit(IF cmd.failed THEN 1 ELSE 0) \/ Exit(1))
    /\ UNCHANGED <<session, files, proposal, approval, bundle, artifacts, made, runs, smokes, edits, kills>>

\* BuildExecutionBundle, however the call went, hashes the files once more.
HashForBundle ==
    /\ At("bundle")
    /\ LET f == HashAt
           pathed == f = "runtime" => "runtime" \in cmd.proposal.paths
       IN IF ~pathed THEN Hashed(cmd, "write")
          ELSE IF files[f] = Absent THEN Exit(1)
          ELSE Hashed([cmd EXCEPT !.hash[f] = files[f]], "write")
    /\ UNCHANGED <<session, files, proposal, approval, bundle, artifacts, made, runs, smokes, edits, kills>>

\* writeMCPProposal, writeMCPApproval, writeMCPExecutionBundle: the result of the command.
ProposalOf(c) == [id |-> c.id, tool |-> c.draft.tool, args |-> c.draft.args,
                  runtime |-> c.draft.runtime, paths |-> c.draft.paths, hash |-> c.hash]
ApprovalOf(c) == [id |-> c.proposal.id, args |-> c.proposal.args, decision |-> c.decision, hash |-> c.hash]
BundleOf(c) == [proposal |-> c.proposal, approval |-> c.approval, hash |-> c.hash,
                status |-> c.status, calls |-> c.calls, run |-> runs]

\* The command's file is written, whole or torn.
Put(torn) ==
    LET Cut(r) == IF torn THEN Torn ELSE r IN
    /\ proposal' = IF cmd.op = "new" THEN Cut(ProposalOf(cmd)) ELSE proposal
    /\ approval' = IF cmd.op = "approve" THEN Cut(ApprovalOf(cmd)) ELSE approval
    /\ bundle' = IF cmd.op = "execute" THEN Cut(BundleOf(cmd)) ELSE bundle

WriteOutput ==
    /\ At("write")
    /\ \/ Put(FALSE) /\ Exit(IF cmd.failed THEN 1 ELSE 0)
       \/ UNCHANGED <<proposal, approval, bundle>> /\ Exit(1)
    /\ UNCHANGED <<session, files, artifacts, made, runs, smokes, edits, kills>>

-----------------------------------------------------------------------------
\* Anybody edits, removes or restores a settings file.  Nothing reads one during the exchange:
\* an edit made then is one made just after it.
Edit ==
    /\ edits < MaxEdits /\ ~At("talk")
    /\ \E f \in Settings : \E c \in (Contents(f) \cup {Absent}) \ {files[f]} :
         files' = [files EXCEPT ![f] = c] /\ edited' = IF Ended THEN edited ELSE edited \cup {f}
    /\ edits' = edits + 1
    /\ UNCHANGED <<session, proposal, approval, bundle, artifacts, cmd, made, runs, smokes, kills>>

\* A worker's proposal is exported to the path: its id and hashes are what the worker wrote.
\* A command reads the proposal once, so an export during a command is one before or after it.
Export ==
    /\ Ended /\ made < MaxProposals
    /\ made' = made + 1
    /\ \E d \in Drafts, id \in 1..MaxProposals :
         proposal' = ProposalOf([Command("new", d, id, "approved") EXCEPT !.hash = NoHashes])
    /\ UNCHANGED <<session, files, approval, bundle, artifacts, cmd, edited, runs, smokes, edits, kills>>

\* The command is killed; a file it was writing is cut short, a server it has started is
\* left to itself.
Kill ==
    /\ ~Ended /\ kills < MaxKills
    /\ kills' = kills + 1
    /\ Exit(1) /\ Forget
    /\ \/ cmd.at = "write" /\ Put(TRUE)
       \/ UNCHANGED <<proposal, approval, bundle>>
    /\ UNCHANGED <<files, artifacts, made, runs, smokes, edits>>

CommandStep ==
    \/ LoadSetting \/ LoadRecord \/ Decide
    \/ HashForProposal \/ HashForApproval \/ CompareWithApproval
    \/ PlanCall \/ PlanSmoke \/ Hear \/ WriteCallArtifacts \/ WriteSmokeArtifacts \/ HashForBundle \/ WriteOutput

Next == StartNew \/ StartCommand \/ StartSmoke \/ CommandStep \/ Talk \/ Edit \/ Export \/ Kill

Spec == Init /\ [][Next]_vars

\* The process goes on unless it waits for the server; the timer and the kill it leads to
\* come in the end, so nothing is asked of the server.
Clocked == At("talk") /\ (ClientStep \/ Expire \/ KillServer)
           /\ UNCHANGED <<files, proposal, approval, bundle, artifacts, cmd, edited, made, runs, smokes, edits, kills>>
FairSpec == Spec /\ WF_vars(CommandStep) /\ WF_vars(Clocked)

-----------------------------------------------------------------------------
Optional(S) == S \cup {Absent}

McpTypeOK ==
    /\ SessionTypeOK
    /\ \A f \in Settings : files[f] \in Optional(Contents(f)) /\ cmd.got[f] \in Optional(Contents(f))
    /\ cmd.op \in Ops /\ cmd.exit \in {0, 1} /\ cmd.calls \in {0, 1} /\ cmd.next \in 1..5
    /\ cmd.at \in {"load", "decide", "hash", "plan", "talk", "artifacts", "bundle", "write", "ended"}
    /\ client # "off" <=> cmd.at = "talk"
    /\ edited \subseteq Settings
    /\ artifacts \in [result: 0..MaxCommands, response: 0..MaxCommands, answer: SUBSET Lines]

\* A server runs for `execute` only under an approval of this proposal and these arguments,
\* admitted by the policy and registry the command has loaded, which are the approved ones
\* unless somebody edited them between the load and the comparison (main.go, 4807-4832).
CallWithinApproval ==
    (cmd.op = "execute" /\ cmd.at = "talk") =>
        /\ <<cmd.approval.decision, cmd.approval.id, cmd.approval.args>>
             = <<"approved", cmd.proposal.id, cmd.proposal.args>>
        /\ Admits("call", cmd.got.policy, cmd.got.config, cmd.proposal)
        /\ \A f \in Settings :
             (Wanted(f) /\ cmd.approval.hash[f] # Absent) =>
                 cmd.got[f] = cmd.approval.hash[f] \/ f \in edited

\* When `execute` exits 0, its bundle says what happened: one call was made, and the
\* response artifact is this run's and holds the answer, which is no error; the hashes are
\* the approved ones and those of what was loaded, unless a file was edited meanwhile
\* (main.go, 4831-4846; smoke.go, 733-747).
BundleTruth ==
    [][(cmd.op = "execute" /\ cmd'.at = "ended" /\ cmd'.exit = 0) =>
          /\ bundle'.run = runs /\ bundle'.status = "succeeded" /\ bundle'.calls = 1
          /\ artifacts.result = runs /\ artifacts.response = runs
          /\ \E line \in artifacts.answer : line.re \in {"tools/call", "none"} /\ line.says # "error"
          /\ \A f \in Settings \ edited :
               /\ bundle'.hash[f] = cmd.got[f] \/ ~Wanted(f)
               /\ bundle'.approval.hash[f] \in {Absent, bundle'.hash[f]}]_vars

\* Whatever the server does, a command ends, unless a process that outlives the server
\* keeps its output open: exec.CommandContext kills the server alone, and the command
\* waits for a line or the end of the output (smoke.go, 1479).
CommandEnds == []<>Ended \/ <>[]held

=============================================================================
