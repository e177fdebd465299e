--------------------------- MODULE ProviderStages ---------------------------
(***************************************************************************)
(* The stages of internal/retrievalcontext that take an approved provider   *)
(* payload to a release gate: the execution bundle, the executor's plan,    *)
(* dry run and preflight, the approval of its dispatch, the plan of its     *)
(* transport, and the release bundle and gate.  The provider is never       *)
(* called: every stage ends in blocked_reason "implementation_not_enabled". *)
(***************************************************************************)
EXTENDS ContextStages

ProviderCallExecutionBundle ==
  AlsoFailed(StageThat(CodexProviderCallExecutionBundleOptions,
                       {"payloadReport", "callGate", "callReadiness"},
                       Same("callGate", "payloadReport", {"payload"})
                         \cup Same("callReadiness", "payloadReport", {"payload"})
                         \cup Pins("callApproval",
                                {"callReadiness", "callGate", "payloadReport"})
                         \cup Same("callApproval", "payloadReport", {"payload"}),
                       Hashes(CodexProviderCallExecutionBundleOptions)
                         @@ CopiedFrom("payloadReport", {"payload", "materialized"})))

(* The continuity audit walks the chain from the provider run plan to the   *)
(* execution bundle.  It and the executor compare the payload throughout.    *)
AuditReady ==
  {"providerRunPlan", "payloadRun", "payloadReport", "callGate", "callReadiness",
   "executionBundle"}
AuditAgrees ==
  UNION {Same(f, "payloadRun", {"payload"}) :
           f \in {"payloadReport", "callGate", "callReadiness", "callRequest",
                  "executionBundle"}}
    \cup Pins("callApproval", {"callRequest"})

ProviderCallChainContinuityAudit ==
  AlsoFailed(StageThat(CodexProviderCallChainAuditOptions,
                       AuditReady, AuditAgrees \cup Pins("payloadRun", {"payload"}),
                       CopiedFrom("payloadRun", {"payload", "materialized"})))

\* The executor's core: its policy, the audit, and the bundle's approval.
ExecutorCoreAgrees ==
  AuditAgrees
    \cup Pins("executionBundle", {"callApproval"})
    \cup Same("callApproval", "executionBundle", {"payload"})
ExecutorCoreKeeps ==
  Hashes({"executorConfig", "executionBundle", "callApproval"})
    @@ CopiedFrom("executionBundle", {"payload", "materialized"})

ProviderCallExecutorPlan ==
  StageThat(CodexProviderCallExecutorPlanOptions,
            AuditReady, ExecutorCoreAgrees \cup Pins("payloadRun", {"payload"}),
            ExecutorCoreKeeps)

\* The dry run does not read the payload itself.
ProviderCallExecutorDryRun ==
  StageThat(CodexProviderCallExecutorDryRunOptions,
            AuditReady, ExecutorCoreAgrees, ExecutorCoreKeeps)

ProviderCallExecutorDryRunReport ==
  AlsoFailedGiven({"executorDryRun"},
    StageThat(CodexProviderCallExecutorDryRunReportOptions,
              {"executorDryRun"}, Pins("executorDryRun", {"executorConfig"}),
              CopiedFrom("executorDryRun",
                {"executorConfig", "executionBundle", "callApproval", "payload",
                 "materialized"})))

\* The stored report is hashed but what it says is not used, and the hash the
\* dry run records of the execution bundle is compared with itself before the
\* hash of the bundle present takes its place; so is that of the approval.
ProviderCallExecutorPreflight ==
  StageThat(CodexProviderCallExecutorPreflightOptions,
            {"executorDryRun", "executionBundle"},
            Pins("executorDryRun", {"executorConfig"})
              \cup Same("executionBundle", "executorDryRun", {"callApproval", "payload"})
              \cup Same("callApproval", "executorDryRun", {"payload"}),
            Hashes({"executorConfig", "executorDryRun", "executorDryRunReport",
                    "executionBundle", "callApproval"})
              @@ CopiedFrom("executorDryRun", {"payload", "materialized"}))

NewProviderCallExecutorDispatchApprovalRequest ==
  Timed(OnlyHashes(CodexProviderCallExecutorPreflightOptions,
    StageThat(CodexProviderCallExecutorDispatchApprovalNewOptions,
              {"executorPreflight"},
              Pins("executorPreflight", CodexProviderCallExecutorPreflightOptions),
              Hashes({"executorPreflight"} \cup CodexProviderCallExecutorPreflightOptions)
                @@ CopiedFrom("executorPreflight", {"payload", "materialized"}))))

ApproveProviderCallExecutorDispatch ==
  Timed(StageThat(CodexProviderCallExecutorDispatchApprovalApproveOptions,
                  {"dispatchRequest"}, {},
                  Hashes({"dispatchRequest"})
                    @@ CopiedFrom("dispatchRequest",
                         CodexProviderCallExecutorPreflightOptions
                           \cup {"executorPreflight", "payload", "materialized"})))

ProviderTransportPlan ==
  Reports(StageThat(CodexProviderTransportPlanOptions,
                    {"executorPreflight", "dispatchApproval"},
                    Pins("executorPreflight", {"executorConfig"})
                      \cup Pins("dispatchApproval", {"executorConfig", "executorPreflight"}),
                    Hashes({"executorConfig", "executorPreflight", "dispatchApproval"})))

\* What the release bundle and the release gate both check.
ReleaseAgrees ==
  Pins("executorPreflight",
       {"executorConfig", "executorDryRun", "executorDryRunReport", "executionBundle"})
    \cup Pins("dispatchApproval", {"executorPreflight"})
    \cup Pins("transportPlan", {"executorConfig", "executorPreflight", "dispatchApproval"})
OnlyHashedByRelease == {"executorDryRun", "executorDryRunReport", "executionBundle"}

ProviderExecutorReleaseBundle ==
  OnlyHashes(OnlyHashedByRelease,
    StageThat(CodexProviderExecutorReleaseBundleOptions,
              {"executorPreflight", "transportPlan"}, ReleaseAgrees,
              Hashes({"executorConfig", "executorPreflight", "dispatchApproval",
                      "transportPlan"})
                @@ CopiedFrom("executorPreflight",
                     {"executorDryRun", "executorDryRunReport", "executionBundle",
                      "payload", "materialized"})))

ProviderExecutorReleaseGate ==
  AlsoFailedGiven({"releaseBundle"}, OnlyHashes(OnlyHashedByRelease,
    StageThat(CodexProviderExecutorReleaseGateOptions,
              {"executorPreflight", "transportPlan", "releaseBundle"},
              ReleaseAgrees
                \cup Pins("releaseBundle",
                       {"executorConfig", "executorPreflight", "transportPlan"}),
              << >>)))

-----------------------------------------------------------------------------
ExecutorChain ==
  <<"executionBundle", "chainAudit", "executorPlan", "executorDryRun",
    "executorDryRunReport", "executorPreflight", "dispatchRequest",
    "dispatchApproval", "transportPlan", "releaseBundle", "releaseGate">>

ProviderStage ==
  ContextStage
  @@ ("executionBundle" :> ProviderCallExecutionBundle)
  @@ ("chainAudit" :> ProviderCallChainContinuityAudit)
  @@ ("executorPlan" :> ProviderCallExecutorPlan)
  @@ ("executorDryRun" :> ProviderCallExecutorDryRun)
  @@ ("executorDryRunReport" :> ProviderCallExecutorDryRunReport)
  @@ ("executorPreflight" :> ProviderCallExecutorPreflight)
  @@ ("dispatchRequest" :> NewProviderCallExecutorDispatchApprovalRequest)
  @@ ("dispatchApproval" :> ApproveProviderCallExecutorDispatch)
  @@ ("transportPlan" :> ProviderTransportPlan)
  @@ ("releaseBundle" :> ProviderExecutorReleaseBundle)
  @@ ("releaseGate" :> ProviderExecutorReleaseGate)
=============================================================================
