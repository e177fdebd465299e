--------------------------- MODULE ContextStages ---------------------------
(***************************************************************************)
(* The stages of internal/retrievalcontext that take retrieved chunks to a  *)
(* governed prompt preview (ContextChain) and the previewed text to a       *)
(* provider payload a human has approved (PayloadChain).                    *)
(***************************************************************************)
EXTENDS StageTables, Commands

(* ------------- retrieval context to governance bundle ------------------- *)

Materialize ==
  StageThat(RetrievalContextMaterializeOptions,
            {}, {}, Hashes({"retrievalContext", "chunks"}))

\* Mutation: the bundle also looks for the hash of the chunks in the retrieval
\* context, which records none.
BundleWrongField ==
  StageThat(RetrievalContextBundleOptions,
            {}, Pins("materialized", {"retrievalContext"})
                  \cup Same("retrievalContext", "materialized", {"chunks"}),
            Hashes({"retrievalContext", "materialized"})
              @@ CopiedFrom("materialized", {"chunks"}))

Bundle ==
  StageThat(RetrievalContextBundleOptions,
            {}, Pins("materialized", {"retrievalContext"}),
            Hashes({"retrievalContext", "materialized"})
              @@ CopiedFrom("materialized", {"chunks"}))

NewApprovalRequest ==
  Timed(StageThat(RetrievalContextApprovalNewOptions,
                  {"bundle"}, {},
                  Hashes({"bundle"})
                    @@ CopiedFrom("bundle", {"retrievalContext", "materialized"})))

ApproveMaterializedContext ==
  Timed(StageThat(RetrievalContextApprovalApproveOptions,
                  {"request"}, {},
                  Hashes({"request"})
                    @@ CopiedFrom("request", {"bundle", "materialized"})))

InjectionPlan ==
  StageThat(RetrievalContextInjectionPlanOptions,
            {"approval", "bundle"},
            Pins("approval", {"request", "bundle", "materialized"})
              \cup Pins("bundle", {"materialized"}),
            << >>)

GovernanceReport ==
  Reports(StageThat(RetrievalContextGovernanceReportOptions,
                    {"bundle", "request", "approval"},
                    Pins("materialized", {"retrievalContext"})
                      \cup Pins("bundle", {"retrievalContext", "materialized"})
                      \cup Pins("request", {"bundle"})
                      \cup Pins("approval", {"request"})
                      \cup Same("approval", "request", {"bundle", "materialized"}),
                    Hashes({"retrievalContext", "materialized", "bundle", "request"})))

\* The policy names the approval and its request; both are inspected whenever
\* the policy is planned.
PolicyReads == {"approval", "request"}
PolicyInspects == Pins("approval", {"request"})

NewInjectionApprovalRequest ==
  Timed(StageThat(RetrievalContextInjectionApprovalNewOptions \cup PolicyReads,
                  {"governanceReport", "approval"}, PolicyInspects,
                  Hashes({"governanceReport", "policy"})
                    @@ CopiedFrom("governanceReport", {"materialized", "bundle"})))

ApproveRunnerInjection ==
  Timed(StageThat(RetrievalContextInjectionApprovalApproveOptions,
                  {"injectionRequest"}, {},
                  Hashes({"injectionRequest"})
                    @@ CopiedFrom("injectionRequest",
                         {"governanceReport", "policy", "materialized", "bundle"})))

InjectionExecutionPlan ==
  StageThat(RetrievalContextInjectionExecutionPlanOptions \cup PolicyReads,
            {"governanceReport", "injectionApproval", "approval"},
            PolicyInspects
              \cup Pins("injectionApproval",
                     {"injectionRequest", "policy", "governanceReport", "materialized"}),
            Hashes({"materialized"}))

PromptPreview ==
  Renders(StageThat(RetrievalContextPromptPreviewOptions,
                    {"executionPlan"}, Pins("executionPlan", {"materialized"}),
                    Hashes({"materialized", "preview"})),
          "preview", {"materialized", "policy"})

PromptPreviewReport ==
  Reports(StageThat(RetrievalContextPromptPreviewReportOptions,
                    {},
                    Pins("manifest", {"preview"})
                      \cup Same("manifest", "executionPlan", {"materialized"}),
                    CopiedFrom("manifest", {"preview", "materialized"})))

InjectionGovernanceBundle ==
  StageThat(RetrievalContextInjectionGovernanceBundleOptions,
            {"governanceReport", "injectionApproval", "executionPlan", "previewReport"},
            Pins("injectionApproval", {"injectionRequest", "policy", "governanceReport"})
              \cup Same("injectionApproval", "executionPlan", {"materialized"})
              \cup Same("previewReport", "manifest", {"preview"})
              \cup Same("previewReport", "executionPlan", {"materialized"}),
            Hashes({"policy", "governanceReport", "injectionApproval", "executionPlan",
                    "manifest"})
              @@ CopiedFrom("executionPlan", {"materialized"})
              @@ CopiedFrom("manifest", {"preview"}))

(* ----------------- governance bundle to approved payload ---------------- *)

\* The task names the governance bundle.
PreflightReads == CodexMaterializedInjectionPreflightOptions \cup {"governanceBundle"}

MaterializedInjectionPreflight ==
  AlsoFailed(StageThat(PreflightReads,
                       {"governanceBundle", "previewReport"},
                       Same("governanceBundle", "previewReport", {"materialized"}),
                       Hashes({"governanceBundle", "previewReport"})
                         @@ CopiedFrom("governanceBundle", {"materialized"})))

\* The preview is embedded as found: its hash is in no artifact read here.
MaterializedInjectionDryRun ==
  AlsoFailed(Renders(StageThat(CodexMaterializedInjectionDryRunOptions,
                               {"preflight"}, {},
                               Hashes({"promptOutput"})
                                 @@ CopiedFrom("preflight", {"materialized"})),
                     "promptOutput", {"preview"}))

MaterializedInjectionDryRunReport ==
  Reports(StageThat(CodexMaterializedInjectionDryRunReportOptions,
                    {"dryRun"}, Pins("dryRun", {"promptOutput"}),
                    CopiedFrom("dryRun", {"promptOutput", "materialized"})))

MaterializedInjectionReadinessReport ==
  Reports(StageThat(CodexMaterializedInjectionReadinessReportOptions,
                    {"preflight", "dryRun", "dryRunReport"},
                    Same("preflight", "dryRun", {"materialized"})
                      \cup Same("dryRun", "dryRunReport", {"materialized", "promptOutput"}),
                    CopiedFrom("dryRun", {"materialized", "promptOutput"})))

MaterializedInjectionExecutionGate ==
  AlsoFailed(StageThat(CodexMaterializedInjectionExecutionGateOptions,
                       {"readiness"}, Pins("readiness", {"promptOutput"}),
                       Hashes({"promptOutput"})
                         @@ CopiedFrom("readiness", {"materialized"})))

MaterializedPromptAssembly ==
  AlsoFailed(Renders(StageThat(CodexMaterializedPromptAssemblyDryRunOptions,
                               {"executionGate"},
                               Pins("executionGate", {"promptOutput"}),
                               Hashes({"basePrompt", "promptOutput", "assembled"})
                                 @@ CopiedFrom("executionGate", {"materialized"})),
                     "assembled", {"basePrompt", "promptOutput"}))

MaterializedPromptAssemblyReport ==
  Reports(StageThat(CodexMaterializedPromptAssemblyReportOptions,
                    {"assembly"}, Pins("assembly", {"assembled"}),
                    CopiedFrom("assembly", {"assembled", "materialized"})))

\* Both run plans join the gate with the assembled prompt.
RunPlanAgrees ==
  Same("executionGate", "assemblyReport", {"materialized"})
    \cup Pins("assemblyReport", {"assembled"})
RunPlanKeeps == Hashes({"assembled"}) @@ CopiedFrom("executionGate", {"materialized"})

MaterializedInjectionRunPlan ==
  AlsoFailed(StageThat(CodexMaterializedInjectionRunPlanOptions,
                       {"executionGate", "assemblyReport"}, RunPlanAgrees,
                       RunPlanKeeps))

MaterializedInjectionProviderRunPlan ==
  AlsoFailed(StageThat(CodexMaterializedInjectionProviderRunPlanOptions,
                       {"executionGate", "assemblyReport"}, RunPlanAgrees,
                       RunPlanKeeps))

MaterializedProviderPayload ==
  AlsoFailed(Renders(StageThat(CodexMaterializedProviderPayloadDryRunOptions,
                               {"providerRunPlan"},
                               Pins("providerRunPlan", {"assembled"}),
                               Hashes({"assembled", "payload"})
                                 @@ CopiedFrom("providerRunPlan", {"materialized"})),
                     "payload", {"assembled", "dispatch"}))

MaterializedProviderPayloadReport ==
  Reports(StageThat(CodexMaterializedProviderPayloadReportOptions,
                    {"payloadRun"}, Pins("payloadRun", {"payload"}),
                    Hashes({"payload"})
                      @@ CopiedFrom("payloadRun", {"materialized", "assembled"})))

MaterializedProviderCallGate ==
  AlsoFailed(StageThat(CodexMaterializedProviderCallGateOptions,
                       {"payloadReport"}, Pins("payloadReport", {"payload"}),
                       Hashes({"payload"})
                         @@ CopiedFrom("payloadReport", {"materialized"})))

MaterializedProviderCallReadinessReport ==
  Reports(StageThat(CodexMaterializedProviderCallReadinessReportOptions,
                    {"callGate", "payloadReport"},
                    Same("callGate", "payloadReport", {"materialized", "payload"}),
                    CopiedFrom("callGate", {"materialized", "payload"})))

NewProviderCallApprovalRequest ==
  Timed(StageThat(CodexProviderCallApprovalNewOptions,
                  {"callReadiness", "callGate", "payloadReport"},
                  Same("callGate", "callReadiness", {"materialized", "payload"})
                    \cup Same("payloadReport", "callReadiness", {"materialized", "payload"}),
                  Hashes({"callReadiness", "callGate", "payloadReport"})
                    @@ CopiedFrom("callReadiness", {"materialized", "payload"})))

ApproveProviderCall ==
  Timed(StageThat(CodexProviderCallApprovalApproveOptions,
                  {"callRequest"}, {},
                  Hashes({"callRequest"})
                    @@ CopiedFrom("callRequest", {"callReadiness", "callGate",
                         "payloadReport", "materialized", "payload"})))

-----------------------------------------------------------------------------
ContextChain ==
  <<"materialized", "bundle", "request", "approval", "injectionPlan",
    "governanceReport", "injectionRequest", "injectionApproval", "executionPlan",
    "manifest", "previewReport", "governanceBundle">>

PayloadChain ==
  <<"preflight", "dryRun", "dryRunReport", "readiness", "executionGate", "assembly",
    "assemblyReport", "runPlan", "providerRunPlan", "payloadRun", "payloadReport",
    "callGate", "callReadiness", "callRequest", "callApproval">>

ContextStage ==
  ("materialized" :> Materialize) @@ ("bundle" :> Bundle)
  @@ ("request" :> NewApprovalRequest) @@ ("approval" :> ApproveMaterializedContext)
  @@ ("injectionPlan" :> InjectionPlan) @@ ("governanceReport" :> GovernanceReport)
  @@ ("injectionRequest" :> NewInjectionApprovalRequest)
  @@ ("injectionApproval" :> ApproveRunnerInjection)
  @@ ("executionPlan" :> InjectionExecutionPlan) @@ ("manifest" :> PromptPreview)
  @@ ("previewReport" :> PromptPreviewReport)
  @@ ("governanceBundle" :> InjectionGovernanceBundle)
  @@ ("preflight" :> MaterializedInjectionPreflight)
  @@ ("dryRun" :> MaterializedInjectionDryRun)
  @@ ("dryRunReport" :> MaterializedInjectionDryRunReport)
  @@ ("readiness" :> MaterializedInjectionReadinessReport)
  @@ ("executionGate" :> MaterializedInjectionExecutionGate)
  @@ ("assembly" :> MaterializedPromptAssembly)
  @@ ("assemblyReport" :> MaterializedPromptAssemblyReport)
  @@ ("runPlan" :> MaterializedInjectionRunPlan)
  @@ ("providerRunPlan" :> MaterializedInjectionProviderRunPlan)
  @@ ("payloadRun" :> MaterializedProviderPayload)
  @@ ("payloadReport" :> MaterializedProviderPayloadReport)
  @@ ("callGate" :> MaterializedProviderCallGate)
  @@ ("callReadiness" :> MaterializedProviderCallReadinessReport)
  @@ ("callRequest" :> NewProviderCallApprovalRequest)
  @@ ("callApproval" :> ApproveProviderCall)
=============================================================================
