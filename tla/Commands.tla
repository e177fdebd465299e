------------------------------ MODULE Commands ------------------------------
(***************************************************************************)
(* The files each deonctl command of the retrieval-context chain takes, one *)
(* definition per options struct: the command exits with an error before it *)
(* reads anything when an option is missing.  The options of the output     *)
(* files are the artifacts the stage tables name.                           *)
(***************************************************************************)

RetrievalContextMaterializeOptions == {"retrievalContext", "chunks"}

RetrievalContextBundleOptions == {"retrievalContext", "materialized"}

RetrievalContextApprovalNewOptions == {"bundle"}

RetrievalContextApprovalApproveOptions == {"request"}

RetrievalContextInjectionPlanOptions ==
  {"approval", "request", "bundle", "materialized"}

RetrievalContextGovernanceReportOptions ==
  RetrievalContextInjectionPlanOptions \cup {"retrievalContext", "injectionPlan"}

RetrievalContextInjectionApprovalNewOptions == {"governanceReport", "policy"}

RetrievalContextInjectionApprovalApproveOptions == {"injectionRequest"}

RetrievalContextInjectionExecutionPlanOptions ==
  {"policy", "governanceReport", "injectionApproval", "injectionRequest",
   "materialized"}

RetrievalContextPromptPreviewOptions ==
  {"executionPlan", "policy", "materialized"}

RetrievalContextPromptPreviewReportOptions ==
  {"preview", "manifest", "executionPlan"}

RetrievalContextInjectionGovernanceBundleOptions ==
  {"governanceReport", "policy", "injectionRequest", "injectionApproval",
   "executionPlan", "manifest", "previewReport"}

CodexMaterializedInjectionPreflightOptions == {"task", "previewReport"}

CodexMaterializedInjectionDryRunOptions == {"task", "preflight", "preview"}

CodexMaterializedInjectionDryRunReportOptions == {"dryRun", "promptOutput"}

CodexMaterializedInjectionReadinessReportOptions ==
  {"preflight", "dryRun", "dryRunReport"}

CodexMaterializedInjectionExecutionGateOptions ==
  {"task", "readiness", "promptOutput"}

CodexMaterializedPromptAssemblyDryRunOptions ==
  {"executionGate", "basePrompt", "promptOutput"}

CodexMaterializedPromptAssemblyReportOptions == {"assembly", "assembled"}

CodexMaterializedInjectionRunPlanOptions ==
  {"task", "runtime", "executionGate", "assemblyReport", "assembled"}

CodexMaterializedInjectionProviderRunPlanOptions ==
  {"task", "enable", "executionGate", "assemblyReport", "assembled"}

CodexMaterializedProviderPayloadDryRunOptions ==
  {"dispatch", "providerRunPlan", "assembled"}

CodexMaterializedProviderPayloadReportOptions == {"payloadRun", "payload"}

CodexMaterializedProviderCallGateOptions ==
  {"dispatch", "payloadReport", "payload"}

CodexMaterializedProviderCallReadinessReportOptions ==
  {"callGate", "payloadReport"}

CodexProviderCallApprovalNewOptions ==
  {"callReadiness", "callGate", "payloadReport"}

CodexProviderCallApprovalApproveOptions == {"callRequest"}

CodexProviderCallExecutionBundleOptions ==
  {"dispatch", "payloadReport", "callGate", "callReadiness", "callApproval"}

CodexProviderCallChainAuditOptions ==
  {"dispatch", "providerRunPlan", "payloadRun", "payload", "payloadReport",
   "callGate", "callReadiness", "callRequest", "callApproval",
   "executionBundle"}

CodexProviderCallExecutorPlanOptions ==
  CodexProviderCallChainAuditOptions \cup {"executorConfig"}

CodexProviderCallExecutorDryRunOptions ==
  {"executorConfig", "dispatch", "providerRunPlan", "payloadRun",
   "payloadReport", "callGate", "callReadiness", "callRequest", "callApproval",
   "executionBundle"}

CodexProviderCallExecutorDryRunReportOptions ==
  {"executorDryRun", "executorConfig"}

CodexProviderCallExecutorPreflightOptions ==
  {"executorConfig", "executorDryRun", "executorDryRunReport",
   "executionBundle", "callApproval"}

CodexProviderCallExecutorDispatchApprovalNewOptions ==
  CodexProviderCallExecutorPreflightOptions \cup {"executorPreflight"}

CodexProviderCallExecutorDispatchApprovalApproveOptions == {"dispatchRequest"}

CodexProviderTransportPlanOptions ==
  {"executorConfig", "executorPreflight", "dispatchApproval"}

CodexProviderExecutorReleaseBundleOptions ==
  {"executorConfig", "executionBundle", "executorDryRun",
   "executorDryRunReport", "executorPreflight", "dispatchApproval",
   "transportPlan"}

CodexProviderExecutorReleaseGateOptions ==
  CodexProviderExecutorReleaseBundleOptions \cup {"releaseBundle"}

CodexProviderRequestEnvelopeDryRunOptions ==
  {"executorConfig", "executionBundle", "executorPreflight", "dispatchApproval",
   "transportPlan", "releaseBundle", "releaseGate"}

CodexProviderRequestEnvelopeReportOptions ==
  CodexProviderRequestEnvelopeDryRunOptions \cup {"requestEnvelope"}

CodexProviderAdapterPlanOptions == {"adaptersConfig", "requestEnvelope"}

CodexProviderResponseFixtureGenerateOptions ==
  {"requestEnvelope", "adapterPlan"}

CodexProviderExecutionSimulationBundleOptions ==
  {"requestEnvelope", "adapterPlan", "responseFixture", "releaseGate",
   "executorConfig"}

CodexProviderExecutionSimulationReportOptions ==
  CodexProviderExecutionSimulationBundleOptions \cup {"simulationBundle"}

CodexProviderCredentialPolicyPlanOptions == {"credentialConfig"}

CodexProviderRealCallProposalNewOptions ==
  {"simulationReport", "requestEnvelope", "adapterPlan", "credentialPlan",
   "releaseGate"}

CodexProviderResponseChangeProposalOptions ==
  {"responseFixture", "simulationReport", "realCallProposal"}

CodexProviderResponseChangeProposalReportOptions ==
  {"changeProposal", "responseFixture", "simulationReport", "realCallProposal"}

CodexProviderActivationReadinessAuditOptions ==
  {"credentialPlan", "realCallProposal", "changeProposal", "simulationReport",
   "releaseGate"}

CodexProviderActivationPolicyPlanOptions == {"activationConfig"}

CodexProviderActivationApprovalNewOptions ==
  {"policyPlan", "readinessAudit", "realCallProposal", "credentialPlan",
   "simulationReport"}

CodexProviderActivationApprovalApproveOptions == {"activationRequest"}

CodexProviderActivationRehearsalOptions ==
  CodexProviderActivationApprovalNewOptions \cup {"activationApproval"}

CodexProviderActivationRehearsalReportOptions ==
  CodexProviderActivationRehearsalOptions \cup {"rehearsal"}

CodexProviderActivationReleasePackageOptions ==
  CodexProviderActivationRehearsalReportOptions \cup {"changeReport"}

CodexProviderActivationReleaseGateOptions ==
  CodexProviderActivationReleasePackageOptions \cup {"releasePackage"}

CodexProviderActivationOperatorReviewBundleOptions ==
  CodexProviderActivationReleaseGateOptions \cup {"activationGate"}

CodexProviderActivationOperatorReviewReportOptions ==
  CodexProviderActivationOperatorReviewBundleOptions \cup {"operatorReview"}

CodexProviderActivationKillSwitchPlanOptions == {"killSwitchConfig"}

CodexProviderActivationFinalAuditOptions ==
  CodexProviderActivationOperatorReviewReportOptions \cup {"killSwitchPlan"}

CodexProviderSecretReadProposalNewOptions ==
  {"credentialPlan", "finalAudit", "ciReport", "activationGate"}

CodexProviderRealTransportImplementationPlanOptions ==
  {"secretProposal", "adapterPlan", "finalAudit", "operatorReview",
   "killSwitchPlan"}

CodexProviderRealTransportImplementationReportOptions ==
  CodexProviderRealTransportImplementationPlanOptions \cup {"realTransportPlan"}

CodexProviderRealDispatchDesignOptions ==
  {"realTransportPlan", "secretProposal", "finalAudit", "ciReport",
   "requestEnvelope", "realCallProposal"}

CodexProviderRealDispatchDesignReportOptions ==
  CodexProviderRealDispatchDesignOptions \cup {"dispatchDesign"}

CodexProviderRealActivationDesignReviewPackageOptions ==
  {"secretProposal", "realTransportPlan", "dispatchDesign", "finalAudit",
   "ciReport", "killSwitchPlan", "operatorReview"}

CodexProviderRealActivationDesignReviewGateOptions ==
  CodexProviderRealActivationDesignReviewPackageOptions \cup {"reviewPackage"}

CodexProviderRealDispatchExternalApprovalNewOptions ==
  CodexProviderRealActivationDesignReviewGateOptions \cup {"reviewGate"}

CodexProviderRealDispatchExternalApprovalApproveOptions == {"externalRequest"}

CodexProviderRealDispatchRunbookGenerateOptions ==
  {"externalApproval", "externalRequest", "reviewGate", "dispatchDesign",
   "secretProposal", "realTransportPlan", "finalAudit", "ciReport",
   "killSwitchPlan"}

CodexProviderRealDispatchRunbookReportOptions ==
  CodexProviderRealDispatchRunbookGenerateOptions \cup {"runbook"}

CodexProviderRealDispatchRiskRegisterOptions ==
  {"runbook", "externalApproval", "reviewGate", "secretProposal",
   "realTransportPlan", "dispatchDesign", "finalAudit", "killSwitchPlan"}

CodexProviderRealDispatchRiskReportOptions ==
  CodexProviderRealDispatchRiskRegisterOptions \cup {"riskRegister"}

CodexProviderRealDispatchPreimplementationGateOptions ==
  CodexProviderRealDispatchRiskReportOptions \cup {"ciReport", "operatorReview"}
=============================================================================
