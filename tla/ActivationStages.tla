-------------------------- MODULE ActivationStages --------------------------
(***************************************************************************)
(* The stages of internal/retrievalcontext that follow the release gate:    *)
(* the envelope and simulation of the request, the approval of activation,  *)
(* its rehearsal, package, gate and reviews, and the design, the external   *)
(* approval and the runbook of a dispatch that is never implemented.  A     *)
(* stage compares far less here than in ProviderStages: most test the flags *)
(* of what they load and record its hash.                                   *)
(***************************************************************************)
EXTENDS ProviderStages

(* ----------------------- envelope and simulation ------------------------ *)

EnvelopeReady == {"executorPreflight", "transportPlan", "releaseBundle", "releaseGate"}
EnvelopeAgrees ==
  Pins("executorPreflight", {"executionBundle"})
    \cup Same("releaseBundle", "executorPreflight", {"payload"})
EnvelopeKeeps ==
  Hashes(CodexProviderRequestEnvelopeDryRunOptions \ {"executionBundle"})
    @@ CopiedFrom("executorPreflight", {"executionBundle", "payload", "materialized"})

ProviderRequestEnvelopeDryRun ==
  OnlyHashes({"executionBundle"},
    StageThat(CodexProviderRequestEnvelopeDryRunOptions,
              EnvelopeReady, EnvelopeAgrees, EnvelopeKeeps))

ProviderRequestEnvelopeReport ==
  AlsoFailedGiven({"requestEnvelope"}, OnlyHashes({"executionBundle"},
    StageThat(CodexProviderRequestEnvelopeReportOptions,
              EnvelopeReady \cup {"requestEnvelope"},
              EnvelopeAgrees
                \cup Pins("requestEnvelope",
                       {"executorConfig", "releaseBundle", "dispatchApproval"})
                \cup Same("requestEnvelope", "executorPreflight",
                       {"executionBundle", "payload"}),
              EnvelopeKeeps @@ Hashes({"requestEnvelope"}))))

ProviderAdapterPlan ==
  StageThat(CodexProviderAdapterPlanOptions,
            {"requestEnvelope"}, {}, Hashes({"adaptersConfig", "requestEnvelope"}))

ProviderResponseFixtureGenerate ==
  StageThat(CodexProviderResponseFixtureGenerateOptions,
            {"requestEnvelope", "adapterPlan"},
            Pins("adapterPlan", {"requestEnvelope"}),
            Hashes({"requestEnvelope", "adapterPlan"}))

SimulationReady == {"requestEnvelope", "adapterPlan", "responseFixture", "releaseGate"}
SimulationKeeps ==
  Hashes(CodexProviderExecutionSimulationBundleOptions)
    @@ CopiedFrom("requestEnvelope", {"payload"})

ProviderExecutionSimulationBundle ==
  StageThat(CodexProviderExecutionSimulationBundleOptions,
            SimulationReady, {}, SimulationKeeps)

ProviderExecutionSimulationReport ==
  AlsoFailedGiven({"simulationBundle"},
    StageThat(CodexProviderExecutionSimulationReportOptions,
              SimulationReady \cup {"simulationBundle"},
              Pins("simulationBundle", CodexProviderExecutionSimulationBundleOptions),
              SimulationKeeps))

ProviderCredentialPolicyPlan ==
  StageThat(CodexProviderCredentialPolicyPlanOptions, {}, {},
            Hashes({"credentialConfig"}))

CallProposalReady == CodexProviderRealCallProposalNewOptions
NewProviderRealCallProposal ==
  Timed(StageThat(CodexProviderRealCallProposalNewOptions,
                  CallProposalReady, {},
                  Hashes(CallProposalReady)
                    @@ CopiedFrom("requestEnvelope", {"payload"})))

ChangeReady == {"responseFixture", "realCallProposal"}
ProviderResponseChangeProposal ==
  OnlyHashes({"simulationReport"},
    StageThat(CodexProviderResponseChangeProposalOptions,
              ChangeReady, {},
              Hashes(CodexProviderResponseChangeProposalOptions)))

ProviderResponseChangeProposalReport ==
  AlsoFailedGiven({"changeProposal"}, OnlyHashes({"simulationReport"},
    StageThat(CodexProviderResponseChangeProposalReportOptions,
              ChangeReady \cup {"changeProposal"}, Pins("changeProposal", ChangeReady),
              Hashes(CodexProviderResponseChangeProposalOptions))))

(* ------------------------ activation and its gate ------------------------ *)

ReadinessReady == CodexProviderActivationReadinessAuditOptions
ProviderActivationReadinessAudit ==
  AlsoFailed(StageThat(CodexProviderActivationReadinessAuditOptions,
                       ReadinessReady, {},
                       Hashes(ReadinessReady)))

ProviderActivationPolicyPlan ==
  StageThat(CodexProviderActivationPolicyPlanOptions, {}, {},
            Hashes({"activationConfig"}))

ActivationReady == CodexProviderActivationApprovalNewOptions
ActivationAgrees == Same("simulationReport", "realCallProposal", {"payload"})
ActivationKeeps ==
  Hashes(ActivationReady)
    @@ CopiedFrom("realCallProposal", {"payload"})

NewProviderActivationApprovalRequest ==
  AlsoFailed(Timed(StageThat(CodexProviderActivationApprovalNewOptions,
                             ActivationReady,
                             ActivationAgrees, ActivationKeeps)))

ApproveProviderActivation ==
  Timed(StageThat(CodexProviderActivationApprovalApproveOptions,
                  {"activationRequest"}, {},
                  Hashes({"activationRequest"})
                    @@ CopiedFrom("activationRequest",
                         ActivationReady \cup {"payload"})))

RehearsalAgrees ==
  ActivationAgrees
    \cup Pins("activationApproval", {"policyPlan", "readinessAudit", "realCallProposal"})
    \cup Same("activationApproval", "realCallProposal", {"payload"})
RehearsalKeeps == ActivationKeeps @@ Hashes({"activationApproval"})

ProviderActivationRehearsal ==
  AlsoFailed(StageThat(CodexProviderActivationRehearsalOptions,
                       ActivationReady, RehearsalAgrees,
                       RehearsalKeeps))

ProviderActivationRehearsalReport ==
  AlsoFailedGiven({"rehearsal"},
    StageThat(CodexProviderActivationRehearsalReportOptions,
              ActivationReady \cup {"rehearsal"},
              RehearsalAgrees \cup Pins("rehearsal", CodexProviderActivationRehearsalOptions),
              RehearsalKeeps))

\* The release chain: the rehearsal is ready, but over which inputs it was
\* made is not compared with the inputs present.
ReleaseChainReady ==
  ActivationReady \cup {"rehearsal", "changeReport"}
ReleaseChainKeeps == RehearsalKeeps @@ Hashes({"rehearsal", "changeReport"})

ProviderActivationReleasePackage ==
  AlsoFailed(StageThat(CodexProviderActivationReleasePackageOptions,
                       ReleaseChainReady, RehearsalAgrees, ReleaseChainKeeps))

ProviderActivationReleaseGate ==
  AlsoFailed(StageThat(CodexProviderActivationReleaseGateOptions,
                       ReleaseChainReady \cup {"releasePackage"},
                       RehearsalAgrees
                         \cup Pins("releasePackage", CodexProviderActivationReleasePackageOptions)
                         \cup Same("releasePackage", "realCallProposal", {"payload"}),
                       << >>))

ReviewPins == {"policyPlan", "activationApproval", "realCallProposal", "credentialPlan"}
ReviewKeeps == Hashes(ReviewPins \cup {"releasePackage"})
                 @@ CopiedFrom("realCallProposal", {"payload"})

\* Given the file of the release gate, only its flags are tested.
ProviderActivationOperatorReviewBundle ==
  AlsoFailed(StageThat(CodexProviderActivationOperatorReviewBundleOptions,
                       ReleaseChainReady \cup {"releasePackage", "activationGate"},
                       RehearsalAgrees
                         \cup Pins("releasePackage", ReviewPins)
                         \cup Same("releasePackage", "realCallProposal", {"payload"}),
                       ReviewKeeps))

ProviderActivationOperatorReviewReport ==
  StageThat(CodexProviderActivationOperatorReviewReportOptions \ {"activationGate"},
            ReleaseChainReady \cup {"operatorReview"},
            RehearsalAgrees
              \cup Pins("operatorReview", ReviewPins \cup {"releasePackage"})
              \cup Same("operatorReview", "realCallProposal", {"payload"}),
            ReviewKeeps)

ProviderActivationKillSwitchPlan ==
  StageThat(CodexProviderActivationKillSwitchPlanOptions,
            {}, {}, Hashes({"killSwitchConfig"}))

FinalAuditUnopened ==
  {"activationApproval", "rehearsal", "changeReport", "realCallProposal",
   "simulationReport", "credentialPlan"}
FinalAuditReads == CodexProviderActivationFinalAuditOptions \ FinalAuditUnopened
FinalAuditReady == {"killSwitchPlan", "operatorReview", "activationGate"}
FinalAuditKeeps == CopiedFrom("releasePackage", {"payload"})

ProviderActivationFinalAudit ==
  StageThat(FinalAuditReads, FinalAuditReady, {}, FinalAuditKeeps)

\* The CI report makes the audit again.
ProviderActivationCIReport ==
  StageThat(FinalAuditReads, FinalAuditReady, {}, FinalAuditKeeps)

(* -------------------- design of the real dispatch ------------------------ *)

SecretReady == CodexProviderSecretReadProposalNewOptions
NewProviderSecretReadProposal ==
  AlsoFailed(Timed(StageThat(CodexProviderSecretReadProposalNewOptions,
                             SecretReady,
                             Same("ciReport", "finalAudit", {"payload"}),
                             Hashes(SecretReady)
                               @@ CopiedFrom("finalAudit", {"payload"}))))

TransportReady == CodexProviderRealTransportImplementationPlanOptions
TransportKeeps ==
  Hashes(TransportReady)
    @@ CopiedFrom("secretProposal", {"payload"})
ProviderRealTransportImplementationPlan ==
  AlsoFailed(StageThat(CodexProviderRealTransportImplementationPlanOptions,
                       TransportReady, {},
                       TransportKeeps))
ProviderRealTransportImplementationReport ==
  StageThat(CodexProviderRealTransportImplementationReportOptions,
            TransportReady \cup {"realTransportPlan"},
            Pins("realTransportPlan", TransportReady)
              \cup Same("realTransportPlan", "secretProposal", {"payload"}),
            TransportKeeps)

DesignReady == CodexProviderRealDispatchDesignOptions
DesignKeeps ==
  Hashes(DesignReady)
    @@ CopiedFrom("realTransportPlan", {"payload"})
ProviderRealDispatchDesign ==
  AlsoFailed(Timed(StageThat(CodexProviderRealDispatchDesignOptions,
                             DesignReady, {}, DesignKeeps)))
ProviderRealDispatchDesignReport ==
  StageThat(CodexProviderRealDispatchDesignReportOptions,
            DesignReady \cup {"dispatchDesign"},
            Pins("dispatchDesign", DesignReady)
              \cup Same("dispatchDesign", "realTransportPlan", {"payload"}),
            DesignKeeps)

DesignReviewReady == CodexProviderRealActivationDesignReviewPackageOptions
ProviderRealActivationDesignReviewPackage ==
  AlsoFailed(StageThat(CodexProviderRealActivationDesignReviewPackageOptions,
                       DesignReviewReady, {},
                       Hashes(DesignReviewReady)
                         @@ CopiedFrom("secretProposal", {"payload"})))

DesignReviewPins ==
  {"secretProposal", "realTransportPlan", "dispatchDesign", "finalAudit", "ciReport"}
ProviderRealActivationDesignReviewGate ==
  StageThat(CodexProviderRealActivationDesignReviewGateOptions,
            DesignReviewReady \cup {"reviewPackage"},
            Pins("reviewPackage", DesignReviewPins)
              \cup Same("reviewPackage", "secretProposal", {"payload"}),
            Hashes(DesignReviewPins) @@ CopiedFrom("secretProposal", {"payload"}))

ExternalReady == CodexProviderRealDispatchExternalApprovalNewOptions
NewProviderRealDispatchExternalApprovalRequest ==
  Timed(StageThat(CodexProviderRealDispatchExternalApprovalNewOptions,
                  ExternalReady,
                  Pins("reviewPackage",
                       {"secretProposal", "realTransportPlan", "dispatchDesign"}),
                  Hashes(ExternalReady)
                    @@ CopiedFrom("reviewPackage", {"payload"})))

ApproveProviderRealDispatchExternalApproval ==
  Timed(StageThat(CodexProviderRealDispatchExternalApprovalApproveOptions,
                  {"externalRequest"}, {},
                  Hashes({"externalRequest"})
                    @@ CopiedFrom("externalRequest",
                         {"reviewPackage", "reviewGate", "secretProposal",
                          "dispatchDesign", "payload"})))

RunbookPins == {"externalApproval", "reviewGate", "dispatchDesign"}
RunbookKeeps == Hashes(RunbookPins) @@ CopiedFrom("externalApproval", {"payload"})
RunbookReady == CodexProviderRealDispatchRunbookGenerateOptions \ {"externalRequest"}
ProviderRealDispatchRunbook ==
  OnlyHashes({"externalRequest"},
    StageThat(CodexProviderRealDispatchRunbookGenerateOptions,
              RunbookReady, {}, RunbookKeeps))
ProviderRealDispatchRunbookReport ==
  OnlyHashes({"externalRequest"},
    StageThat(CodexProviderRealDispatchRunbookReportOptions,
              RunbookReady \cup {"runbook"},
              Pins("runbook", RunbookPins)
                \cup Same("runbook", "externalApproval", {"payload"}),
              RunbookKeeps))

RiskReady == {"runbook", "externalApproval", "reviewGate", "finalAudit"}
RiskPins == {"runbook", "externalApproval", "reviewGate"}
RiskKeeps == Hashes(RiskPins) @@ CopiedFrom("runbook", {"payload"})
ProviderRealDispatchRiskRegister ==
  StageThat(CodexProviderRealDispatchRiskRegisterOptions, RiskReady, {}, RiskKeeps)
ProviderRealDispatchRiskReport ==
  StageThat(CodexProviderRealDispatchRiskReportOptions,
            RiskReady \cup {"riskRegister"},
            Pins("riskRegister", RiskPins)
              \cup Same("riskRegister", "runbook", {"payload"}),
            RiskKeeps)

PreimplementationReady ==
  {"externalApproval", "runbook", "riskRegister", "reviewGate", "finalAudit", "ciReport",
   "killSwitchPlan", "operatorReview"}
ProviderRealDispatchPreimplementationGate ==
  StageThat(CodexProviderRealDispatchPreimplementationGateOptions,
            PreimplementationReady,
            Pins("runbook", {"externalApproval"})
              \cup Pins("riskRegister", {"externalApproval"}),
            Hashes({"externalApproval", "runbook", "riskRegister", "reviewGate"})
              @@ CopiedFrom("externalApproval", {"payload"}))

-----------------------------------------------------------------------------
ActivationChain ==
  <<"requestEnvelope", "envelopeReport", "adapterPlan", "responseFixture",
    "simulationBundle", "simulationReport", "credentialPlan", "realCallProposal",
    "changeProposal", "changeReport", "readinessAudit", "policyPlan",
    "activationRequest", "activationApproval", "rehearsal", "rehearsalReport",
    "releasePackage", "activationGate", "operatorReview", "operatorReviewReport",
    "killSwitchPlan", "finalAudit", "ciReport", "secretProposal",
    "realTransportPlan", "realTransportReport", "dispatchDesign",
    "dispatchDesignReport", "reviewPackage", "reviewGate", "externalRequest",
    "externalApproval", "runbook", "runbookReport", "riskRegister", "riskReport",
    "preimplementationGate">>

ActivationStage ==
  ProviderStage
  @@ ("requestEnvelope" :> ProviderRequestEnvelopeDryRun)
  @@ ("envelopeReport" :> ProviderRequestEnvelopeReport)
  @@ ("adapterPlan" :> ProviderAdapterPlan)
  @@ ("responseFixture" :> ProviderResponseFixtureGenerate)
  @@ ("simulationBundle" :> ProviderExecutionSimulationBundle)
  @@ ("simulationReport" :> ProviderExecutionSimulationReport)
  @@ ("credentialPlan" :> ProviderCredentialPolicyPlan)
  @@ ("realCallProposal" :> NewProviderRealCallProposal)
  @@ ("changeProposal" :> ProviderResponseChangeProposal)
  @@ ("changeReport" :> ProviderResponseChangeProposalReport)
  @@ ("readinessAudit" :> ProviderActivationReadinessAudit)
  @@ ("policyPlan" :> ProviderActivationPolicyPlan)
  @@ ("activationRequest" :> NewProviderActivationApprovalRequest)
  @@ ("activationApproval" :> ApproveProviderActivation)
  @@ ("rehearsal" :> ProviderActivationRehearsal)
  @@ ("rehearsalReport" :> ProviderActivationRehearsalReport)
  @@ ("releasePackage" :> ProviderActivationReleasePackage)
  @@ ("activationGate" :> ProviderActivationReleaseGate)
  @@ ("operatorReview" :> ProviderActivationOperatorReviewBundle)
  @@ ("operatorReviewReport" :> ProviderActivationOperatorReviewReport)
  @@ ("killSwitchPlan" :> ProviderActivationKillSwitchPlan)
  @@ ("finalAudit" :> ProviderActivationFinalAudit)
  @@ ("ciReport" :> ProviderActivationCIReport)
  @@ ("secretProposal" :> NewProviderSecretReadProposal)
  @@ ("realTransportPlan" :> ProviderRealTransportImplementationPlan)
  @@ ("realTransportReport" :> ProviderRealTransportImplementationReport)
  @@ ("dispatchDesign" :> ProviderRealDispatchDesign)
  @@ ("dispatchDesignReport" :> ProviderRealDispatchDesignReport)
  @@ ("reviewPackage" :> ProviderRealActivationDesignReviewPackage)
  @@ ("reviewGate" :> ProviderRealActivationDesignReviewGate)
  @@ ("externalRequest" :> NewProviderRealDispatchExternalApprovalRequest)
  @@ ("externalApproval" :> ApproveProviderRealDispatchExternalApproval)
  @@ ("runbook" :> ProviderRealDispatchRunbook)
  @@ ("runbookReport" :> ProviderRealDispatchRunbookReport)
  @@ ("riskRegister" :> ProviderRealDispatchRiskRegister)
  @@ ("riskReport" :> ProviderRealDispatchRiskReport)
  @@ ("preimplementationGate" :> ProviderRealDispatchPreimplementationGate)
=============================================================================
