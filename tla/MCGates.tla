------------------------------ MODULE MCGates ------------------------------
\* Instances of the gate chain of internal/retrievalcontext for TLC.
EXTENDS ArtifactChain, ActivationStages

WholeChain == ContextChain \o PayloadChain \o ExecutorChain \o ActivationChain
ReleaseChain == PayloadChain \o ExecutorChain

\* The whole chain starts from files that record no hashes, the release chain
\* from a governance bundle and a report on the preview.
NoHashes == [f \in UNION {Stage[s].reads : s \in DOMAIN Stage} |-> {}]
Governed ==
  ("governanceBundle" :> DOMAIN InjectionGovernanceBundle.keeps)
    @@ ("previewReport" :> DOMAIN PromptPreviewReport.keeps) @@ NoHashes

RenderedTexts == {"materialized", "preview", "promptOutput", "assembled", "payload"}

\* What a stage records by hash without comparing all that it records in turn:
\* the preflight of the executor and what copies from it, and most of the
\* activation stages.
Uncompared ==
  {<<"governanceBundle", "preview">>, <<"executionBundle", "payload">>}
    \cup {"executorPreflight", "dispatchRequest", "dispatchApproval"}
      \X {"callApproval", "executionBundle", "executorDryRun", "executorDryRunReport"}
    \cup {"releaseBundle"} \X {"executorDryRun", "executorDryRunReport"}
    \cup {"requestEnvelope", "envelopeReport"}
      \X {"executorPreflight", "dispatchApproval", "transportPlan", "releaseBundle"}
    \cup {"envelopeReport", "simulationBundle", "simulationReport", "realCallProposal"}
      \X {"requestEnvelope"}
    \cup {"simulationBundle", "simulationReport"} \X {"adapterPlan", "responseFixture"}
    \cup {"realCallProposal"} \X {"adapterPlan", "simulationReport"}
    \cup {"changeProposal", "changeReport"} \X {"simulationReport", "realCallProposal"}
    \cup {"readinessAudit"} \X {"simulationReport", "realCallProposal", "changeProposal"}
    \cup {"activationRequest", "activationApproval", "rehearsal", "rehearsalReport"}
      \X {"realCallProposal", "readinessAudit"}
    \cup {"rehearsal", "rehearsalReport"} \X {"activationApproval"}
    \cup {"releasePackage"}
      \X {"realCallProposal", "changeReport", "readinessAudit", "activationApproval",
          "rehearsal"}
    \cup {"operatorReview", "operatorReviewReport"}
      \X {"realCallProposal", "activationApproval"}
    \cup {"realTransportPlan", "realTransportReport"}
      \X {"operatorReview", "finalAudit", "secretProposal"}
    \cup {"dispatchDesign", "dispatchDesignReport"}
      \X {"requestEnvelope", "realCallProposal", "finalAudit", "ciReport",
          "secretProposal", "realTransportPlan"}
    \cup {"reviewPackage", "reviewGate", "externalRequest"}
      \X {"finalAudit", "ciReport", "secretProposal", "realTransportPlan", "dispatchDesign"}
    \cup {"reviewPackage", "externalRequest"} \X {"operatorReview"}
    \cup {"externalRequest", "externalApproval"} \X {"reviewPackage", "reviewGate"}
    \cup {"externalApproval"} \X {"secretProposal", "dispatchDesign"}
    \cup {"runbook", "runbookReport"} \X {"dispatchDesign", "reviewGate", "externalApproval"}
    \cup {"riskRegister", "riskReport", "preimplementationGate"}
      \X {"reviewGate", "externalApproval", "runbook"}
    \cup {<<"preimplementationGate", "riskRegister">>}

\* The artifacts whose text is not compared either: the approval of the call,
\* the report on the dry run and, after the release gate, any of them.
TextsUncompared ==
  {"executorPreflight", "dispatchRequest", "dispatchApproval"}
      \X {"callApproval", "executorDryRunReport"}
    \cup {<<"releaseBundle", "executorDryRunReport">>}
    \cup (DOMAIN ActivationStage \ DOMAIN ProviderStage) \X DOMAIN ActivationStage

\* Reports recorded by hash whose result nobody reads.
Unopened ==
  {"changeProposal", "changeReport"} \X {"simulationReport"}
    \cup {"executorPreflight", "dispatchRequest", "dispatchApproval", "releaseBundle"}
           \X {"executorDryRunReport"}
=============================================================================
