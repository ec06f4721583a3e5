--------------------------- MODULE ServicesProofs ---------------------------
(***************************************************************************)
(* The instances of MCServices are those of its components: a behaviour of *)
(* all of them beside each other is a behaviour of each, so what is proved *)
(* of a component, for any values of its constants, holds of it there.     *)
(***************************************************************************)
EXTENDS MCServices, WorkflowProofs, TrustProofs, PlatformProofs, InstanceProofs, EvolutionProofs

svVars == <<picked, wfVars, pmVars, fdVars, nkVars, ssVars, dpVars, abVars, msVars, whVars,
            exVars, bkVars, blVars, ctVars>>

\* A component moves as it does alone, or not at all.
LEMMA EachMoves ==
    [SvNext]_svVars =>
        /\ [WfNext]_wfVars /\ [PmNext]_pmVars /\ [FdNext]_fdVars /\ [NkNext]_nkVars /\ [SsNext]_ssVars
        /\ [DpNext]_dpVars /\ [AbNext]_abVars /\ [MsNext]_msVars /\ [WhNext]_whVars /\ [ExNext]_exVars
        /\ [BkNext]_bkVars /\ [BlNext]_blVars /\ [CtNext]_ctVars
<1>1. CASE UNCHANGED svVars
    BY <1>1 DEF svVars
<1>2. ASSUME SvNext
      PROVE  /\ [WfNext]_wfVars /\ [PmNext]_pmVars /\ [FdNext]_fdVars /\ [NkNext]_nkVars /\ [SsNext]_ssVars
             /\ [DpNext]_dpVars /\ [AbNext]_abVars /\ [MsNext]_msVars /\ [WhNext]_whVars /\ [ExNext]_exVars
             /\ [BkNext]_bkVars /\ [BlNext]_blVars /\ [CtNext]_ctVars
    <2>1. [WfNext]_wfVars BY <1>2 DEF SvNext, Unless
    <2>2. [PmNext]_pmVars BY <1>2 DEF SvNext, Unless
    <2>3. [FdNext]_fdVars BY <1>2 DEF SvNext, Unless
    <2>4. [NkNext]_nkVars BY <1>2 DEF SvNext, Unless
    <2>5. [SsNext]_ssVars BY <1>2 DEF SvNext, Unless
    <2>6. [DpNext]_dpVars BY <1>2 DEF SvNext, Unless
    <2>7. [AbNext]_abVars BY <1>2 DEF SvNext, Unless
    <2>8. [MsNext]_msVars BY <1>2 DEF SvNext, Unless
    <2>9. [WhNext]_whVars BY <1>2 DEF SvNext, Unless
    <2>10. [ExNext]_exVars BY <1>2 DEF SvNext, Unless
    <2>11. [BkNext]_bkVars BY <1>2 DEF SvNext, Unless
    <2>12. [BlNext]_blVars BY <1>2 DEF SvNext, Unless
    <2>13. [CtNext]_ctVars BY <1>2 DEF SvNext, Unless
    <2> QED BY <2>1, <2>2, <2>3, <2>4, <2>5, <2>6, <2>7, <2>8, <2>9, <2>10, <2>11, <2>12, <2>13
<1> QED BY <1>1, <1>2

\* Each service writes its own tables and calls none of the others, so a behaviour
\* of all of them side by side is a behaviour of each: what is proved of one
\* holds there.
THEOREM ServicesAreTheirs ==
    SvSpec => /\ WfSpec /\ PmSpec /\ FdSpec /\ NkSpec /\ SsSpec /\ DpSpec /\ AbSpec
              /\ MsSpec /\ WhSpec /\ ExSpec /\ BkSpec /\ BlSpec /\ CtSpec
<1>1. SvInit => /\ WfInit /\ PmInit /\ FdInit /\ NkInit /\ SsInit /\ DpInit /\ AbInit
                /\ MsInit /\ WhInit /\ ExInit /\ BkInit /\ BlInit /\ CtInit
    BY DEF SvInit
<1>2. SvSpec => SvInit /\ [][SvNext]_svVars
    BY DEF SvSpec, svVars
<1>3. SvSpec => WfSpec BY <1>1, <1>2, EachMoves, PTL DEF WfSpec
<1>4. SvSpec => PmSpec BY <1>1, <1>2, EachMoves, PTL DEF PmSpec
<1>5. SvSpec => FdSpec BY <1>1, <1>2, EachMoves, PTL DEF FdSpec
<1>6. SvSpec => NkSpec BY <1>1, <1>2, EachMoves, PTL DEF NkSpec
<1>7. SvSpec => SsSpec BY <1>1, <1>2, EachMoves, PTL DEF SsSpec
<1>8. SvSpec => DpSpec BY <1>1, <1>2, EachMoves, PTL DEF DpSpec
<1>9. SvSpec => AbSpec BY <1>1, <1>2, EachMoves, PTL DEF AbSpec
<1>10. SvSpec => MsSpec BY <1>1, <1>2, EachMoves, PTL DEF MsSpec
<1>11. SvSpec => WhSpec BY <1>1, <1>2, EachMoves, PTL DEF WhSpec
<1>12. SvSpec => ExSpec BY <1>1, <1>2, EachMoves, PTL DEF ExSpec
<1>13. SvSpec => BkSpec BY <1>1, <1>2, EachMoves, PTL DEF BkSpec
<1>14. SvSpec => BlSpec BY <1>1, <1>2, EachMoves, PTL DEF BlSpec
<1>15. SvSpec => CtSpec BY <1>1, <1>2, EachMoves, PTL DEF CtSpec
<1> QED BY <1>3, <1>4, <1>5, <1>6, <1>7, <1>8, <1>9, <1>10, <1>11, <1>12, <1>13, <1>14, <1>15

\* Whatever the service that moves does, concurrently, failing or restarted, its
\* rows, calls and figures keep their types.
THEOREM ServicesTypeCorrect == SvSpec => []ServicesTypeOK
<1>1. /\ WfTypeOK /\ PmTypeOK /\ FdTypeOK /\ NkTypeOK /\ SsTypeOK /\ DpTypeOK /\ AbTypeOK
      /\ MsTypeOK /\ WhTypeOK /\ ExTypeOK /\ BkTypeOK /\ BlTypeOK /\ CtTypeOK
      => ServicesTypeOK
    BY DEF ServicesTypeOK
<1> QED BY <1>1, ServicesAreTheirs, WfTypeCorrect, ProvidersTypeCorrect, FederationTypeCorrect,
           NodeKeysTypeCorrect, SchedulerTypeCorrect, DeploymentsTypeCorrect, BufferTypeCorrect,
           MemorySyncTypeCorrect, WebhooksTypeCorrect, ExTypeCorrect, BackupsTypeCorrect,
           BillingTypeCorrect, CatalogueTypeCorrect, PTL
=============================================================================
