---------------------------- MODULE MCControllers ----------------------------
(***************************************************************************)
(* The parts that share no state, in one instance: a behaviour starts with *)
(* the choice of a part, takes steps of that part only and leaves the      *)
(* variables of the others at one of their initial values.                 *)
(***************************************************************************)
EXTENDS MCAlgorithms, CloudManager, CertBootstrap, DSCAdmission, HWPWebhook,
        RegistryOrder, TestRetry

VARIABLE part

ModelParts == {"kueue", "cloud", "pki", "upgrade", "api", "hardware", "scc", "registries", "retry", "algorithms"}
mcVars == <<part, kueue, cloud, pki, up, api, hw, scc, reg, retry, input>>

-----------------------------------------------------------------------------
\* Five tests: a suite, two groups in it, a case in the first one, and another
\* suite; a prefix may end in a slash.

MCSuite == <<<<"t">>, <<"t", "c">>, <<"t", "c", "x">>, <<"t", "d">>, <<"u">>>>
Prefix(path, slash) == [path |-> path, slash |-> slash]
Options(retries, skip, never, report) ==
    [MaxRetries |-> retries, SkipAtPrefixes |-> skip, NeverSkipPrefixes |-> never, JUnitOutputPath |-> report,
     label |-> report]
MCRetryOptions ==
    {Options(2, <<Prefix(<<"t", "c">>, TRUE), Prefix(<<"t">>, TRUE)>>, <<>>, TRUE),
     Options(1, <<Prefix(<<"t">>, TRUE)>>, <<Prefix(<<"t", "d">>, FALSE)>>, TRUE),
     Options(1, <<Prefix(<<"*">>, TRUE), Prefix(<<"u">>, FALSE)>>, <<Prefix(<<"t", "c">>, TRUE)>>, FALSE),
     Options(0, <<>>, <<>>, TRUE)}

-----------------------------------------------------------------------------
OneOf(S) == CHOOSE s \in S : TRUE

MCInit ==
    /\ part \in ModelParts
    /\ KueueInit /\ CMInit /\ PKIInit /\ APIInit /\ RegInit
    /\ IF part = "upgrade" THEN UpInit ELSE up = OneOf(UpStarts)
    /\ IF part = "hardware" THEN HWInit ELSE hw = OneOf(HWStarts)
    /\ IF part = "scc" THEN SCCInit ELSE scc = OneOf(SCCStarts)
    /\ IF part = "retry" THEN RetryInit ELSE retry = OneOf(RetryStarts)
    /\ input = NoInput

MCNext ==
    /\ UNCHANGED part
    /\ \/ /\ part = "kueue" /\ KueueNext
          /\ UNCHANGED <<cloud, pki, up, api, hw, scc, reg, retry, input>>
       \/ /\ part = "cloud" /\ CMNext
          /\ UNCHANGED <<kueue, pki, up, api, hw, scc, reg, retry, input>>
       \/ /\ part = "pki" /\ PKINext
          /\ UNCHANGED <<kueue, cloud, up, api, hw, scc, reg, retry, input>>
       \/ /\ part = "upgrade" /\ UpNext
          /\ UNCHANGED <<kueue, cloud, pki, api, hw, scc, reg, retry, input>>
       \/ /\ part = "api" /\ APINext
          /\ UNCHANGED <<kueue, cloud, pki, up, hw, scc, reg, retry, input>>
       \/ /\ part = "hardware" /\ HWNext
          /\ UNCHANGED <<kueue, cloud, pki, up, api, scc, reg, retry, input>>
       \/ /\ part = "scc" /\ SCCNext
          /\ UNCHANGED <<kueue, cloud, pki, up, api, hw, reg, retry, input>>
       \/ /\ part = "registries" /\ RegNext
          /\ UNCHANGED <<kueue, cloud, pki, up, api, hw, scc, retry, input>>
       \/ /\ part = "retry" /\ RetryNext
          /\ UNCHANGED <<kueue, cloud, pki, up, api, hw, scc, reg, input>>
       \/ /\ part = "algorithms" /\ AlgorithmsNext
          /\ UNCHANGED <<kueue, cloud, pki, up, api, hw, scc, reg, retry>>

\* The variables of the other parts never change: two states of a part are the
\* same when its own variable is.
MCView ==
    <<part, CASE part = "kueue" -> kueue [] part = "cloud" -> cloud [] part = "pki" -> pki
              [] part = "upgrade" -> up [] part = "api" -> api [] part = "hardware" -> hw
              [] part = "scc" -> scc [] part = "registries" -> reg
              [] part = "retry" -> retry [] OTHER -> input>>

MCSpec == MCInit /\ [][MCNext]_mcVars

-----------------------------------------------------------------------------
(* ControllersSettle: a controller with nothing left to do has left the cluster
   as it promises, and its conditions say what is true: the Kueue component, the
   cloud manager, its PKI, the upgrade tasks of a leader, the cleanup of the
   database module and the registrations of a start, whatever users, faults,
   restarts and other programs did between the calls of their passes. *)
ControllersSettle ==
    /\ KueueSettled /\ KueueReadyTruthful
    /\ CloudSettled /\ CloudReadyTruthful
    /\ PKISettled /\ PKINotLeftUnknown
    /\ UpgradeComplete
    /\ ConstraintRemoved
    /\ UnifiedIsBoth

(* NothingNeededIsTaken: no step of a controller deletes or overwrites what
   others depend on (operators with a CR to finalize, the access rights of a
   terminating operator, the root of trust) or what belongs to users (queues,
   CRs, profiles, choices, constraints and objects of the same name). *)
NothingNeededIsTaken ==
    [][ /\ part = "cloud" => OperatorOutlivesCR /\ LeaseReleasable /\ ForeignCRKept
        /\ part = "pki" => RootOfTrustKept
        /\ part = "kueue" => UserQueuesKept
        /\ part = "upgrade" => UserChoicesKept /\ ForeignObjectsKept
        /\ part = "scc" => ForeignConstraintKept' ]_mcVars

(* AdmissionIsFaithful: a sequence of requests through the webhooks and the
   conversion of the DataScienceCluster loses nothing.  Its settings survive
   clients of the other version, none of which is locked out, and what is stored
   can be served. *)
AdmissionIsFaithful == V2RoundTrip /\ NobodyLockedOut /\ ProvenanceTruthful /\ StoredIsServable


(* RetryIsHonest: the verdict and the report of the test-retry tool are about
   every test of the suite, over runs that time out, crash or skip. *)
RetryIsHonest == SuccessMeansPassed /\ ReportAgrees /\ PassedIsNotRepeated

=============================================================================
