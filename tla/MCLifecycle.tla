---------------------------- MODULE MCLifecycle -----------------------------
(***************************************************************************)
(* What surrounds the service for TLC, each from its own start to its end: *)
(* a supervised task under the runtime, the daemon, ingestion, and the     *)
(* files of one stored stream.  They share no state; `part` says whose     *)
(* behaviour it is.                                                        *)
(***************************************************************************)
EXTENDS Supervision, Daemon, Ingestion, FileEventStore

CONSTANTS k1, k2        \* k1 has a monitor, samples of k2 find none

VARIABLE part

Routed == [k \in {k1} |-> k1]

allvars == <<part, vars, daemonvars, ingestvars, storevars>>

LifecycleInit ==
    /\ part \in {"supervision", "daemon", "ingestion", "store"}
    /\ Init /\ DaemonInit /\ IngestInit /\ StoreInit
    /\ part # "store" => \A m \in SegmentMaxes : segment_max <= m

Of(p) == part = p /\ UNCHANGED part
Supervised(A) == Of("supervision") /\ A /\ UNCHANGED <<daemonvars, ingestvars, storevars>>
Daemonic(A) == Of("daemon") /\ A /\ UNCHANGED <<vars, ingestvars, storevars>>
Ingested(A) == Of("ingestion") /\ A /\ UNCHANGED <<vars, daemonvars, storevars>>
Persisted(A) == Of("store") /\ A /\ UNCHANGED <<vars, daemonvars, ingestvars>>

LifecycleNext == Supervised(Next) \/ Daemonic(DaemonNext) \/ Ingested(IngestNext)
                 \/ Persisted(StoreNext)

(* The fairness of FairSpec, DaemonSpec and IngestFairSpec, each in its     *)
(* part.                                                                    *)
LifecycleSpec ==
    /\ LifecycleInit /\ [][LifecycleNext]_allvars
    /\ WF_allvars(Supervised(Supervise)) /\ WF_allvars(Supervised(TaskObservesCancel))
    /\ WF_allvars(Supervised(ShutdownClose)) /\ WF_allvars(Supervised(ShutdownWait))
    /\ WF_allvars(Daemonic(ServiceStep)) /\ WF_allvars(Daemonic(LoopStep))
    /\ WF_allvars(Daemonic(MainStep))
    /\ \A m \in Monitors : WF_allvars(Ingested(Monitor(m)))
    /\ WF_allvars(Ingested(PumpCancelled)) /\ WF_allvars(Ingested(Wake))
    /\ WF_allvars(Ingested(NoMonitor)) /\ SF_allvars(Ingested(Feed))
    /\ WF_allvars(Ingested(FeedFails)) /\ WF_allvars(Ingested(Fed))

(* Every task around the service ends: a shutdown returns however the      *)
(* supervised task panics, the daemon exits, and a cancelled pump and an   *)
(* orphaned monitor stop.                                                  *)
LifecycleEnds == ShutdownReturns /\ DaemonExits /\ TasksEnd
=============================================================================
