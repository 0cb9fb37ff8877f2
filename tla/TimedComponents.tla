---------------------------- MODULE TimedComponents ----------------------------
(***************************************************************************)
(* The components that remember for a while: the three statistical         *)
(* detectors, which Pipeline.process() feeds one after the other and the   *)
(* sweep loop prunes one after the other, the ingest rate limiter and the  *)
(* enrichment cache.  They share the process's clock and nothing else, so  *)
(* a behaviour of the whole is a behaviour of each: the composition picks  *)
(* the component it looks at and lets the others rest.                     *)
(***************************************************************************)
EXTENDS BeaconDetector, ScanDetector, DiscoveryDetector, RateLimiter, Enrichment

CONSTANT Horizon    \* how long each component is watched

VARIABLE focus

timedVars ==
    <<focus, now, beaconVars, scanVars, discoveryVars, limiterVars, enrichmentVars>>

TimedInit ==
    /\ focus \in DOMAIN Horizon
    /\ BeaconInit /\ ScanInit /\ DiscoveryInit /\ LimiterInit /\ EnrichmentInit
    /\ focus # "limiter" => rate = CHOOSE r \in Rates : TRUE

BeaconStep ==
    /\ focus = "beacon" /\ BeaconNext
    /\ UNCHANGED <<focus, scanVars, discoveryVars, limiterVars, enrichmentVars>>

ScanStep ==
    /\ focus = "scan" /\ ScanNext
    /\ UNCHANGED <<focus, beaconVars, discoveryVars, limiterVars, enrichmentVars>>

DiscoveryStep ==
    /\ focus = "discovery" /\ DiscoveryNext
    /\ UNCHANGED <<focus, beaconVars, scanVars, limiterVars, enrichmentVars>>

LimiterStep ==
    /\ focus = "limiter" /\ LimiterNext
    /\ UNCHANGED <<focus, beaconVars, scanVars, discoveryVars, enrichmentVars>>

EnrichmentStep ==
    /\ focus = "enrichment" /\ EnrichmentNext
    /\ UNCHANGED <<focus, beaconVars, scanVars, discoveryVars, limiterVars>>

TimedNext ==
    /\ BeaconStep \/ ScanStep \/ DiscoveryStep \/ LimiterStep \/ EnrichmentStep
    /\ now' <= Horizon[focus]

TimedSpec == TimedInit /\ [][TimedNext]_timedVars

\* Type invariant of the components with a clock.
TimedTypeOK == BeaconTypeOK /\ ScanTypeOK /\ DiscoveryTypeOK /\ LimiterTypeOK
=============================================================================
