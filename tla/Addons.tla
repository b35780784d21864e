------------------------------- MODULE Addons -------------------------------
(***************************************************************************)
(* Step 3 of a ClusterClaim in detail (stepWatchAddons): in each pass the  *)
(* controller reads the AddonProfile, creates the HelmReleases that are    *)
(* missing in the order of the profile, then asks for the readiness of     *)
(* those that are required, one request after the other, and saves the     *)
(* phase AddonsReady if all of them were ready.  The profile comes from an *)
(* informer; the HelmReleases, unstructured objects, from the API server.  *)
(*                                                                         *)
(* An administrator may change the profile between two passes: versions    *)
(* are its index in Profiles.                                              *)
(***************************************************************************)
EXTENDS Naturals, Sequences

CONSTANTS
    Components,
    Profiles,       \* the versions: a component's order, and whether it is required
    MaxFaults,      \* bound: failed requests, lost answers, conflicts, crashes
    MaxEdits        \* bound: releases that fail again or are deleted

ASSUME AddonsAssumption ==
    /\ Len(Profiles) \in Nat \ {0} /\ DOMAIN Profiles = 1..Len(Profiles)
    /\ \A v \in DOMAIN Profiles :
          /\ DOMAIN Profiles[v] \subseteq Components /\ DOMAIN Profiles[v] # {}
          /\ \A c \in DOMAIN Profiles[v] : /\ Profiles[v][c].order \in Nat \ {0}
                                           /\ Profiles[v][c].required \in BOOLEAN
    /\ MaxFaults \in Nat /\ MaxEdits \in Nat

VARIABLES
    profile,    \* the AddonProfile's version
    seen,       \* the informer's copy of it
    release,    \* release[c]: the HelmRelease, and the version it was created from
    phase,      \* the claim's: "ClusterReady" or "AddonsReady"
    due,        \* is the claim in the work queue?
    stage,      \* the pass: "idle", "create" or "check"
    version,    \* the profile the pass works from
    left,       \* the components its loop has still to visit
    allReady,
    installed,  \* components that ever had a HelmRelease
    readySince, \* components that were ready at some moment since the pass began
    faults, edits

passVars == <<due, stage, version, left, allReady>>
vars == <<profile, seen, release, phase, passVars, installed, readySince, faults, edits>>

Versions == DOMAIN Profiles
Absent == [version |-> 0, ready |-> FALSE]
Required(v) == {c \in DOMAIN Profiles[v] : Profiles[v][c].required}

\* The type invariant.
AddonsTypeOK ==
    /\ {profile, seen, version} \subseteq Versions
    /\ release \in [Components -> [version: Versions \cup {0}, ready: BOOLEAN]]
    /\ phase \in {"ClusterReady", "AddonsReady"}
    /\ {due, allReady} \subseteq BOOLEAN
    /\ stage \in {"idle", "create", "check"} /\ left \subseteq Components
    /\ installed \subseteq Components /\ readySince \subseteq Components
    /\ faults \in 0..MaxFaults /\ edits \in 0..MaxEdits

Init ==
    /\ profile = 1 /\ seen = 1
    /\ release = [c \in Components |-> Absent]
    /\ phase = "ClusterReady"
    /\ due = TRUE /\ stage = "idle" /\ version = 1 /\ left = {} /\ allReady = TRUE
    /\ installed = {} /\ readySince = {}
    /\ faults = 0 /\ edits = 0

Fault == faults < MaxFaults /\ faults' = faults + 1

-------------------------------------------------------------------------------
(* A pass *)

AnyNext(c) == c \in left                        \* mutant: the components are not sorted

\* sort.Slice by order, which leaves components of equal order in any sequence.
IsNext(c) ==
    c \in left /\ \A d \in left : Profiles[version][c].order <= Profiles[version][d].order

\* The handler returns; RequeueAfter or the error bring it back.
Return == stage' = "idle" /\ due' = TRUE /\ left' = {} /\ UNCHANGED <<version, allReady>>

Begin ==
    /\ stage = "idle" /\ due /\ phase = "ClusterReady"
    /\ stage' = "create" /\ due' = FALSE
    /\ version' = seen /\ left' = DOMAIN Profiles[seen] /\ allReady' = TRUE
    /\ readySince' = {c \in Components : release[c].ready}
    /\ UNCHANGED <<profile, seen, release, phase, installed, faults, edits>>

CreatedFromNext(c) ==                           \* mutant: off by one version
    IF release[c] = Absent
    THEN /\ release' = [release EXCEPT ![c].version = version + 1]
         /\ installed' = installed \cup {c}
    ELSE UNCHANGED <<release, installed>>

\* applyUnstructured: an existing release is left as it is, whatever the profile says.
Created(c) ==
    IF release[c] = Absent
    THEN /\ release' = [release EXCEPT ![c].version = version]
         /\ installed' = installed \cup {c}
    ELSE UNCHANGED <<release, installed>>

EnsureHelmRelease(c) ==
    /\ stage = "create" /\ IsNext(c)
    /\ \/ /\ Created(c) /\ UNCHANGED <<due, version, allReady, faults>>
          /\ IF left = {c} THEN stage' = "check" /\ left' = Required(version)
                           ELSE left' = left \ {c} /\ UNCHANGED stage
       \/ /\ Fault /\ Return
          /\ Created(c) \/ UNCHANGED <<release, installed>>
    /\ UNCHANGED <<profile, seen, phase, readySince, edits>>

LastDecides(c) ==                               \* mutant: the last component decides
    /\ stage = "check" /\ IsNext(c)
    /\ allReady' = release[c].ready
    /\ left' = left \ {c} /\ UNCHANGED <<due, stage, version, faults>>
    /\ UNCHANGED <<profile, seen, release, phase, installed, readySince, edits>>

\* One request.  A release that is not there is not ready.
helmReleaseReady(c) == release[c].ready

CheckRequired(c) ==
    /\ stage = "check" /\ IsNext(c)
    /\ \/ /\ allReady' = (allReady /\ helmReleaseReady(c))
          /\ left' = left \ {c} /\ UNCHANGED <<due, stage, version, faults>>
       \/ Fault /\ Return
    /\ UNCHANGED <<profile, seen, release, phase, installed, readySince, edits>>

WaitForEvent ==                                 \* mutant: no RequeueAfter while waiting
    /\ stage = "check" /\ left = {}
    /\ IF allReady THEN phase' = "AddonsReady" ELSE UNCHANGED phase
    /\ stage' = "idle" /\ UNCHANGED <<due, version, left, allReady>>
    /\ UNCHANGED <<profile, seen, release, installed, readySince, faults, edits>>

\* All ready: save the phase, which may be refused or whose answer may be lost; else wait.
Decide ==
    /\ stage = "check" /\ left = {} /\ Return
    /\ \/ ~allReady /\ UNCHANGED <<phase, faults>>
       \/ allReady /\ phase' = "AddonsReady" /\ UNCHANGED faults
       \/ /\ allReady /\ Fault
          /\ phase' = "AddonsReady" \/ UNCHANGED phase
    /\ UNCHANGED <<profile, seen, release, installed, readySince, edits>>

\* The process restarts; the claim is queued, the informer lists.
Crash ==
    /\ Fault /\ Return
    /\ seen' = profile
    /\ UNCHANGED <<profile, release, phase, installed, readySince, edits>>

-------------------------------------------------------------------------------
(* What the controller does not decide *)

EditProfile ==
    /\ profile < Len(Profiles) /\ profile' = profile + 1
    /\ UNCHANGED <<seen, release, phase, passVars, installed, readySince, faults, edits>>

ProfileSync ==
    /\ seen # profile /\ seen' = profile
    /\ UNCHANGED <<profile, release, phase, passVars, installed, readySince, faults, edits>>

\* capi-addon-provider installs a release; later it may fail again, or be deleted.
Deploy(c) ==
    /\ release[c] # Absent /\ ~release[c].ready
    /\ release' = [release EXCEPT ![c].ready = TRUE]
    /\ readySince' = readySince \cup {c}
    /\ UNCHANGED <<profile, seen, phase, passVars, installed, faults, edits>>

Degrade(c) ==
    /\ edits < MaxEdits /\ edits' = edits + 1
    /\ \/ release[c].ready /\ release' = [release EXCEPT ![c].ready = FALSE]
       \/ release[c] # Absent /\ release' = [release EXCEPT ![c] = Absent]
    /\ UNCHANGED <<profile, seen, phase, passVars, installed, readySince, faults>>

Next ==
    \/ Begin \/ Decide \/ Crash \/ EditProfile \/ ProfileSync
    \/ \E c \in Components :
          EnsureHelmRelease(c) \/ CheckRequired(c) \/ Deploy(c) \/ Degrade(c)

Spec == Init /\ [][Next]_vars

\* The queue is served, a pass goes on, the informer and capi-addon-provider catch up.
Fairness ==
    /\ WF_vars(Begin) /\ WF_vars(Decide) /\ WF_vars(ProfileSync)
    /\ WF_vars(\E c \in Components : EnsureHelmRelease(c) \/ CheckRequired(c))
    /\ \A c \in Components : WF_vars(Deploy(c))

FairSpec == Spec /\ Fairness

-------------------------------------------------------------------------------
(* Properties *)

\* "Required components must be healthy before ClusterClaim reaches Ready"
\* (other_types.go:109): with one request per component, in a profile that may be edited
\* and releases that may fail meanwhile, each required component was ready at some moment
\* of the pass that saved AddonsReady; not all of them at the same moment.
RequiredWereReady == phase = "AddonsReady" => Required(version) \subseteq readySince

\* "Lower values install first" (other_types.go:113): a release is only created when every
\* component that comes before it in the same profile has had one, whatever passes failed
\* or worked from another version.  It does not wait for them to be ready.
InstallOrder ==
    \A c \in Components : release[c] # Absent =>
        LET p == Profiles[release[c].version]
        IN  \A d \in DOMAIN p : p[d].order < p[c].order => d \in installed

\* Nothing but the requeue of each wait brings the claim back, since HelmReleases are not
\* watched: it gets to AddonsReady, after lost requests, crashes, edits and releases that
\* fail or go missing.
AddonsComplete == <>(phase = "AddonsReady")
=============================================================================
