------------------------------ MODULE SiteSync ------------------------------
(***************************************************************************)
(* The SiteConfig controller: list the active devices of the site in       *)
(* Netbox, aggregate them into one summary per machine class, write the    *)
(* summaries and the time into the SiteConfig's status, and look again     *)
(* after five minutes.  The SiteConfig is read from the informer's cache   *)
(* and written under the API server's optimistic lock; an administrator    *)
(* may point it to another site at any time.                               *)
(*                                                                         *)
(* Classes and tags are numbers, so that their order is that of their      *)
(* names; class 0 is a device without a type.                              *)
(***************************************************************************)
EXTENDS Naturals, FiniteSets, Sequences, SequencesExt

CONSTANTS
    Devices,        \* numbers: Netbox lists them in this order
    Sites,
    SiteOf, ModelOf, TagsOf,    \* what Netbox says of a device
    MaxFaults,      \* bound: failed requests, error documents, lost answers, crashes
    MaxEdits        \* bound: changes of devices and of the spec

ASSUME SiteSyncAssumption ==
    /\ Devices \subseteq Nat /\ IsFiniteSet(Devices)
    /\ SiteOf \in [Devices -> Sites] /\ ModelOf \in [Devices -> Nat]
    /\ TagsOf \in [Devices -> SUBSET Nat]

VARIABLES
    device,     \* device[d]: "free", "assigned" (both active) or "inactive"
    site,       \* the SiteConfig's spec: which site it is for
    classes,    \* its status: the summaries; Never before the first sync
    elapsed,    \* has a second passed since the status was last stamped?
    seen,       \* the informer's copy of site; the status in it is not used
    current,    \* is that copy at the current resourceVersion?
    due,        \* the work queue: "now", "later" or "idle" (being handled)
    listing,    \* the reconciliation under way, if any: what it listed, and for which
                \* site; fresh as long as its copy of the SiteConfig is not out of date
    faults, edits

vars == <<device, site, classes, elapsed, seen, current, due, listing, faults, edits>>

Never == << [class |-> 0, available |-> 0, tags |-> <<>>] >>    \* no sync writes this

-------------------------------------------------------------------------------
(* The aggregation *)

Ascending(S) == SetToSortSeq(S, <)

InOrder == Ascending(Devices)

\* What ListDevicesBySite returns: the active devices, tenant or not.
ListDevicesBySite(s) ==
    LET active(d) == SiteOf[d] = s /\ device[d] # "inactive"
        list == SelectSeq(InOrder, active)
        listed(d) == [model |-> ModelOf[d], tags |-> TagsOf[d], free |-> device[d] = "free"]
    IN  [i \in DOMAIN list |-> listed(list[i])]

OverwriteTags(found, d) ==                      \* mutant: the last device's tags win
    IF d.model = 0 THEN found
    ELSE [m \in DOMAIN found \cup {d.model} |->
             IF m # d.model THEN found[m]
             ELSE [available |-> (IF m \in DOMAIN found THEN found[m].available ELSE 0)
                                 + (IF d.free THEN 1 ELSE 0),
                   tags |-> d.tags]]

\* One turn of the loop over the devices; found is the map of classes so far.
Count(found, d) ==
    IF d.model = 0 THEN found
    ELSE LET e == IF d.model \in DOMAIN found THEN found[d.model]
                  ELSE [available |-> 0, tags |-> {}]
         IN  [m \in DOMAIN found \cup {d.model} |->
                 IF m # d.model THEN found[m]
                 ELSE [available |-> IF d.free THEN e.available + 1 ELSE e.available,
                       tags |-> e.tags \cup d.tags]]

aggregateMachineClasses(list) ==
    LET found == FoldLeft(Count, [m \in {} |-> 0], list)
        order == Ascending(DOMAIN found)
    IN  [i \in DOMAIN order |-> [class |-> order[i],
                                 available |-> found[order[i]].available,
                                 tags |-> Ascending(found[order[i]].tags)]]

-------------------------------------------------------------------------------

Init ==
    /\ device \in [Devices -> {"free", "inactive"}]
    /\ site \in Sites /\ classes = Never /\ elapsed = TRUE
    /\ seen = site /\ current = TRUE
    /\ due = "now" /\ listing = {}
    /\ faults = 0 /\ edits = 0

Fault == faults < MaxFaults /\ faults' = faults + 1

Listed(s, list) == listing' = {[site |-> s, fresh |-> current, devices |-> list]}

DropFailed(s) ==                                \* mutant: a failed listing is not retried
    \/ Listed(s, ListDevicesBySite(s)) /\ UNCHANGED faults /\ due' = "idle"
    \/ Fault /\ due' = "idle" /\ UNCHANGED listing

\* The request: the listing; an error document, which decodes to an empty one; or an
\* error, after which the controller waits for its interval.
Listing(s) ==
    \/ Listed(s, ListDevicesBySite(s)) /\ UNCHANGED faults /\ due' = "idle"
    \/ Fault /\ Listed(s, <<>>) /\ due' = "idle"
    \/ Fault /\ due' = "later" /\ UNCHANGED listing

\* Reconcile up to the listing, from the informer's copy; an event or the interval.
Reconcile ==
    /\ due \in {"now", "later"} /\ listing = {}
    /\ Listing(seen)
    /\ UNCHANGED <<device, site, classes, elapsed, seen, current, edits>>

\* What an accepted write changes.  A status with the same summaries and, to the second,
\* the same time is no change; any other brings a watch event, so the next look comes
\* at once.
Stored(new) ==
    /\ classes' = new
    /\ IF new # classes \/ elapsed
       THEN current' = FALSE /\ elapsed' = FALSE
       ELSE UNCHANGED <<current, elapsed>>

After == IF due = "idle" THEN "later" ELSE due  \* RequeueAfter, unless an event came

UncheckedUpdate ==                              \* mutant: a patch without resourceVersion
    /\ \E l \in listing : Stored(aggregateMachineClasses(l.devices))
    /\ listing' = {} /\ due' = After
    /\ UNCHANGED <<device, site, seen, faults, edits>>

\* Status().Update: refused if the copy was out of date, and then retried; its request or
\* its answer may be lost, which is an error too.
UpdateStatus ==
    /\ \E l \in listing :
          \/ /\ l.fresh /\ Stored(aggregateMachineClasses(l.devices))
             /\ due' = After /\ UNCHANGED faults
          \/ /\ ~l.fresh /\ UNCHANGED <<classes, elapsed, current>>
             /\ due' = "now" /\ UNCHANGED faults
          \/ /\ Fault /\ due' = "now"
             /\ \/ UNCHANGED <<classes, elapsed, current>>
                \/ l.fresh /\ Stored(aggregateMachineClasses(l.devices))
    /\ listing' = {}
    /\ UNCHANGED <<device, site, seen, edits>>

-------------------------------------------------------------------------------
(* What the controller does not decide *)

\* The informer catches up, and its event queues the SiteConfig.
CacheSync ==
    /\ ~current
    /\ seen' = site /\ current' = TRUE /\ due' = "now"
    /\ UNCHANGED <<device, site, classes, elapsed, listing, faults, edits>>

Second ==
    /\ ~elapsed /\ elapsed' = TRUE
    /\ UNCHANGED <<device, site, classes, seen, current, due, listing, faults, edits>>

\* The process restarts: its informer lists, and the SiteConfig is queued.
Crash ==
    /\ Fault
    /\ seen' = site /\ current' = TRUE /\ due' = "now" /\ listing' = {}
    /\ UNCHANGED <<device, site, classes, elapsed, edits>>

Change == edits < MaxEdits /\ edits' = edits + 1

\* The claim controllers and Netbox's administrators.
ChangeDevice(d) ==
    /\ Change
    /\ \E s \in {"free", "assigned", "inactive"} \ {device[d]} :
          device' = [device EXCEPT ![d] = s]
    /\ UNCHANGED <<site, classes, elapsed, seen, current, due, listing, faults>>

\* An administrator points the SiteConfig to another site.
EditSpec ==
    /\ Change
    /\ site' \in Sites \ {site} /\ current' = FALSE
    /\ listing' = {[l EXCEPT !.fresh = FALSE] : l \in listing}
    /\ UNCHANGED <<device, classes, elapsed, seen, due, faults>>

Next ==
    \/ Reconcile \/ UpdateStatus \/ CacheSync \/ Second \/ Crash
    \/ EditSpec \/ \E d \in Devices : ChangeDevice(d)

Spec == Init /\ [][Next]_vars

\* The queue is served, the watch delivers, the interval and the second pass.
FairSpec ==
    Spec /\ WF_vars(Reconcile) /\ WF_vars(UpdateStatus) /\ WF_vars(CacheSync)
         /\ WF_vars(Second)

-------------------------------------------------------------------------------
(* Properties *)

\* MachineClassSummary, stated without the loop: one summary for each class of the
\* devices listed, in their order, with the number of its devices without a tenant
\* ("active, unassigned") and every tag of its devices once, sorted.
Summarises(summaries, list) ==
    /\ {summaries[i].class : i \in DOMAIN summaries} =
          {list[i].model : i \in DOMAIN list} \ {0}
    /\ \A i, j \in DOMAIN summaries : i < j => summaries[i].class < summaries[j].class
    /\ \A i \in DOMAIN summaries :
          LET s == summaries[i]
              mine == {j \in DOMAIN list : list[j].model = s.class}
          IN  /\ s.available = Cardinality({j \in mine : list[j].free})
              /\ \A n \in 1..Len(s.tags) - 1 : s.tags[n] < s.tags[n + 1]
              /\ {s.tags[n] : n \in DOMAIN s.tags} = UNION {list[j].tags : j \in mine}

\* Whatever is written into the status is the summary of what the same reconciliation
\* listed, for every mix of classes, tags and assignments.
SyncExact ==
    [][classes' # classes => \A l \in listing : Summarises(classes', l.devices)]_vars

\* And it is about the site the SiteConfig names at that moment, although the SiteConfig
\* may be edited between the read, the listing and the write.
SitesUnmixed ==
    [][classes' # classes => \A l \in listing : l.site = site]_vars

\* "refreshed from Netbox" (other_types.go): changes are few, so in the end the status
\* summarises the site of the spec, after errors, error documents, conflicts and crashes.
StatusFollows == []<>Summarises(classes, ListDevicesBySite(site))
=============================================================================
