------------------------------ MODULE LiveRefresh ------------------------------
(***************************************************************************)
(* What the terminal shows beside a session and below the home screen      *)
(* (tui.tsx): a resource per session, and one for home, which all views    *)
(* of it share.  It loads what it shows again on events, on timers and at  *)
(* an interval, one load at a time, until its last view is gone.           *)
(*                                                                         *)
(* What a load finds is a number that grows with every change.             *)
(***************************************************************************)
EXTENDS Integers, Sequences, FiniteSets

CONSTANTS
  View, Session, Home, None,
  EventDelays,   \* how many timers an event starts (EVENT_REFRESH_DELAYS_MS)
  MountDelays,   \* how many a new resource of a session has (MOUNT_RECOVERY_DELAYS_MS)
  MaxChanges, MaxResources

VARIABLES
  data,          \* what there is to be shown, of each session and of home
  resource,      \* the resources, in the order of their creation
  registry,      \* sessionResources and homeResources
  shown          \* the resource of each view

liveVars == <<data, resource, registry, shown>>

Place == Session \cup {Home}
Loading == -1

\* Of a load: current, that it was not overtaken (currentVersion = loadVersion), and
\* what it found.  Of a resource: panel, what it shows; wanted and heard, what there was
\* when it was last told to reload, and when it last heard of an event.
NewLoad == [current |-> TRUE, found |-> None]
NewResource(place) ==
  [place |-> place, refs |-> 1, disposed |-> FALSE, load |-> NewLoad, queued |-> FALSE,
   timers |-> IF place = Home THEN 0 ELSE MountDelays, panel |-> Loading, failed |-> FALSE,
   wanted |-> data[place], heard |-> data[place]]

\* What is left of a resource that is disposed: its timers are cleared, and its load
\* comes to nothing.
Disposed(place) == [place |-> place, refs |-> 0, disposed |-> TRUE]
Alive(i) == ~resource[i].disposed

------------------------------------------------------------------------------
LiveInit ==
  /\ data = [p \in Place |-> 0] /\ resource = <<>>
  /\ registry = [p \in Place |-> None] /\ shown = [v \in View |-> None]

\* reload: beside a load under way it only overtakes it.
Reloaded(r) ==
  LET told == [r EXCEPT !.wanted = data[r.place]]
  IN  IF r.load = None THEN [told EXCEPT !.load = NewLoad]
      ELSE [told EXCEPT !.queued = TRUE, !.load.current = FALSE]

\* A timer of an event or of the mount, or the interval.
Timer(i) ==
  /\ Alive(i) /\ resource[i].timers > 0
  /\ resource' = [resource EXCEPT ![i] = Reloaded([resource[i] EXCEPT !.timers = @ - 1])]
  /\ UNCHANGED <<data, registry, shown>>
Interval(i) ==
  /\ Alive(i)
  /\ resource' = [resource EXCEPT ![i] = Reloaded(@)]
  /\ UNCHANGED <<data, registry, shown>>

\* loadTuiSessionQuotaSurfaces, loadTuiHomeBottomStatus: what is read, at some time
Find(i) ==
  /\ Alive(i) /\ resource[i].load # None /\ resource[i].load.found = None
  /\ resource' = [resource EXCEPT ![i].load.found = data[resource[i].place]]
  /\ UNCHANGED <<data, registry, shown>>

\* Mutant: what was queued behind the load is forgotten.
Ended_Forgetful(r) == [r EXCEPT !.load = None, !.queued = FALSE]

\* finally: a queued reload follows.
Ended(r) ==
  LET idle == [r EXCEPT !.load = None, !.queued = FALSE]
  IN  IF r.queued THEN Reloaded(idle) ELSE idle

Finish(i) ==
  LET r == resource[i]
  IN  /\ Alive(i) /\ r.load # None
      /\ \/ /\ r.load.found # None
            /\ resource' = [resource EXCEPT ![i] =
                  Ended(IF r.load.current THEN [@ EXCEPT !.panel = r.load.found, !.failed = FALSE] ELSE @)]
         \/ resource' = [resource EXCEPT ![i] = Ended([@ EXCEPT !.failed = r.load.current])]
      /\ UNCHANGED <<data, registry, shown>>

\* Something changes, and an event may tell: the resource of the session hears it, and
\* that of home, which hears of every session.
Change(s, told) ==
  /\ data[Home] < MaxChanges
  /\ data' = [p \in Place |-> IF p \in {s, Home} THEN data[p] + 1 ELSE data[p]]
  /\ resource' = [i \in DOMAIN resource |->
        IF told /\ resource[i].place \in {s, Home} /\ Alive(i)
        THEN [resource[i] EXCEPT !.timers = @ + EventDelays, !.heard = data'[resource[i].place]]
        ELSE resource[i]]
  /\ UNCHANGED <<registry, shown>>

------------------------------------------------------------------------------
(* Views come and go.                                                       *)

\* With one view less: the last one disposes of the resource.
Left(r) == IF r.refs > 1 THEN [r EXCEPT !.refs = @ - 1] ELSE Disposed(r.place)

\* Mutant: who disposes of a resource leaves it in the map.
Release_Kept(resources, map, i) ==
  /\ resource' = [resources EXCEPT ![i] = Left(@)]
  /\ registry' = map

\* release
Release(resources, map, i) ==
  /\ resource' = [resources EXCEPT ![i] = Left(@)]
  /\ registry' = IF resource'[i].disposed THEN [map EXCEPT ![resources[i].place] = None] ELSE map

\* acquireSessionQuotaResource, acquireHomeBottomResource
Acquired(place) ==
  IF registry[place] # None
  THEN [id |-> registry[place], map |-> registry,
        resources |-> [resource EXCEPT ![registry[place]].refs = @ + 1]]
  ELSE [id |-> Len(resource) + 1, map |-> [registry EXCEPT ![place] = Len(resource) + 1],
        resources |-> Append(resource, NewResource(place))]
Acquirable(place) == registry[place] # None \/ Len(resource) < MaxResources

Mount(v, place) ==
  /\ shown[v] = None /\ Acquirable(place)
  /\ LET new == Acquired(place)
     IN  shown' = [shown EXCEPT ![v] = new.id] /\ resource' = new.resources /\ registry' = new.map
  /\ UNCHANGED data

\* useSessionQuotaResource: the next is acquired before the previous is released.
Switch(v, s) ==
  /\ shown[v] # None /\ resource[shown[v]].place \in Session \ {s} /\ Acquirable(s)
  /\ LET new == Acquired(s)
     IN  shown' = [shown EXCEPT ![v] = new.id] /\ Release(new.resources, new.map, shown[v])
  /\ UNCHANGED data

Unmount(v) ==
  /\ shown[v] # None /\ shown' = [shown EXCEPT ![v] = None]
  /\ Release(resource, registry, shown[v])
  /\ UNCHANGED data

LiveNext ==
  \/ \E s \in Session : (\E told \in BOOLEAN : Change(s, told)) \/ \E v \in View : Switch(v, s)
  \/ \E v \in View : Unmount(v) \/ \E p \in Place : Mount(v, p)
  \/ \E i \in DOMAIN resource : Timer(i) \/ Interval(i) \/ Find(i) \/ Finish(i)

------------------------------------------------------------------------------
(* Properties.                                                              *)

\* A resource that is at rest shows what there was when it was last told to reload, and
\* once its timers are through, what it heard of: however reloads, events and loads
\* meet, none is lost, unless the last load failed (createSessionQuotaResource).
RestsCurrent ==
  \A i \in DOMAIN resource :
    LET r == resource[i]
    IN  ~r.disposed => (r.load = None /\ ~r.failed =>
          r.panel >= r.wanted /\ (r.timers = 0 => r.panel >= r.heard))

\* Views of one session share a resource, and it lives as long as one of them: what is
\* disposed is in no map, so that the next view starts anew
\* (acquireSessionQuotaResource, useSessionQuotaResource, release).
SharedByViews ==
  /\ \A v \in View : shown[v] # None =>
       ~resource[shown[v]].disposed /\ registry[resource[shown[v]].place] = shown[v]
  /\ \A i \in DOMAIN resource :
       resource[i].disposed <=> \A v \in View : shown[v] # i
  /\ \A p \in Place : registry[p] # None => \E v \in View : shown[v] = registry[p]
==============================================================================
