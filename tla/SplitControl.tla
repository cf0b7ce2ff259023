---------------------------- MODULE SplitControl ----------------------------
(***************************************************************************)
(* The control state of a cluster and the split command that changes it:   *)
(* app_util/control.  A split request names, for each cluster it impacts,  *)
(* the groups of accounts that the cluster serves from then on; a cluster  *)
(* that no split has impacted serves every group.                          *)
(*                                                                         *)
(* A request is [plan, epoch, impacts]; an impact is [cluster, newcluster, *)
(* type, total, groups] with groups a sequence, as in the protobuf.        *)
(***************************************************************************)
EXTENDS Integers, Sequences, FiniteSets, Functions, SequencesExt

CONSTANTS
  NoPlan     \* the empty plan id

-----------------------------------------------------------------------------
(* RouteMap: a function from route types to [total, groups] *)

ApplyRoute(routes, impact) ==
  IF impact.groups = <<>>
  THEN Restrict(routes, DOMAIN routes \ {impact.type})
  ELSE [t \in DOMAIN routes \cup {impact.type} |->
          IF t = impact.type
          THEN [total |-> impact.total, groups |-> ToSet(impact.groups)]
          ELSE routes[t]]

HasGroup(routes, type, group) == type \in DOMAIN routes /\ group \in routes[type].groups

\* parseFromProto adds to the routes there are.
ParseRoutes(routes, proto) ==
  [t \in DOMAIN routes \cup DOMAIN proto |-> IF t \in DOMAIN proto THEN proto[t] ELSE routes[t]]

-----------------------------------------------------------------------------
(* CtrlState.  mClusterId and mStartIndex have no initializer: 0 stands for *)
(* whatever they hold, and nothing reads them before a split has set the    *)
(* epoch, encodeToString apart.                                             *)

NewCtrlState == [epoch |-> 0, plan |-> NoPlan, cluster |-> 0, start |-> 0, routes |-> <<>>]

HasState(state) == state.epoch > 0

\* A policy assumed of the application: checkCommand, the hook that is given this
\* state, lets every command pass unless the application overrides it.  The
\* policy is the one that hasState and hasGroup are there for: before any split
\* all traffic, after it the groups of the routes.
Serves(state, type, group) == HasState(state) => HasGroup(state.routes, type, group)

\* encodeToString, then decodeFromString into a new state by a node of cluster
\* self.  A state no split has set may carry any cluster id, and is decoded to
\* one that has no state either way.
DecodeFromString(encoded, self) ==
  IF encoded.cluster = self /\ HasState(encoded)
  THEN [encoded EXCEPT !.routes = ParseRoutes(<<>>, encoded.routes)]
  ELSE NewCtrlState

-----------------------------------------------------------------------------
(* SplitCommand *)

SameType(impacts, i, j) == impacts[i].type = impacts[j].type

\* The last total seen for the type, unless it was 0, is the one to keep to.
TotalsAgree(impacts) ==
  \A i, j \in DOMAIN impacts :
    /\ i < j
    /\ SameType(impacts, i, j)
    /\ \A k \in (i + 1)..(j - 1) : ~SameType(impacts, i, k)
    /\ impacts[i].total > 0
    => impacts[i].total = impacts[j].total

GroupsAreDistinct(impacts) ==
  \A i, j \in DOMAIN impacts :
    SameType(impacts, i, j) =>
      \A m \in DOMAIN impacts[i].groups, n \in DOMAIN impacts[j].groups :
        impacts[i].groups[m] = impacts[j].groups[n] => i = j /\ m = n

VerifyCommand(request) ==
  /\ request.plan # NoPlan
  /\ request.epoch > 0
  /\ TotalsAgree(request.impacts)
  /\ GroupsAreDistinct(request.impacts)

\* The code of SplitCommand::process; 200 comes with one SplitEvent.
ProcessSplit(state, request) ==
  IF ~HasState(state) \/ request.epoch > state.epoch THEN 200
  ELSE IF request.epoch = state.epoch /\ request.plan = state.plan THEN 201
  ELSE 400

-----------------------------------------------------------------------------
(* SplitEvent::apply by a node of cluster self, for the command at commandId *)

\* Mutant of ImpactsOn: the cluster of an impact is not looked at.
AllImpacts(request, self) == request.impacts

ImpactsOn(request, self) == SelectSeq(request.impacts, LAMBDA i : i.cluster = self)

\* The assertion of apply: cluster 0 is never a new one.
MayApplySplit(request, self) ==
  \A i \in DOMAIN ImpactsOn(request, self) :
    ImpactsOn(request, self)[i].newcluster => ImpactsOn(request, self)[i].cluster # 0

ApplySplit(state, request, commandId, self) ==
  LET mine == ImpactsOn(request, self)
      cleared == [state EXCEPT !.routes = <<>>]
      Impact(s, i) ==
        [s EXCEPT !.routes = ApplyRoute(@, i),
                  !.cluster = self,
                  !.start = IF i.newcluster THEN commandId + 1 ELSE @]
  IN IF mine = <<>>
     THEN cleared
     ELSE [FoldLeft(Impact, cleared, mine) EXCEPT !.epoch = request.epoch,
                                                  !.plan = request.plan]

=============================================================================
