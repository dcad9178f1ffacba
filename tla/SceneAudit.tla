----------------------------- MODULE SceneAudit -----------------------------
(***************************************************************************)
(* The engine module that audits a scene tree (reference_app/godot_module/ *)
(* scene_audit.cpp).  A scene is [children, names, asked, record]: the     *)
(* children of every node in order, node 1 the root; the nodes' names; the *)
(* depth set_max_depth was last asked for; and whether the diagnostic      *)
(* store has room for a record.  A failure returns level by level.         *)
(***************************************************************************)
EXTENDS Descent

CONSTANTS
  MaxLimit,  \* the largest depth set_max_depth accepts
  MaxChain,  \* hops a diagnostic record has room for
  Reserved   \* names that begin with the reserved prefix

ASSUME SceneAssumption == MaxLimit \in Nat \ {0} /\ MaxChain \in Nat

NoContext == -1  \* in place of hops: no context is available

\* set_max_depth: CLAMP(p_depth, 1, 64).
Limit(asked) ==
  IF asked < 1 THEN 1 ELSE IF asked > MaxLimit THEN MaxLimit ELSE asked

\* A record for a new failure, if the store has room.
Recorded == IF input.record THEN 1 ELSE 0

\* audit: the null root is answered at once.
Audit(scene) ==
  /\ Begin("scene", scene, NoName,
           IF scene.names = <<>> THEN <<>> ELSE <<NewFrame(1, 0, 1)>>)
  /\ mode' = IF scene.names = <<>> THEN "begin" ELSE "run"
  /\ fault_name' = NoName
  /\ count' = 0
  /\ UNCHANGED <<path, held, deepest>>
EmptyTree ==
  /\ app = "scene" /\ mode = "begin"
  /\ mode' = "idle"
  /\ verdict' = [NoVerdict EXCEPT !.fault = "empty_tree", !.hops = NoContext]
  /\ UNCHANGED <<app, input, call, frames, path, held, payload, fault_name,
                 count, deepest>>

TooDeep(depth) == depth > Limit(input.asked)

\* check_name.
NameFault(name) ==
  FirstFault(<<<<name = NoName, "empty_name">>,
               <<name \in Reserved, "reserved_prefix">>,
               <<name \in Elements(path), "duplicate_name">>>>)

\* visit up to its loop: the depth and the name; r_where is set either way.
VisitNode ==
  /\ At("scene", "enter")
  /\ LET name == input.names[Top.name]
         fault == NameFault(name)
     IN  \/ /\ TooDeep(Top.depth)
            /\ FailHere("too_deep", name, Top.depth, Recorded)
         \/ /\ ~TooDeep(Top.depth) /\ fault # "none"
            /\ FailBelow(fault, name, Top.depth, Recorded)
         \/ /\ ~TooDeep(Top.depth) /\ fault = "none"
            /\ path' = Append(path, name)
            /\ fault_name' = name
            /\ count' = count + 1
            /\ frames' = [frames EXCEPT ![Len(frames)].pc = "children"]
            /\ UNCHANGED <<app, input, mode, call, payload, verdict, held, deepest>>

\* visit, the next child.
VisitChild ==
  /\ At("scene", "children")
  /\ Top.at <= Len(input.children[Top.name])
  /\ Enter([Top EXCEPT !.at = @ + 1],
           NewFrame(input.children[Top.name][Top.at], Top.depth + 1, 1))
  /\ UNCHANGED <<path, held, count, deepest>>

\* visit returns what it counted (count sums the levels' counters); audit's
\* set of seen names goes with the call.
VisitReturn ==
  /\ At("scene", "children")
  /\ Top.at > Len(input.children[Top.name])
  /\ \/ Succeed(count, <<>>) /\ path' = <<>>
     \/ ReturnTo(Caller) /\ UNCHANGED path
  /\ UNCHANGED <<held, count, deepest>>

\* A failure returns through visit's JMPXX_TRY.
VisitFails ==
  /\ app = "scene" /\ mode = "fail"
  /\ TryReturns(MaxChain)

\* audit reads the failure and its context; the landing releases the record.
AuditLand ==
  /\ app = "scene" /\ mode = "fail" /\ frames = <<>>
  /\ mode' = "idle"
  /\ verdict' = [NoVerdict EXCEPT !.fault = payload.fault, !.name = fault_name,
                   !.hops = IF held = 1 THEN payload.hops ELSE NoContext]
  /\ path' = <<>>
  /\ held' = 0
  /\ UNCHANGED <<app, input, call, frames, payload, fault_name, count, deepest>>

SceneNext ==
  \/ EmptyTree \/ VisitNode \/ VisitChild \/ VisitReturn \/ VisitFails
  \/ AuditLand
=============================================================================
