--------------------------- MODULE ConfigValidate ---------------------------
(***************************************************************************)
(* The configuration checker (reference_app/src/config_validate.cpp, with  *)
(* app_policy.hpp, limits_check.hpp and policy_check.hpp).  A file is a    *)
(* record that gives each field as "good", "absent" (or of another type)   *)
(* or "outside" its bounds; rich tells which error policy was built.  The  *)
(* first problem is reported with the section it is in, and under the rich *)
(* policy with the JMPXX_TRYs the error passed.                            *)
(***************************************************************************)
EXTENDS SceneAudit

ServerFields == <<"host", "port", "workers">>
LimitFields == <<"max_connections", "timeout_ms">>

\* A failure of app::error has a record under the rich policy.
PolicyRecord == IF input.rich THEN 1 ELSE 0

\* main: load.
Load(file) ==
  /\ Begin("config", file, NoName, <<>>)
  /\ mode' = "begin"
  /\ fault_name' = NoName
  /\ UNCHANGED <<path, held, count, deepest>>
ParseFile ==
  /\ app = "config" /\ mode = "begin"
  /\ \/ /\ input.file # "good"
        /\ FailBelow("parse", "file", 0, PolicyRecord)
     \/ /\ input.file = "good"
        /\ mode' = "run"
        /\ frames' = <<NewFrame("server", 0, 1)>>
        /\ UNCHANGED <<app, input, call, path, held, payload, fault_name, count,
                       deepest, verdict>>

\* validate: the next field; field_string has no frame of its own here.
ValidateField ==
  /\ At("config", "enter")
  /\ Top.name = "server"
  /\ LET field == ServerFields[Top.at]
     IN  \/ /\ field = "host" /\ input.host # "good"
            /\ FailBelow("missing", "server", 0, PolicyRecord)
         \/ /\ field = "host" /\ input.host = "good"
            /\ Go([Top EXCEPT !.at = @ + 1])
            /\ UNCHANGED <<path, held, count, deepest>>
         \/ /\ field # "host"
            /\ Enter(Top, NewFrame(field, 1, 1))
            /\ UNCHANGED <<path, held, count, deepest>>

\* field_int: from_optional below its JMPXX_TRY, and its own range check.
FieldInt ==
  /\ At("config", "enter")
  /\ Top.name \in {"port", "workers"}
  /\ \/ /\ input[Top.name] = "absent"
        /\ FailBelow("missing", "server", 0, PolicyRecord)
     \/ /\ input[Top.name] = "outside"
        /\ FailHere("out_of_range", "server", 0, PolicyRecord)
     \/ /\ input[Top.name] = "good"
        /\ ReturnTo(IF Caller.at < Len(ServerFields)
                    THEN [Caller EXCEPT !.at = @ + 1]
                    ELSE NewFrame("limits", 0, 1))
        /\ UNCHANGED <<path, held, count, deepest>>

\* limits::check: the erased error carries no context.
LimitsFault ==
  LET fault(f) == CASE input[f] = "absent" -> "missing_key"
                    [] input[f] = "outside" -> "limit_out_of_range"
                    [] OTHER -> "none"
  IN  FirstFault(<<<<input.limits # "good", "missing_section">>>>
        \o [i \in 1..Len(LimitFields) |->
              <<input[LimitFields[i]] # "good", fault(LimitFields[i])>>])
CheckLimits ==
  /\ At("config", "enter")
  /\ Top.name = "limits"
  /\ \/ /\ LimitsFault # "none"
        /\ FailHere(LimitsFault, "limits", 0, 0)
     \/ /\ LimitsFault = "none"
        /\ Go(NewFrame("policy", 0, 1))
        /\ UNCHANGED <<path, held, count, deepest>>

\* main: [policy].access is read, and parsed as JSON by glaze.
CheckPolicy ==
  /\ At("config", "enter")
  /\ Top.name = "policy"
  /\ \/ /\ input.access = "absent"
        /\ FailHere("missing", "policy", 0, PolicyRecord)
     \/ /\ input.access = "outside"
        /\ FailHere("json", "policy", 0, 0)
     \/ /\ input.access = "good"
        /\ Succeed(0, <<>>)
        /\ UNCHANGED <<path, held, count, deepest>>

\* A failure returns through the JMPXX_TRY of field_int or validate.
ValidateFails ==
  /\ app = "config" /\ mode = "fail"
  /\ TryReturns(MaxChain)

\* main reports the failure and leaves the landing.
Report ==
  /\ app = "config" /\ mode = "fail" /\ frames = <<>>
  /\ mode' = "idle"
  /\ verdict' = [NoVerdict EXCEPT !.fault = payload.fault, !.name = fault_name,
                   !.hops = IF held = 1 THEN payload.hops ELSE NoContext]
  /\ held' = 0
  /\ UNCHANGED <<app, input, call, frames, path, payload, fault_name, count,
                 deepest>>

ConfigNext ==
  \/ ParseFile \/ ValidateField \/ FieldInt \/ CheckLimits \/ CheckPolicy
  \/ ValidateFails \/ Report
=============================================================================
