---------------------------- MODULE Applications ----------------------------
(***************************************************************************)
(* The repository's applications as long-lived processes: one of them is   *)
(* started, with the document or image it was given or none, and then      *)
(* called again and again, whatever the calls before it came to.           *)
(***************************************************************************)
EXTENDS Resolver, StoreCheck, ManifestTA, ConfigValidate

CONSTANTS
  Documents,  \* [values] tables
  Images,     \* record stores
  Manifests,  \* manifests the client sends
  Scenes,     \* trees the engine hands over
  Files       \* configurations

Pieces == [kind : {"text", "open", "ref"}, to : Keys]
Fields == {"good", "absent", "outside"}

\* What the parsers and the callers hand over, as far as the code relies on it.
ASSUME InputAssumption ==
  /\ \A d \in Documents :
       DOMAIN d \subseteq Keys /\ \A k \in DOMAIN d : d[k] \in Seq(Pieces)
  /\ \A m \in Images :
       m.mounts \in BOOLEAN /\ NoName \notin m.asked \cup DOMAIN m.records
  /\ \A m \in Manifests : Len(m.entries) \in Nat /\ m.pool \in Nat /\ m.room \in Nat
  /\ \A s \in Scenes :
       /\ s.names \in Seq(Keys \cup Reserved) /\ s.asked \in Int
       /\ \A n \in 1..Len(s.names) : s.children[n] \in Seq(1..Len(s.names))
  /\ \A f \in Files :
       /\ f.rich \in BOOLEAN
       /\ \A g \in {"max_connections", "timeout_ms"} : f[g] \in Fields

Init ==
  /\ \/ app = "resolver" /\ input \in Documents
     \/ app = "store" /\ input \in Images
     \/ app \in {"manifest", "scene", "config"} /\ input = NoName
  /\ mode = "idle"
  /\ call = NoName
  /\ frames = <<>>
  /\ path = <<>>
  /\ held = 0
  /\ payload = NoError
  /\ fault_name = NoName
  /\ count = 0
  /\ deepest = 0
  /\ verdict = NoVerdict

Next ==
  \/ ResolverNext
  \/ StoreCheckNext
  \/ ManifestNext
  \/ SceneNext
  \/ ConfigNext
  \/ /\ mode = "idle" /\ input = NoName
     /\ \/ app = "manifest" /\ \E m \in Manifests : VerifyManifest(m)
        \/ app = "scene" /\ \E s \in Scenes : Audit(s)
        \/ app = "config" /\ \E f \in Files : Load(f)
  \/ Forget

\* A call runs on once it has begun; nothing says another call is made.
Spec == Init /\ [][Next]_vars /\ WF_vars(mode # "idle" /\ Next)

-----------------------------------------------------------------------------

TypeOK ==
  /\ app \in {"resolver", "store", "manifest", "scene", "config"}
  /\ mode \in {"idle", "begin", "run", "escape", "fail"}
  /\ mode \in {"idle", "begin"} => frames = <<>>
  /\ mode = "run" => frames # <<>>
  /\ \A i \in 1..Len(frames) :
       /\ frames[i].depth = i - 1
       /\ frames[i].marks \in BOOLEAN /\ frames[i].owns \in BOOLEAN
  /\ held \in Nat /\ count \in Nat /\ deepest \in Nat

\* The frames still to be left that have a mark on the path, and those that own
\* a resource.
Markers == {i \in 1..Len(frames) : frames[i].marks}
Owners == {i \in 1..Len(frames) : frames[i].owns}

\* The path that outlives a call holds the names marked by the frames still on
\* the stack, which are the outermost ones, in order and without repetition,
\* and as many files or hash contexts are held as those frames own; so between
\* calls, after a fault at any depth as after a success, nothing is left
\* (resolve.hpp:74, store_check.cpp:196, manifest_ta.cpp:220: "the visit path
\* must be empty and every hash context released, or the second call
\* misbehaves").
GuardsExact ==
  /\ app \in {"resolver", "store", "manifest"} =>
       /\ Markers = 1..Len(path)
       /\ \A i \in 1..Len(path) : path[i] = frames[i].name
       /\ \A i, j \in 1..Len(path) : path[i] = path[j] => i = j
       /\ held = Cardinality(Owners)
  /\ mode = "idle" => path = <<>> /\ held = 0

\* The fixed arrays the path is kept in are never overrun, and no reference is
\* followed deeper than the applications allow (store_check.cpp:202,
\* manifest_ta.cpp:225, resolve.hpp:68).
PathFits ==
  /\ app = "resolver" => Len(path) <= MaxDepth + 1
  /\ app = "store" => Len(path) <= MaxPath /\ deepest <= MaxPath
  /\ app = "manifest" => Len(path) <= MaxNesting + 1 /\ deepest <= MaxNesting + 1

\* Every call comes back to its caller, whatever the references form: a chain,
\* a cycle or a tree (resolve.hpp:67, store_check.cpp:196, manifest_ta.cpp:220).
CallReturns == (mode # "idle") ~> (mode = "idle")
=============================================================================
