----------------------- MODULE ApplicationsReference -----------------------
(***************************************************************************)
(* What the verdict of a call must be, as a function of the input and the  *)
(* name asked for alone: no path, no frames, no order of destruction.      *)
(* The chains of the record checker and the manifest verifier are walked   *)
(* as a sequence, the configuration is a list of checks, and the text of a *)
(* key and the names of a scene are values by the levels left below them.  *)
(***************************************************************************)
EXTENDS Applications

Failed(fault, depth, name) ==
  [NoVerdict EXCEPT !.fault = fault, !.depth = depth, !.name = name]
Completed(n, out) == [NoVerdict EXCEPT !.ok = TRUE, !.count = n, !.out = out]
Least(S) == CHOOSE i \in S : \A j \in S : i <= j
Greatest(S) == CHOOSE i \in S : \A j \in S : i >= j

\* What has been done so far, followed by one thing more: a failure stays the
\* first one, and what was put out is joined.
After(before, next) ==
  IF ~before.ok THEN before
  ELSE IF ~next.ok THEN next
  ELSE Completed(0, before.out \o next.out)

\* The text of key up to piece i, at a depth; below[k] is the value of the key
\* k one level deeper.
PieceValue(doc, key, depth, below, i) ==
  LET piece == doc[key][i]
  IN  CASE piece.kind = "text" -> Completed(0, <<key>>)
        [] piece.kind = "open" -> Failed("malformed", depth, RawText)
        [] piece.kind = "ref" -> below[piece.to]
TextUpTo(doc, key, depth, below) ==
  LET upto[i \in 0..Len(doc[key])] ==
        IF i = 0 THEN Completed(0, <<>>)
        ELSE After(upto[i - 1], PieceValue(doc, key, depth, below, i))
  IN  upto
TextOf(doc, key, depth, seen, below) ==
  LET fault == FirstFault(<<<<key \in seen, "cycle">>,
                            <<key \notin DOMAIN doc, "missing">>>>)
  IN  IF fault # "none" THEN Failed(fault, depth, key)
      ELSE TextUpTo(doc, key, depth, below[seen \cup {key}])[Len(doc[key])]

\* The value of a key reached through the keys seen, with n levels to go.
Values(doc) ==
  LET value[n \in 0..(MaxDepth + 1)] ==
        [seen \in SUBSET Keys |-> [key \in Keys |->
           IF n = 0 THEN Failed("too_deep", MaxDepth + 1, key)
           ELSE TextOf(doc, key, MaxDepth + 1 - n, seen, value[n - 1])]]
  IN  value
ResolverVerdict(doc, key) == Values(doc)[MaxDepth + 1][{}][key]

\* The references from entry on: walk[i] is the name at depth i - 1, NoName
\* beyond the end.
NextRecord(image, name) ==
  IF name \in DOMAIN image.records THEN image.records[name].ref ELSE NoName
RecordWalk(image, entry) ==
  LET walk[i \in 1..(MaxPath + 1)] ==
        IF i = 1 THEN entry ELSE NextRecord(image, walk[i - 1])
  IN  walk
StoreFaultAt(image, walk, i) ==
  LET there == walk[i] \in DOMAIN image.records
      bytes == IF there THEN RecordFault(image.records[walk[i]].flaws) ELSE "none"
  IN  FirstFault(<<<<walk[i] \in {walk[j] : j \in 1..(i - 1)}, "reference_cycle">>,
                   <<i > MaxPath, "nesting_too_deep">>,
                   <<~there, "record_unreadable">>,
                   <<bytes # "none", bytes>>,
                   <<NextRecord(image, walk[i]) \notin DOMAIN image.records \cup {NoName},
                     "reference_missing">>>>)
StoreVerdict(image, entry) ==
  LET walk == RecordWalk(image, entry)
      steps == {i \in 1..(MaxPath + 1) : walk[i] # NoName}
      faulty == {i \in steps : StoreFaultAt(image, walk, i) # "none"}
      f == Least(faulty)
      fault == StoreFaultAt(image, walk, f)
  IN  IF ~image.mounts THEN Failed("mount_failed", 0, entry)
      ELSE IF faulty = {} THEN Completed(Cardinality(steps), <<>>)
      ELSE Failed(fault, f - 1, IF fault = "reference_missing"
                                THEN NextRecord(image, walk[f]) ELSE walk[f])

\* The entries from the first on, by their indices; 0 beyond the end.  The
\* faults of an entry's fields come on the way down, those of its image on
\* the way back up.
NextEntry(m, i) ==
  IF i = 0 THEN 0
  ELSE LET found == FindEntry(m, m.entries[i].ref)
       IN  IF m.entries[i].ref = NoName \/ found = {} THEN 0 ELSE First(found)
EntryWalk(m) ==
  LET walk[i \in 1..(MaxNesting + 2)] ==
        IF i = 1 THEN 1 ELSE NextEntry(m, walk[i - 1])
  IN  walk
NameAt(m, walk, i) == m.entries[walk[i]].name
EntryFaultAt(m, walk, i) ==
  FirstFault(<<<<NameAt(m, walk, i) \in {NameAt(m, walk, j) : j \in 1..(i - 1)},
                 "reference_cycle">>,
               <<i > MaxNesting + 1, "nesting_too_deep">>,
               <<i > m.pool, "digest_unavailable">>,
               <<EntryFault(m, walk[i]) # "none", EntryFault(m, walk[i])>>>>)
Blamed(m, walk, i, fault) ==
  CASE fault = "digest_unavailable" -> "digest"
    [] fault = "reference_missing" -> m.entries[walk[i]].ref
    [] OTHER -> NameAt(m, walk, i)
Verification(m) ==
  LET walk == EntryWalk(m)
      steps == {i \in 1..(MaxNesting + 2) : walk[i] # 0}
      faulty == {i \in steps : EntryFaultAt(m, walk, i) # "none"}
      f == Least(faulty)
      fault == EntryFaultAt(m, walk, f)
      bad == {i \in steps : ImageFault(m, walk[i]) # "none"}
      b == Greatest(bad)
  IN  IF HeaderFault(m) # "none" THEN Failed(HeaderFault(m), 0, "root")
      ELSE IF faulty # {} THEN Failed(fault, f - 1, Blamed(m, walk, f, fault))
      ELSE IF bad # {} THEN Failed(ImageFault(m, walk[b]), b - 1, NameAt(m, walk, b))
      ELSE Completed(Cardinality(steps), <<>>)

\* The client learns it if its buffer has the room: one unit, and one more for
\* a name.
Answer(m, v) ==
  IF (v.name = NoName /\ m.room >= 1) \/ m.room >= 2 THEN v
  ELSE Failed("short_buffer", 0, NoName)
ManifestVerdict(m) == Answer(m, Verification(m))

\* The names below node up to its child i, the node's own first; below[s][c]
\* are those below its child c when the names in s have been seen.
NamesUpTo(scene, node, seen, below) ==
  LET upto[i \in 0..Len(scene.children[node])] ==
        IF i = 0 THEN Completed(0, <<scene.names[node]>>)
        ELSE After(upto[i - 1], below[seen \cup Elements(upto[i - 1].out)]
                                     [scene.children[node][i]])
  IN  upto
NamesBelow(scene, node, depth, seen, below) ==
  LET name == scene.names[node]
      fault == FirstFault(<<<<name = NoName, "empty_name">>,
                            <<name \in Reserved, "reserved_prefix">>,
                            <<name \in seen, "duplicate_name">>>>)
  IN  IF fault # "none" THEN Failed(fault, depth, name)
      ELSE NamesUpTo(scene, node, seen, below)[Len(scene.children[node])]

\* What a visit of a node comes to with n levels to go.
Visits(scene) ==
  LET limit == Limit(scene.asked)
      visit[n \in 0..(limit + 1)] ==
        [seen \in SUBSET Elements(scene.names) |-> [node \in 1..Len(scene.names) |->
           IF n = 0 THEN Failed("too_deep", limit + 1, scene.names[node])
           ELSE NamesBelow(scene, node, limit + 1 - n, seen, visit[n - 1])]]
  IN  visit
Shorter(n) == IF n < MaxChain THEN n ELSE MaxChain
SceneVerdict(scene) ==
  LET all == Visits(scene)[Limit(scene.asked) + 1][{}][1]
      hops == IF all.fault = "too_deep" THEN all.depth ELSE all.depth + 1
  IN  IF scene.names = <<>>
      THEN [Failed("empty_tree", 0, NoName) EXCEPT !.hops = NoContext]
      ELSE IF all.ok THEN Completed(Len(all.out), <<>>)
      ELSE [Failed(all.fault, 0, all.name)
              EXCEPT !.hops = IF scene.record THEN Shorter(hops) ELSE NoContext]

\* The checks of a configuration: whether each fails, the fault, the section,
\* and the JMPXX_TRYs it passes (NoContext: its error keeps none).
ConfigChecks(file) ==
  <<<<file.file # "good", "parse", "file", 0>>,
    <<file.host # "good", "missing", "server", 1>>,
    <<file.port = "absent", "missing", "server", 2>>,
    <<file.port = "outside", "out_of_range", "server", 1>>,
    <<file.workers = "absent", "missing", "server", 2>>,
    <<file.workers = "outside", "out_of_range", "server", 1>>,
    <<file.limits # "good", "missing_section", "limits", NoContext>>,
    <<file.max_connections = "absent", "missing_key", "limits", NoContext>>,
    <<file.max_connections = "outside", "limit_out_of_range", "limits", NoContext>>,
    <<file.timeout_ms = "absent", "missing_key", "limits", NoContext>>,
    <<file.timeout_ms = "outside", "limit_out_of_range", "limits", NoContext>>,
    <<file.access = "absent", "missing", "policy", 0>>,
    <<file.access = "outside", "json", "policy", NoContext>>>>
ConfigVerdict(file) ==
  LET failing == {i \in 1..13 : ConfigChecks(file)[i][1]}
      c == ConfigChecks(file)[Least(failing)]
  IN  IF failing = {} THEN Completed(0, <<>>)
      ELSE [Failed(c[2], 0, c[3])
              EXCEPT !.hops = IF file.rich THEN Shorter(c[4]) ELSE NoContext]

\* A call's verdict is the one its input alone determines, whatever calls came
\* before it and however they failed: the same fault, depth, offending name,
\* number checked, text, and hops recorded (resolve.hpp:52, store_check.cpp:279,
\* manifest_ta.cpp:314, scene_audit.cpp:85, config_validate.cpp:89).
VerdictExact ==
  mode = "idle" /\ verdict # NoVerdict =>
    verdict = CASE app = "resolver" -> ResolverVerdict(input, call)
                [] app = "store" -> StoreVerdict(input, call)
                [] app = "manifest" -> ManifestVerdict(input)
                [] app = "scene" -> SceneVerdict(input)
                [] app = "config" -> ConfigVerdict(input)

\* The programs' own scripts come out as they expect, in any order and any
\* number of times: the record checker on its staged image (store_check.cpp:
\* 372) and the client on its manifests (verify_client.c:218).
ScriptsPass ==
  mode = "idle" /\ verdict # NoVerdict =>
    /\ app = "store" /\ input = StagedImage =>
         <<call, verdict.fault, verdict.name>> \in StagedExpectations
    /\ app = "manifest" =>
         \A c \in ClientCases : c[1] = input => c[2] = verdict.fault
=============================================================================
