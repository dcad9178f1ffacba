----------------------------- MODULE ManifestTA -----------------------------
(***************************************************************************)
(* The trusted application that verifies manifests (reference_app/         *)
(* optee_ta/ta/manifest_ta.cpp) and the client that drives it (host/       *)
(* verify_client.c).  One instance serves every call.                      *)
(*                                                                         *)
(* A manifest is laid out in units: one for the six header bytes, and for  *)
(* each entry one for name_len, one for a name that is not empty, one for  *)
(* length, digest and ref_len, one for a reference, and len for the image. *)
(* size cuts it off anywhere.  sound: the image hashes to the digest.      *)
(* pool is how many hash contexts the kernel has for this application,     *)
(* room how many the client's buffer takes: one for the path length, and   *)
(* one for a name.                                                         *)
(***************************************************************************)
EXTENDS Descent

CONSTANTS
  MaxNesting,  \* max_depth
  MaxImage     \* max_image_bytes, in units

ASSUME ManifestAssumption == MaxNesting \in Nat /\ MaxImage \in Nat \ {0}

Entry(name, ref, len, sound) ==
  [name |-> name, ref |-> ref, len |-> len, sound |-> sound]
Units(name) == IF name = NoName THEN 0 ELSE 1

\* Where entry i of m, its fixed part (body) and its image begin.
EntryStart(m) ==
  LET start[i \in 1..(Len(m.entries) + 1)] ==
        IF i = 1 THEN 1
        ELSE LET e == m.entries[i - 1]
             IN  start[i - 1] + 2 + Units(e.name) + Units(e.ref) + e.len
  IN  start
Body(m, i) == EntryStart(m)[i] + 1 + Units(m.entries[i].name)
Image(m, i) == Body(m, i) + 1 + Units(m.entries[i].ref)

\* reader::has, with pos_ = at.
Has(m, at, n) == at + n <= m.size

\* find_entry: the entries called want that lie wholly in the manifest.
FindEntry(m, want) ==
  {i \in 1..Len(m.entries) :
     m.entries[i].name = want /\ Has(m, EntryStart(m)[i + 1], 0)}
First(S) == CHOOSE i \in S : \A j \in S : i <= j

\* verify_manifest, called by TA_InvokeCommandEntryPoint.
VerifyManifest(m) ==
  /\ Begin("manifest", m, "root", <<>>)
  /\ mode' = "begin"
  /\ fault_name' = NoName
  /\ count' = 0
  /\ deepest' = 0
  /\ UNCHANGED <<path, held>>

\* verify_manifest, inside the scope: the header's fault, if it has one.
HeaderFault(m) ==
  LET empty == m.entries = <<>>
  IN  FirstFault(<<<<~Has(m, 0, 1), "manifest_truncated">>,
                   <<m.head # "good", m.head>>,
                   <<empty, "entry_malformed">>,
                   <<~Has(m, 1, 1), "manifest_truncated">>,
                   <<~empty /\ m.entries[1].name = NoName, "entry_malformed">>,
                   <<~Has(m, 2, 1), "entry_malformed">>>>)
VerifyHeader ==
  /\ app = "manifest" /\ mode = "begin"
  /\ \/ /\ HeaderFault(input) # "none"
        /\ Eject(HeaderFault(input), "root", 0)
     \/ /\ HeaderFault(input) = "none"
        /\ mode' = "run"
        /\ frames' = <<NewFrame(input.entries[1].name, 0, 1)>>
        /\ UNCHANGED <<app, input, call, payload, fault_name, verdict>>
  /\ UNCHANGED <<path, held, count, deepest>>

\* (Mutant) One level more than g_path has slots for.
NestedTooDeepLate == Len(path) > MaxNesting + 1

NestedTooDeep == Len(path) > MaxNesting

\* verify_entry: the depth reached, and class visiting's constructor.
VisitEntry ==
  /\ At("manifest", "enter")
  /\ deepest' = IF Top.depth > deepest THEN Top.depth ELSE deepest
  /\ IF Top.name \in Elements(path) \/ NestedTooDeep
     THEN /\ Eject(IF Top.name \in Elements(path) THEN "reference_cycle"
                   ELSE "nesting_too_deep", Top.name, Top.depth)
          /\ UNCHANGED path
     ELSE /\ path' = Append(path, Top.name)
          /\ Go([Top EXCEPT !.marks = TRUE, !.pc = "digest"])
  /\ UNCHANGED <<held, count>>

\* class digest's constructor: TEE_AllocateOperation.
AllocateDigest ==
  /\ At("manifest", "digest")
  /\ IF held < input.pool
     THEN /\ held' = held + 1
          /\ Go([Top EXCEPT !.owns = TRUE, !.pc = "parse"])
     ELSE /\ Eject("digest_unavailable", "digest", Top.depth)
          /\ UNCHANGED held
  /\ UNCHANGED <<path, count, deepest>>

\* verify_entry: the faults before the descent, and after it.
EntryFault(m, i) ==
  LET e == m.entries[i]
  IN  FirstFault(
        <<<<~Has(m, Body(m, i), 1 + Units(e.ref)), "manifest_truncated">>,
          <<e.len = 0 \/ e.len > MaxImage, "length_implausible">>,
          <<e.ref # NoName /\ FindEntry(m, e.ref) = {}, "reference_missing">>>>)
ImageFault(m, i) ==
  LET e == m.entries[i]
  IN  FirstFault(<<<<~Has(m, Image(m, i), e.len), "manifest_truncated">>,
                   <<~e.sound, "digest_mismatch">>>>)

\* verify_entry: the fields, and the descent into the entry referenced.
ParseEntry ==
  /\ At("manifest", "parse")
  /\ LET ref == input.entries[Top.at].ref
         fault == EntryFault(input, Top.at)
     IN  \/ /\ fault # "none"
            /\ Eject(fault, IF fault = "reference_missing" THEN ref ELSE Top.name,
                     Top.depth)
         \/ /\ fault = "none" /\ ref = NoName
            /\ Go([Top EXCEPT !.pc = "image"])
         \/ /\ fault = "none" /\ ref # NoName
            /\ Enter([Top EXCEPT !.pc = "image"],
                     NewFrame(ref, Top.depth + 1, First(FindEntry(input, ref))))
  /\ UNCHANGED <<path, held, count, deepest>>

\* TA_InvokeCommandEntryPoint: the verdict v as the client reads it.  A buffer
\* too short for the name and the path length is TEE_ERROR_SHORT_BUFFER, after
\* a success as after a failure, and then the client reads nothing else.
Reply(v) ==
  IF input.room < 1 + Units(v.name)
  THEN [NoVerdict EXCEPT !.fault = "short_buffer"] ELSE v

\* verify_entry: the image; then ~digest and ~visiting.
VerifyImage ==
  /\ At("manifest", "image")
  /\ IF ImageFault(input, Top.at) # "none"
     THEN /\ Eject(ImageFault(input, Top.at), Top.name, Top.depth)
          /\ UNCHANGED <<path, held, count>>
     ELSE /\ count' = count + 1
          /\ path' = Front(path)
          /\ held' = held - 1
          /\ SucceedAs(Reply(Success(count', <<>>))) \/ ReturnTo(Caller)
  /\ UNCHANGED deepest

\* (Mutant) Leaving an entry frees the hash context but keeps the marker.
EntryUnwindKeepsPath ==
  /\ app = "manifest" /\ mode = "escape"
  /\ Leave(path, IF Top.owns THEN held - 1 ELSE held)
  /\ UNCHANGED payload

\* The escape leaves a frame of verify_entry: ~digest, ~visiting.
EntryUnwind ==
  /\ app = "manifest" /\ mode = "escape"
  /\ Leave(IF Top.marks THEN Front(path) ELSE path,
           IF Top.owns THEN held - 1 ELSE held)
  /\ UNCHANGED payload

\* The scope in verify_manifest returns the error.
ManifestLand ==
  /\ app = "manifest"
  /\ LandAs(Reply(Failure(fault_name)))
  /\ UNCHANGED <<path, held, payload>>

ManifestNext ==
  \/ VerifyHeader \/ VisitEntry \/ AllocateDigest \/ ParseEntry
  \/ VerifyImage \/ EntryUnwind \/ ManifestLand

-----------------------------------------------------------------------------
(* What the client sends and the fault it expects.                         *)

Manifest(head, entries, cut) ==
  [head |-> head, entries |-> entries, pool |-> 10, room |-> 2,
   size |-> EntryStart([entries |-> entries])[Len(entries) + 1] - cut]
Good(name, ref) == Entry(name, ref, 1, TRUE)
Chain(sound) ==
  <<Good("boot", "runtime"), Good("runtime", "app"),
    Entry("app", NoName, 1, sound)>>
ClientCases ==
  {<<Manifest("good", Chain(TRUE), 0), "none">>,
   <<Manifest("good", Chain(FALSE), 0), "digest_mismatch">>,
   <<Manifest("good", <<Good("boot", "absent"), Good("runtime", NoName)>>, 0),
     "reference_missing">>,
   <<Manifest("good", <<Good("one", "two"), Good("two", "one")>>, 0),
     "reference_cycle">>,
   <<Manifest("header_bad", <<Good("boot", NoName)>>, 0), "header_bad">>,
   <<Manifest("good", <<Good("boot", NoName), Good("boot", NoName)>>, 6),
     "manifest_truncated">>}
=============================================================================
