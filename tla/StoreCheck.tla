----------------------------- MODULE StoreCheck -----------------------------
(***************************************************************************)
(* The firmware record checker (reference_app/embedded/src/                *)
(* store_check.cpp).  An image is [mounts, records, asked]; a record is    *)
(* [flaws, ref]: what is wrong with its bytes, as far as check_record can  *)
(* tell, and the record its last ref field names.  asked are the names the *)
(* program checks, as often as it likes.                                   *)
(***************************************************************************)
EXTENDS Descent

CONSTANT MaxPath  \* max_path: capacity of g_path

ASSUME StoreCheckAssumption == MaxPath \in Nat \ {0}

\* check_record: the fault of a record's bytes, in the order it looks.
RecordFault(flaws) ==
  FirstFault(<<<<"short" \in flaws, "record_unreadable">>,
               <<"header" \in flaws, "header_bad">>,
               <<"version" \in flaws, "version_unsupported">>,
               <<"field" \in flaws, "field_malformed">>,
               <<"sum" \in flaws, "checksum_mismatch">>>>)

Exists(name) == name \in DOMAIN input.records

\* check_image: mount, reset the counters, check the entry.
CheckImage(entry) ==
  /\ Begin("store", input, entry,
           IF input.mounts THEN <<NewFrame(entry, 0, 1)>> ELSE <<>>)
  /\ IF input.mounts
     THEN mode' = "run" /\ count' = 0 /\ deepest' = 0
     ELSE mode' = "begin" /\ UNCHANGED <<count, deepest>>
  /\ fault_name' = NoName
  /\ UNCHANGED <<path, held>>

\* lfs_mount failed.
MountFailed ==
  /\ app = "store" /\ mode = "begin"
  /\ Eject("mount_failed", call, 0)
  /\ UNCHANGED <<path, held, count, deepest>>

PathFull == Len(path) >= MaxPath

\* check_record: the depth reached, and class visiting's constructor.
Visit ==
  /\ At("store", "enter")
  /\ deepest' = IF Top.depth > deepest THEN Top.depth ELSE deepest
  /\ IF Top.name \in Elements(path) \/ PathFull
     THEN /\ Eject(IF Top.name \in Elements(path) THEN "reference_cycle"
                   ELSE "nesting_too_deep", Top.name, Top.depth)
          /\ UNCHANGED path
     ELSE /\ path' = Append(path, Top.name)
          /\ Go([Top EXCEPT !.marks = TRUE, !.pc = "open"])
  /\ UNCHANGED <<held, count>>

\* class open_file's constructor.
OpenFile ==
  /\ At("store", "open")
  /\ IF Exists(Top.name)
     THEN /\ held' = held + 1
          /\ Go([Top EXCEPT !.owns = TRUE, !.pc = "read"])
     ELSE /\ Eject("record_unreadable", Top.name, Top.depth)
          /\ UNCHANGED held
  /\ UNCHANGED <<path, count, deepest>>

\* check_record: read, header, version, fields and checksum.
ReadRecord ==
  /\ At("store", "read")
  /\ LET fault == RecordFault(input.records[Top.name].flaws)
     IN  IF fault # "none"
         THEN /\ Eject(fault, Top.name, Top.depth)
              /\ UNCHANGED count
         ELSE /\ count' = count + 1
              /\ Go([Top EXCEPT !.pc = "ref"])
  /\ UNCHANGED <<path, held, deepest>>

\* (Mutant) The recursion does not count its depth.
FollowRefLevel ==
  /\ At("store", "ref")
  /\ LET ref == input.records[Top.name].ref
     IN  /\ ref # NoName
         /\ IF Exists(ref)
            THEN Enter([Top EXCEPT !.pc = "done"], NewFrame(ref, Top.depth, 1))
            ELSE Eject("reference_missing", ref, Top.depth)
  /\ UNCHANGED <<path, held, count, deepest>>

\* check_record: the oblivious recursion.
FollowRef ==
  /\ At("store", "ref")
  /\ LET ref == input.records[Top.name].ref
     IN  /\ ref # NoName
         /\ IF Exists(ref)
            THEN Enter([Top EXCEPT !.pc = "done"],
                       NewFrame(ref, Top.depth + 1, 1))
            ELSE Eject("reference_missing", ref, Top.depth)
  /\ UNCHANGED <<path, held, count, deepest>>

\* check_record returns: ~open_file, ~visiting; check_image then unmounts.
CheckReturn ==
  /\ At("store", "done") \/ (At("store", "ref")
                             /\ input.records[Top.name].ref = NoName)
  /\ path' = Front(path)
  /\ held' = held - 1
  /\ Succeed(count, <<>>) \/ ReturnTo(Caller)
  /\ UNCHANGED <<count, deepest>>

\* The escape leaves a frame of check_record: ~open_file, ~visiting.
CheckUnwind ==
  /\ app = "store" /\ mode = "escape"
  /\ Leave(IF Top.marks THEN Front(path) ELSE path,
           IF Top.owns THEN held - 1 ELSE held)
  /\ UNCHANGED payload

\* check_image's escape_scope returns; the image stays mounted.
CheckLand ==
  /\ app = "store"
  /\ Land(fault_name)
  /\ UNCHANGED <<path, held, payload>>

StoreCheckNext ==
  \/ app = "store" /\ \E entry \in input.asked : CheckImage(entry)
  \/ MountFailed \/ Visit \/ OpenFile \/ ReadRecord \/ FollowRef
  \/ CheckReturn \/ CheckUnwind \/ CheckLand

-----------------------------------------------------------------------------
(* The image stage_image writes and what main expects of it.                *)

Record(flaws, ref) == [flaws |-> flaws, ref |-> ref]
StagedExpectations ==
  {<<"boot", "none", NoName>>, <<"bad_boot", "checksum_mismatch", "bad_leaf">>,
   <<"dangling", "reference_missing", "absent">>,
   <<"loop_a", "reference_cycle", "loop_a">>,
   <<"corrupt", "header_bad", "corrupt">>,
   <<"absent", "record_unreadable", "absent">>}
StagedRecords ==
  {<<"boot", {}, "net">>, <<"net", {}, "leaf">>, <<"leaf", {}, NoName>>,
   <<"bad_boot", {}, "bad_leaf">>, <<"bad_leaf", {"sum"}, NoName>>,
   <<"dangling", {}, "absent">>, <<"loop_a", {}, "loop_b">>,
   <<"loop_b", {}, "loop_a">>, <<"corrupt", {"header"}, NoName>>}
StagedImage ==
  [mounts |-> TRUE, asked |-> {e[1] : e \in StagedExpectations},
   records |-> [n \in {r[1] : r \in StagedRecords} |->
                  LET r == CHOOSE r \in StagedRecords : r[1] = n
                  IN  Record(r[2], r[3])]]
=============================================================================
