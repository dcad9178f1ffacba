--------------------------- MODULE MCApplications ---------------------------
(* The instance for TLC: three names, of which an input may define all or   *)
(* some, and the inputs the repository's own scripts use.                   *)
EXTENDS ApplicationsReference

CONSTANTS k1, k2, k3, k4

MCNames == {k1, k2, k3}
Text == [kind |-> "text", to |-> NoName]
Open == [kind |-> "open", to |-> NoName]
Ref(k) == [kind |-> "ref", to |-> k]
Refs == {Ref(k) : k \in MCNames}
ShortTexts == {<<>>, <<Text>>, <<Open>>} \cup {<<r>> : r \in Refs}
LongTexts ==
  ShortTexts \cup {<<a, b>> : a \in Refs, b \in Refs \cup {Text, Open}}
    \cup {<<Text, b>> : b \in Refs \cup {Open}}
\* k1 holds any text; with k2 defined, k3 is dangling; with all, chains and
\* cycles of three.
MCDocuments ==
  {[k \in {k1, k2} |-> IF k = k1 THEN a ELSE b] : a \in LongTexts, b \in LongTexts}
    \cup {[k \in MCNames |-> IF k = k1 THEN a ELSE IF k = k2 THEN b ELSE c] :
            a \in LongTexts, b \in ShortTexts, c \in ShortTexts}

MCFlaws == {{}, {"short"}, {"header", "version"}, {"version"}, {"field", "sum"}, {"sum"}}
MCRecords == {Record(f, r) : f \in MCFlaws, r \in MCNames \cup {NoName}}
GoodRecords == {Record({}, r) : r \in MCNames \cup {NoName}}
Image1(mounts, records) ==
  [mounts |-> mounts, records |-> records, asked |-> MCNames]
MCImages ==
  {StagedImage, Image1(FALSE, <<>>)}
    \cup {Image1(TRUE, r) : r \in [{k1, k2} -> MCRecords]}
    \cup {Image1(TRUE, r) : r \in [MCNames -> GoodRecords]}
    \cup {Image1(TRUE, [k \in {k1, k2, k3, k4} |->
                          Record({}, CASE k = k1 -> k2 [] k = k2 -> k3
                                       [] k = k3 -> k4 [] OTHER -> r)]) :
            r \in {k2, NoName}}

MCEntries ==
  {Entry(n, r, b[1], b[2]) : n \in {k1, k2, NoName}, r \in {k1, k2, NoName},
     b \in {<<0, TRUE>>, <<1, TRUE>>, <<1, FALSE>>, <<2, TRUE>>}}
Plain == {Good(n, r) : n \in MCNames, r \in MCNames \cup {NoName}}
Cuts(entries) == 0..EntryStart([entries |-> entries])[Len(entries) + 1]
MCManifests ==
  {c[1] : c \in ClientCases}
    \cup {Manifest("version_unsupported", <<>>, 0), Manifest("good", <<>>, 0)}
    \cup UNION {{Manifest("good", <<e>>, c) : c \in Cuts(<<e>>)} : e \in MCEntries}
    \cup {Manifest("good", <<e, f>>, 0) : e \in MCEntries, f \in MCEntries}
    \cup UNION {{Manifest("good", <<e, f>>, c) : c \in Cuts(<<e, f>>)} :
                  e \in Plain, f \in Plain}
    \cup {Manifest("good", <<Good(k1, r), Good(k2, s), Entry(k3, t, 1, b)>>, 0) :
            r \in MCNames, s \in MCNames, t \in MCNames \cup {NoName}, b \in BOOLEAN}
    \cup {Manifest("good", <<Good(k1, k2), Good(k2, k4), Good(k3, r), Good(k4, k3)>>, 0) :
            r \in {k1, k2, NoName}}
    \cup {[Manifest("good", <<Good(k1, k2), Good(k2, NoName)>>, 0)
             EXCEPT !.pool = p, !.room = b] : p \in 0..2, b \in 0..2}
    \cup {[Manifest(h, <<Entry(k1, k2, 1, FALSE), Good(k2, k1)>>, 0)
             EXCEPT !.room = b] : h \in {"good", "header_bad"}, b \in 0..1}

NodeNames == {k1, k2, k3, "tmp_a", NoName}
\* The trees of up to four nodes.
Trees ==
  {<<>>, <<<<>>>>, <<<<2>>, <<>>>>, <<<<2, 3>>, <<>>, <<>>>>, <<<<2>>, <<3>>, <<>>>>,
   <<<<2>>, <<3>>, <<4>>, <<>>>>, <<<<2, 4>>, <<3>>, <<>>, <<>>>>,
   <<<<2, 3>>, <<>>, <<4>>, <<>>>>}
MCScenes ==
  UNION {{[children |-> t, names |-> n, asked |-> a, record |-> r] :
            n \in [1..Len(t) -> IF Len(t) < 4 THEN NodeNames ELSE MCNames \cup {"tmp_a"}],
            a \in IF Len(t) < 4 THEN 0..3 ELSE {1, 2}, r \in BOOLEAN} : t \in Trees}

Field == {"good", "absent", "outside"}
GoodFile ==
  [file |-> "good", host |-> "good", port |-> "good", workers |-> "good",
   limits |-> "good", max_connections |-> "good", timeout_ms |-> "good",
   access |-> "good", rich |-> TRUE]
MCFiles ==
  {[GoodFile EXCEPT !.file = f, !.host = h, !.port = p, !.workers = w, !.rich = r] :
     f \in {"good", "absent"}, h \in {"good", "absent"}, p \in Field, w \in Field,
     r \in BOOLEAN}
    \cup {[GoodFile EXCEPT !.limits = l, !.max_connections = m, !.timeout_ms = t,
                           !.access = a, !.rich = r] :
            l \in {"good", "absent"}, m \in Field, t \in Field, a \in Field,
            r \in BOOLEAN}
=============================================================================
