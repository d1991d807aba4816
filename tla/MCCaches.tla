------------------------------- MODULE MCCaches -------------------------------
(* The instance of Caches that TLC checks.                                 *)
EXTENDS Caches

\* "A" is another spelling of "a"; the server answers for "old" with the definition of "a".
MCCanonical == [s \in {"a", "A", "old"} |-> IF s = "A" THEN "a" ELSE s]
MCOwnName   == [n \in {"a", "old"} |-> "a"]
MCProcessOf == [c \in {"p1", "p2"} |-> "p"]
MCSize      == <<2, 1>>

Tag(v) == CapUrn({"pdf"}, {"txt"}, [t \in {"op"} |-> v])
Good(u) == [urn |-> u, valid |-> TRUE]
Malformed == [urn |-> Tag("malformed"), valid |-> FALSE]

Entry(caps) == [latestVersion |-> "1", versions |-> [v \in {"1"} |-> "complete"],
                capGroups |-> <<caps>>]
NoLatest == [Entry(<<>>) EXCEPT !.latestVersion = "2"]
NoBuilds == [Entry(<<>>) EXCEPT !.versions = [v \in {"1"} |-> "no builds"]]

Keys == {<<"release", "x">>, <<"nightly", "x">>, <<"nightly", "y">>}
Manifest(entries) == [schemaVersion |-> "5.0", entries |-> entries]
One(key, e) == [k \in {key} |-> e]

\* Caps come and go, one with a wildcard that is equivalent to others.
Steady == <<
    Manifest([k \in Keys |-> IF k[2] = "x" THEN Entry(<<Good(Tag("ocr")), Good(Tag("ocr"))>>)
                             ELSE Entry(<<Good(Tag("*"))>>)]),
    Manifest(One(<<"nightly", "y">>, Entry(<<Good(Tag("sum"))>>)))>>
Faulty == <<
    Manifest([k \in Keys |-> IF k[1] = "release" THEN NoLatest
                             ELSE IF k[2] = "x" THEN NoBuilds ELSE Entry(<<Good(Tag("sum"))>>)]),
    Manifest(One(<<"release", "x">>, Entry(<<Good(Tag("sum")), Malformed>>))),
    [Manifest(One(<<"release", "x">>, Entry(<<Good(Tag("sum"))>>))) EXCEPT !.schemaVersion = "4.0"],
    Manifest(One(<<"nightly", "x">>, Entry(<<Good(Tag("sum"))>>)))>>

MCManifests == [r \in {"steady", "faulty"} |-> IF r = "steady" THEN Steady ELSE Faulty]
MCLists     == {<<"faulty", "steady">>}
=============================================================================
