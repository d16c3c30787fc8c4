---------------------------- MODULE MCTableReads ----------------------------
(* Small instances of TableReads: keys 1 to 3 are the keyspace, 0 and 4    *)
(* belong to others.                                                       *)
EXTENDS TableReads

Write(f) == [k \in Keys |-> IF k \in DOMAIN f THEN f[k] ELSE Absent]
B(key, incl) == [key |-> key, inclusive |-> incl]
Scan(p, s, e, o, l) == [NoQuery EXCEPT !.prefix = p, !.start = s, !.end = e, !.offset = o, !.limit = l]

MCBatches == {Write([k \in {1, 2} |-> "b"]), Write([k \in {1, 2} |-> IF k = 1 THEN Tombstone ELSE "a"]),
              Write([k \in {3} |-> "b"])}

MCFirstLayers ==
    {<<>>,
     <<[entries |-> Write([k \in {0, 1, 3, 4} |-> "a"]), legacy |-> FALSE]>>,
     <<[entries |-> Write([k \in {1, 2} |-> "a"]), legacy |-> TRUE],
       [entries |-> Write([k \in {1, 4} |-> IF k = 1 THEN Tombstone ELSE "a"]),
        legacy |-> FALSE]>>}

MCQueries ==
    {Scan(None, None, None, 0, 1), Scan(<<2, 4>>, B(1, FALSE), None, 0, 1),
     Scan(None, None, None, 0, 2), Scan(<<1, 4>>, B(1, FALSE), B(3, TRUE), 0, 2),
     Scan(None, B(1, TRUE), B(3, FALSE), 1, 2), Scan(None, None, None, 2, 2),
     Scan(None, None, None, 0, None), Scan(<<2, 4>>, B(2, FALSE), None, 0, None),
     Scan(None, B(3, TRUE), B(2, TRUE), 0, 3), Scan(<<2, 4>>, None, None, 0, 0)}

MCLookups == {<<1, 3>>}
=============================================================================
