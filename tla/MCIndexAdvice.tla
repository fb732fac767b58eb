--------------------------- MODULE MCIndexAdvice ---------------------------
(* Instances of IndexAdvice for TLC.                                       *)
EXTENDS IndexAdvice

CONSTANTS d, e, f, g, s1, s2, s3, s4

MCDatasets == {<<d, "orders">>, <<e, "orders">>}

MCKeyLists == {<<f>>, <<g>>, <<f, g>>}

(* The developer of d submits a statement over the other dataverse, too.   *)
MCWorkload == (d :> <<s4, s1, s2>>) @@ (Everywhere :> <<s3>>)
MCScopesOf == ("architect" :> {Everywhere}) @@ ("developer" :> {d})

(* s1 and s2 filter one dataset, s1 on both fields; s3 joins the two; s4   *)
(* is turned away.                                                         *)
MCOver == (s1 :> {<<d, "orders">>}) @@ (s2 :> {<<e, "orders">>}) @@ (s3 :> MCDatasets) @@ (s4 :> {})
MCFilters == (s1 :> {f, g}) @@ (s2 :> {f}) @@ (s3 :> {}) @@ (s4 :> {})

Made(ds, name, structure, keys) ==
  [ds |-> ds, name |-> <<name, keys>>, structure |-> structure, keys |-> keys]

(* An index, and a longer one of another structure.                        *)
MCOldIndexes ==
  {Made(<<d, "orders">>, "own", "BTREE", <<f>>), Made(<<d, "orders">>, "own", "RTREE", <<f, g>>)}
=============================================================================
