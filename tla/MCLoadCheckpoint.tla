-------------------------- MODULE MCLoadCheckpoint --------------------------
(***************************************************************************)
(* A model-checking instance of LoadCheckpoint: every rank of every target *)
(* layout loads from every source layout, each in a number of modes.  The  *)
(* item "model" has a 3 x 2 tensor w and the vectors u and v; "extra" has  *)
(* one vector, of every rank the same.                                     *)
(***************************************************************************)
EXTENDS LoadCheckpoint

MCItems == <<"model", "extra">>
MCPaths == <<"u", "v", "w", "x">>
MCItemOf == [p \in ToSet(MCPaths) |-> IF p = "x" THEN "extra" ELSE "model"]

Sharding(shape, mesh, data, place) ==
  [shape |-> shape, mesh |-> [shape |-> mesh, data |-> data], place |-> place]
Group(s) ==
  [sharding |-> s,
   ranks |-> SortSeq(s.mesh.data, LAMBDA a, b : a < b)]

(* One sharding of every path of the model: of rows over two ranks (with   *)
(* an uneven split), of columns in a permuted mesh, of a grid (u is cut    *)
(* twice and leaves ranks with nothing), and over more ranks than cells.   *)
Rows == [u |-> Sharding(<<3>>, <<2>>, <<0, 1>>, <<1>>),
         v |-> Sharding(<<3>>, <<2>>, <<0, 1>>, <<1>>),
         w |-> Sharding(<<3, 2>>, <<2>>, <<0, 1>>, <<1>>)]
Columns == [u |-> Sharding(<<3>>, <<2>>, <<1, 0>>, <<0>>),
            v |-> Sharding(<<3>>, <<2>>, <<1, 0>>, <<1>>),
            w |-> Sharding(<<3, 2>>, <<2>>, <<1, 0>>, <<2>>)]
Grid == [u |-> Sharding(<<3>>, <<2, 2>>, <<0, 1, 2, 3>>, <<1, 1>>),
         v |-> Sharding(<<3>>, <<2, 2>>, <<0, 1, 2, 3>>, <<0, 1>>),
         w |-> Sharding(<<3, 2>>, <<2, 2>>, <<0, 1, 2, 3>>, <<1, 2>>)]
Many == [u |-> Sharding(<<3>>, <<4>>, <<0, 1, 2, 3>>, <<1>>),
         v |-> Sharding(<<3>>, <<4>>, <<0, 1, 2, 3>>, <<1>>),
         w |-> Sharding(<<3, 2>>, <<4>>, <<0, 1, 2, 3>>, <<1>>)]
Layouts == <<Rows, Columns, Grid, Many>>

(* Ranks 0 and 1 have a path by rows, ranks 2 and 3 by other parts.        *)
Others == [u |-> Sharding(<<3>>, <<2>>, <<3, 2>>, <<1>>),
           v |-> Sharding(<<3>>, <<2>>, <<2, 3>>, <<0>>),
           w |-> Sharding(<<3, 2>>, <<2>>, <<2, 3>>, <<2>>)]

Alike(n) == Sharding(<<1>>, <<n>>, [i \in 1 .. n |-> i - 1], <<0>>)

(* The source of each name; 5 is the one of two groups.                    *)
SourceGroups(n) ==
  [p \in ToSet(MCPaths) |->
     IF p = "x" THEN <<Group(Alike(IF n = 5 THEN 4 ELSE Len(Layouts[n].w.mesh.data)))>>
     ELSE IF n = 5 THEN <<Group(Rows[p]), Group(Others[p])>>
     ELSE <<Group(Layouts[n][p])>>]
SourceRanks(n) == UNION {ToSet(g.ranks) : g \in ToSet(SourceGroups(n)["w"])}

Modes == {"plain", "archives", "offset", "full", "safetensors", "unchanged", "unmanaged",
          "unrecorded", "moved", "writer", "lacking", "tied", "foreign",
          "hf", "hfnone", "hftwice"}

MCConfig(src, tgt, me, mode) ==
  LET groups == SourceGroups(src)
      fmt == IF mode = "safetensors" THEN "safetensors" ELSE "torch"
      layout == [r \in SourceRanks(src) |-> IF mode = "writer" /\ r # 0 THEN None ELSE fmt]
      model == CASE mode = "lacking" -> [groups EXCEPT !["v"] = <<>>]
                 [] mode = "foreign" -> [groups EXCEPT !["v"] = Append(@, [sharding |-> Foreign, ranks |-> <<>>])]
                 [] OTHER -> groups
      hf == mode \in {"hf", "hfnone", "hftwice"}
  IN  [me |-> me,
       resharder |-> [i \in ToSet(MCItems) |->
                        IF i = "extra" THEN (IF hf THEN "none" ELSE "default")
                        ELSE IF mode = "unchanged" THEN "skip"
                        ELSE IF mode = "hfnone" THEN "none" ELSE "default"],
       manager |-> mode # "unmanaged",
       strict |-> mode \in {"lacking", "foreign"} /\ me = 1,
       found |-> mode # "unrecorded",
       format |-> IF hf THEN "hf" ELSE IF mode \in {"moved", "unrecorded"} /\ me = 1 THEN "native" ELSE "unset",
       recorded |-> ToSet(MCItems),
       moved |-> IF mode = "moved" THEN ToSet(MCItems) ELSE {},
       dtensors |-> {"u", "v", "w"},
       strategy |-> IF mode \in {"offset", "full"} THEN mode ELSE "auto",
       workers |-> IF mode = "archives" THEN 1 ELSE MaxWorkers,
       target |-> [p \in ToSet(MCPaths) |->
                     IF p = "x" THEN Alike(Len(Layouts[tgt].w.mesh.data)) ELSE Layouts[tgt][p]],
       buf |-> [p \in ToSet(MCPaths) |-> IF mode = "tied" /\ p = "v" THEN "u" ELSE p],
       source |-> [i \in ToSet(MCItems) |->
                     [groups |-> IF i = "model" THEN model ELSE groups, layout |-> layout]],
       shards |-> IF mode = "hftwice" THEN <<{"u", "v"}, {"v", "w"}>> ELSE <<{"u", "w"}, {"v"}>>,
       how |-> [r \in 0 .. 3 |->
                  CASE mode = "archives" /\ r = 0 -> "archive"
                    [] mode \in {"archives", "offset"} /\ r = 1 -> "tensor"
                    [] OTHER -> "plain"]]

(* Tied targets are of the same shape, which u and v are only in these.    *)
Cases ==
  {x \in (1 .. 5) \X (1 .. 4) \X (0 .. 3) \X Modes :
     /\ x[3] \in ToSet(Layouts[x[2]].w.mesh.data)
     /\ x[4] = "tied" => x[2] \in {1, 4}
     /\ x[1] = 2 \/ x[4] \in {"plain", "archives", "safetensors", "writer", "tied", "unchanged"} \/ x[2] = 3}

MCConfigs == {MCConfig(x[1], x[2], x[3], x[4]) : x \in Cases}
=============================================================================
