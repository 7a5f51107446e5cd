--------------------------- MODULE MCConsolidation ---------------------------
(***************************************************************************)
(* A model-checking instance of Consolidation: up to three ranks, up to    *)
(* three tensors: a matrix by rows, one by columns (whose shards are not   *)
(* contiguous), and a scalar or a vector that every rank has.              *)
(***************************************************************************)
EXTENDS Consolidation

Sharding(shape, mesh, data, place) ==
  [shape |-> shape, mesh |-> [shape |-> mesh, data |-> data], place |-> place]
Group(s) == [sharding |-> s, ranks |-> SortSeq(s.mesh.data, LAMBDA a, b : a < b)]

Rows == Sharding(<<3, 2>>, <<2>>, <<0, 1>>, <<1>>)
Columns == Sharding(<<2, 2, 2>>, <<2>>, <<1, 0>>, <<2>>)
Grid == Sharding(<<3, 2>>, <<2, 2>>, <<0, 1, 2, 3>>, <<2, 1>>)
Alike(shape, ranks) == Sharding(shape, <<Len(ranks)>>, ranks, <<0>>)

Three == [a |-> <<Group(Rows)>>, b |-> <<Group(Columns)>>, c |-> <<Group(Alike(<<>>, <<0, 1>>))>>]
Two == [a |-> <<Group(Grid)>>, b |-> <<Group(Alike(<<2>>, <<0, 1>>)), Group(Alike(<<2>>, <<2, 3>>))>>]

(* What all configurations have in common: two ranks, three tensors, and   *)
(* the files that the code chooses.                                        *)
Base ==
  [world |-> 2, fqns |-> <<"a", "b", "c">>, groups |-> Three, mapping |-> None, order |-> <<>>,
   layout |-> [r \in {0, 1} |-> "safetensors"],
   held |-> [r \in {0, 1} |-> {"a", "b", "c"}],
   odd |-> [r \in {0, 1} |-> {}],
   collide |-> {}, faults |-> {}]

Mapped(m, keys) == [Base EXCEPT !.mapping = m, !.order = keys]

(* Three ranks saved two tensors whose chunks run out at the third.        *)
Empty ==
  [Base EXCEPT !.world = 1, !.fqns = <<"b", "c">>,
               !.groups["b"] = <<Group(Sharding(<<3, 2>>, <<3>>, <<2, 0, 1>>, <<2>>))>>,
               !.groups["c"] = <<Group(Sharding(<<2>>, <<3>>, <<0, 1, 2>>, <<1>>))>>,
               !.layout = [r \in 0 .. 2 |-> "safetensors"],
               !.held = [r \in 0 .. 2 |-> {"b", "c"}],
               !.odd = [r \in 0 .. 2 |-> {}]]

(* Three ranks of which one has no file to write, four that saved.         *)
Third ==
  [Base EXCEPT !.world = 3, !.fqns = <<"a", "b">>, !.groups = Two,
               !.layout = [r \in 0 .. 3 |-> "safetensors"],
               !.held = [r \in 0 .. 3 |-> {"a", "b"}],
               !.odd = [r \in 0 .. 3 |-> {}]]

Sound ==
  {Base, Third, Empty,
   Mapped([p \in {"a", "b", "c", "z"} |-> CASE p = "a" -> 1 [] p = "b" -> 4 [] OTHER -> 2],
          <<"z", "c", "b", "a">>),
   Mapped([p \in {"a", "b", "c"} |-> 1], <<"c", "a", "b">>),
   [Base EXCEPT !.world = 1],
   [Base EXCEPT !.groups["c"] = <<Group(Alike(<<>>, <<1>>)), Group(Alike(<<>>, <<0>>))>>],
   [Base EXCEPT !.fqns = <<"b", "c">>, !.groups["c"] = <<Group(Alike(<<2>>, <<0, 1, 2>>))>>,
                !.layout = [r \in 0 .. 2 |-> IF r = 0 THEN None ELSE "safetensors"],
                !.groups["b"] = <<Group(Sharding(<<3, 2>>, <<3>>, <<2, 0, 1>>, <<0>>))>>,
                !.held = [r \in 0 .. 2 |-> {"b", "c"}],
                !.odd = [r \in 0 .. 2 |-> {}]]}

(* Refused by every rank, or by those that have to do with it.             *)
Unsound ==
  {Mapped([p \in {"a", "b"} |-> 1], <<"a", "b">>),
   Mapped([p \in {"a", "b", "c"} |-> 0], <<"a", "b", "c">>),
   [Base EXCEPT !.groups["a"] = <<[sharding |-> Foreign, ranks |-> <<0, 1>>]>>],
   [Base EXCEPT !.groups["c"] = <<Group(Alike(<<>>, <<1>>)), Group(Alike(<<2>>, <<0>>))>>],
   [Base EXCEPT !.fqns = <<>>],
   [Base EXCEPT !.fqns = <<"a", "b", "b">>],
   [Base EXCEPT !.layout = [r \in {0, 1} |-> None]],
   [Base EXCEPT !.layout[1] = "torch"],
   [Base EXCEPT !.held[1] = {"a", "c"}],
   [Base EXCEPT !.held[0] = {"a", "b", "c", "z"}],
   [Base EXCEPT !.odd[1] = {"b"}],
   [Base EXCEPT !.collide = {0}],
   [Base EXCEPT !.groups["b"] = <<Group(Alike(<<2, 2>>, <<0, 1, 2>>))>>]}

MCConfigs ==
  Sound \union Unsound
    \union {[k EXCEPT !.faults = f] : k \in Sound, f \in {{"io"}, {"slow", "crash"}, {"io", "crash"}}}
=============================================================================
