-------------------------- MODULE MCLeafScheduler --------------------------
(***************************************************************************)
(* The searches on the checked base leaf, on the cached-Z-power skeletons  *)
(* of jacobian_shell_candidate.py, and on every leaf of BodyLength body    *)
(* instructions over three registers.                                      *)
(***************************************************************************)
EXTENDS LeafScheduler

CONSTANTS BodyLength, Undef

Netlists == INSTANCE PointAddLeaf WITH
  P <- 13, B <- 7, Undef <- Undef, Leaves <- {"base"}, Callers <- {"flat_replay"},
  caller <- "flat_replay", acc <- <<0, 1, 0>>, leaf <- "none", entry <- << >>,
  pc <- 0, env <- << >>

BaseSlots == <<"qx", "qy", "qz", "lx", "ly", "t0", "t1", "t2">>
BaseLeaf == [slots |-> BaseSlots,
             code |-> SelectSeq(Netlists!BaseNetlist, LAMBDA ins : ins.dst \in Elements(BaseSlots))]

I(op, dst, src) == Netlists!Ins(op, dst, src)

PrefixLoadedSkeleton ==
  [slots |-> <<"qx", "qy", "qz", "qzz", "qzzz", "lx", "ly">>,
   code |-> << I("load_input", "qx", << >>), I("load_input", "qy", << >>),
               I("load_input", "qz", << >>), I("load_input", "qzz", << >>),
               I("load_input", "qzzz", << >>),
               I("lookup_affine_x", "lx", << >>), I("lookup_affine_y", "ly", << >>),
               I("field_mul", "qzz", <<"lx", "qzz">>), I("field_mul", "ly", <<"ly", "qzzz">>),
               I("field_add", "qz", <<"qy", "qz">>), I("field_sub", "qx", <<"qzz", "qx">>),
               I(SELECT_OP, "qx", <<"qx", "qx">>), I(SELECT_OP, "qy", <<"qy", "ly">>),
               I(SELECT_OP, "qz", <<"qz", "qz">>) >>]

DelayedLookupSkeleton ==
  [slots |-> <<"qx", "qy", "qz", "qzz", "qzzz", "lx", "tmp">>,
   code |-> << I("load_input", "qx", << >>), I("load_input", "qy", << >>),
               I("load_input", "qz", << >>), I("load_input", "qzz", << >>),
               I("load_input", "qzzz", << >>),
               I("lookup_affine_x", "lx", << >>), I("field_mul", "qzz", <<"lx", "qzz">>),
               I("field_sub", "qx", <<"qzz", "qx">>), I("lookup_affine_y", "lx", << >>),
               I("field_mul", "tmp", <<"lx", "qzzz">>), I("field_add", "qz", <<"qy", "qz">>),
               I("field_sub", "qy", <<"tmp", "qy">>),
               I(SELECT_OP, "qx", <<"qx", "qx">>), I(SELECT_OP, "qy", <<"qy", "qy">>),
               I(SELECT_OP, "qz", <<"qz", "qz">>) >>]

RepositoryLeaves == {BaseLeaf, PrefixLoadedSkeleton, DelayedLookupSkeleton}

SmallBody ==
  {I("field_mul", dst, src) : dst \in {"a", "b", "c"},
                              src \in {<<"a", "b">>, <<"b">>, <<"c", "a">>, <<"c", "c">>}}
SmallLeaves(length) ==
  {[slots |-> <<"a", "b", "c">>,
    code |-> <<I("load_input", "a", << >>), I("load_input", "b", << >>)>> \o body
               \o <<I(SELECT_OP, "a", <<"a", "b">>), I(SELECT_OP, "b", <<"b", "a">>)>>]
     : body \in [1 .. length -> SmallBody]}

AllRequests == RepositoryLeaves \X {7, 8} \cup (SmallLeaves(0) \cup SmallLeaves(BodyLength)) \X {2, 3}
EightSlots == {<<BaseLeaf, 8>>}
-----------------------------------------------------------------------------
(* The verdict on the repository's own leaves, eight slots and not seven,  *)
(* is the one for the values that the selects read, although the search    *)
(* counts other values as the leaf's outputs.                              *)
VerdictHoldsOutputs ==
  Cardinality(Elements(leaf.slots)) >= 7 =>
    /\ phase = "no_order" => target < 8 /\ ~OrderExists(Second(leaf.selected))
    /\ Done = leaf.body /\ Len(maps) = 1 => target >= 8 /\ OrderExists(Second(leaf.selected))

(* "no slot assignment fits the chosen order": an order that the first     *)
(* search counts to fit can be named, unless the leaf has a value nobody   *)
(* reads.  The naming keeps such a value's slot for one step more than the *)
(* order counts, and can give up although a slot is free.                  *)
OrdersCanBeNamed ==
  phase = "no_names" =>
    \E v \in leaf.initial \cup leaf.body : v \notin output_vids /\ \A use \in leaf.uses : use[1] # v

(* So do the selects: the values they read are still in their slots when   *)
(* the body has ended, and no earlier select writes there.                 *)
PlanKeepsOutputs ==
  phase = "planned" =>
    \A n \in DOMAIN leaf.selected :
      LET v == leaf.selected[n][2]
      IN  /\ ~WrittenBetween(NameOf(v), Position(v), Len(path) + 1)
          /\ \A m \in 1 .. n - 1 : leaf.selected[m][1] # NameOf(v)
=============================================================================
