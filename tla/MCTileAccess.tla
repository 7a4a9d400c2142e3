---------------------------- MODULE MCTileAccess ----------------------------
(***************************************************************************)
(* Two cores, sticks of four elements, and one view of every kind: see     *)
(* the comments.  All sizes are between one and three.                     *)
(***************************************************************************)
EXTENDS TileAccess

Lin(d, s, k) == [d |-> d, s |-> s, k |-> k]
Ge(d, s, k) == [e |-> Lin(d, s, k), eq |-> FALSE, mod |-> 0]
Eq(d, s, k) == [e |-> Lin(d, s, k), eq |-> TRUE, mod |-> 0]
Mod2(d) == [e |-> Lin(d, <<>>, 0), eq |-> TRUE, mod |-> 2]
Box(lo, hi) == {Ge(<<1, 0>>, <<>>, -lo[1]), Ge(<<0, 1>>, <<>>, -lo[2]),
                Ge(<<-1, 0>>, <<>>, hi[1] - 1), Ge(<<0, -1>>, <<>>, hi[2] - 1)}

Rect(space, core, base, shape, strides, aset, symbols) ==
    [space |-> space, core |-> core, base |-> base, shape |-> shape, strides |-> strides,
     aset |-> aset, symbols |-> symbols]
One(space, core, base, shape, strides) ==
    [shape |-> shape, parts |-> <<Rect(space, core, base, shape, strides, Box(<<0, 0>>, shape), <<>>)>>]

(* Rows from s0 up to s1, bounded twice, in the columns 0 and 1. *)
Rows == {Ge(<<1, 0>>, <<-1, 0>>, 0), Ge(<<-1, 0>>, <<0, 1>>, -1), Ge(<<1, 0>>, <<0, 0>>, 0),
         Ge(<<0, 1>>, <<0, 0>>, 0), Ge(<<0, -1>>, <<0, 0>>, 1)}
Square == Box(<<0, 0>>, <<3, 3>>)

MCViews == <<
    \* 1: a matrix that starts inside a stick
    One("HBM", 0, 5, <<3, 3>>, <<3, 1>>),
    \* 2, 3: the even and the odd columns of a matrix
    One("HBM", 0, 16, <<2, 2>>, <<4, 2>>),
    One("HBM", 0, 17, <<2, 2>>, <<4, 2>>),
    \* 4: two rows in HBM and a third, column by column, in the LX of core 2
    [shape |-> <<0, 2>>,
     parts |-> <<Rect("HBM", 0, 26, <<2, 2>>, <<2, 1>>, Rows, <<0, 2>>),
                 Rect("LX", 2, 5, <<1, 2>>, <<1, 1>>, Rows, <<2, 3>>)>>],
    \* 5: the upper triangle in HBM and the lower one in the LX of core 1
    [shape |-> <<3, 3>>,
     parts |-> <<Rect("HBM", 0, 32, <<2, 2>>, <<2, 1>>, Square \cup {Ge(<<-1, 1>>, <<>>, -1)}, <<>>),
                 Rect("LX", 1, 8, <<3, 3>>, <<1, 3>>, Square \cup {Ge(<<1, -1>>, <<>>, 0)}, <<>>)>>],
    \* 6: a matrix in the LX of whichever core executes
    One("LX", 0, 0, <<2, 2>>, <<2, 1>>),
    \* 7, 8: indices, in HBM and in the LX of core 1
    One("HBM", 0, 38, <<2, 2>>, <<2, 1>>),
    One("LX", 1, 17, <<1, 2>>, <<2, 1>>),
    \* 9: partitions in HBM and in the LX of core 2 that share the element
    \*    (0, 1) and leave out (1, 2)
    [shape |-> <<2, 3>>,
     parts |-> <<Rect("HBM", 0, 42, <<2, 2>>, <<2, 1>>, Box(<<0, 0>>, <<2, 2>>), <<>>),
                 Rect("LX", 2, 9, <<1, 2>>, <<2, 1>>, Box(<<0, 1>>, <<1, 3>>), <<>>)>>] >>

Id == <<Lin(<<1, 0>>, <<>>, 0), Lin(<<0, 1>>, <<>>, 0)>>
Swap == <<Lin(<<0, 1>>, <<>>, 0), Lin(<<1, 0>>, <<>>, 0)>>
Sum2 == <<Lin(<<1, 1>>, <<>>, 0), Lin(<<0, 1>>, <<>>, 0)>>

Tile(view, shape, map, indices, aset, order, size) ==
    [kind |-> "tile", view |-> view, shape |-> shape, map |-> map, indices |-> indices,
     aset |-> aset, order |-> order, size |-> size, subs |-> <<>>]
Full(view, shape, indices, order) ==
    Tile(view, shape, Id, indices, Box(<<0, 0>>, shape), order, shape[1] * shape[2])
Gather(view, shape, order, subs) ==
    [kind |-> "indirect", view |-> view, shape |-> shape, map |-> Id, indices |-> <<0, 0>>,
     aset |-> Box(<<0, 0>>, shape), order |-> order, size |-> shape[1] * shape[2], subs |-> subs]
Direct(e) == [kind |-> "expr", e |-> e]
Ind(index, es) == [kind |-> "ind", index |-> index, es |-> es]

MCAccesses == <<
    Full(1, <<2, 2>>, <<1, 1>>, Id),
    Full(1, <<3, 3>>, <<0, 0>>, Id),
    Full(1, <<2, 2>>, <<0, 1>>, Swap),
    Tile(1, <<2, 2>>, Swap, <<1, 0>>, Box(<<1, 0>>, <<2, 2>>), Id, 2),
    Tile(1, <<3, 3>>, Id, <<0, 0>>, Square \cup {Ge(<<1, -1>>, <<>>, 0)}, Id, 6),
    Tile(1, <<3, 3>>, Id, <<0, 0>>, Square \cup {Mod2(<<1, 1>>)}, Id, 5),
    Full(2, <<2, 2>>, <<0, 0>>, Id),
    Full(3, <<2, 1>>, <<0, 1>>, Id),
    Full(4, <<3, 2>>, <<0, 0>>, Id),
    Full(4, <<1, 2>>, <<3, 0>>, Id),
    Full(5, <<3, 3>>, <<0, 0>>, Id),
    Full(5, <<2, 2>>, <<1, 1>>, Id),
    Tile(5, <<2, 2>>, Id, <<0, 1>>, Box(<<0, 0>>, <<2, 2>>) \cup {Ge(<<1, -1>>, <<>>, 0)}, Id, 4),
    Tile(4, <<2, 2>>, Id, <<1, 0>>, Box(<<0, 0>>, <<2, 2>>) \cup {Ge(<<1, -1>>, <<>>, 0)}, Id, 4),
    Full(6, <<2, 2>>, <<0, 0>>, Id),
    \* the shared element and the one no partition has, by boxes and by points
    Full(9, <<2, 3>>, <<0, 0>>, Id),
    Tile(9, <<2, 2>>, Id, <<0, 1>>, Box(<<0, 0>>, <<2, 2>>) \cup {Ge(<<1, -1>>, <<>>, 0)}, Id, 4),
    \* rows by index
    Gather(1, <<2, 2>>, Swap, <<Ind(7, <<Lin(<<0, 0>>, <<>>, 0), Lin(<<1, 0>>, <<>>, 0)>>),
                                Direct(Lin(<<0, 1>>, <<>>, 1))>>),
    \* both coordinates from one index view, in another order
    Gather(1, <<2, 1>>, Id, <<Ind(8, <<Lin(<<0, 0>>, <<>>, 0), Lin(<<1, 0>>, <<>>, 0)>>),
                              Ind(8, <<Lin(<<0, 0>>, <<>>, 0), Lin(<<-1, 0>>, <<>>, 1)>>)>>),
    \* an index that is negative
    Gather(1, <<2, 1>>, Id, <<Ind(7, <<Lin(<<0, 0>>, <<>>, 1), Lin(<<1, 0>>, <<>>, 0)>>),
                              Direct(Lin(<<0, 1>>, <<>>, 0))>>),
    Gather(1, <<2, 2>>, Sum2, <<Direct(Lin(<<1, 0>>, <<>>, 0)), Direct(Lin(<<0, 1>>, <<>>, 0))>>) >>

(* The two copies of the shared element of view 9 start out equal. *)
MCSeed == [m \in 0 .. 2 |-> [x \in 0 .. 79 |->
              IF m = 0 /\ x \in 38 .. 41 THEN <<2, 0, 1, -1>>[x - 37]
              ELSE IF m = 1 /\ x \in 17 .. 18 THEN <<1, 2>>[x - 16]
              ELSE IF m = 2 /\ x = 9 THEN 1043 ELSE 1000 * m + x + 1000]]
=============================================================================
