------------------------------ MODULE LxScopes ------------------------------
(***************************************************************************)
(* One core's CoreContext: the stack of SSA scopes and the LX accounting   *)
(* that set_value, get_value, push_scope and pop_scope keep beside it.     *)
(* The operation handlers are the clients: between two calls they hold     *)
(* references to tiles, and they may bind, under any name, a tile they     *)
(* hold or have just made.                                                 *)
(*                                                                         *)
(* A tile is its Python id.  The id of a tile nobody refers to any more is *)
(* given to the next tile, so the tables keyed by id must have forgotten   *)
(* it by then.                                                             *)
(***************************************************************************)
EXTENDS Integers, Sequences, FiniteSets, FiniteSetsExt, SequencesExt

CONSTANTS
    Names,      \* SSA names
    UseOnce,    \* the names build_use_counts counts once
    Tiles,      \* ids of Tile objects
    Scalar,     \* a value that is not a Tile
    Size,       \* Size[t]: size_bytes of a tile with this id
    Capacity,   \* lx.capacity
    Stick,      \* STICK_BYTES
    Dedup,      \* LXOptions.alias_dedup
    Consume,    \* LXOptions.consume_last_use
    MaxDepth,   \* bound on the scopes open at once
    MaxPtr      \* bound on lx.next_ptr

ASSUME SizeAssumption == Size \in [Tiles -> Nat \ {0}]
ASSUME CapacityAssumption == Capacity \in Nat
ASSUME StickAssumption == Stick \in Nat \ {0}
ASSUME BoundsAssumption == MaxDepth \in Nat \ {0} /\ MaxPtr \in Nat
ASSUME NamesAssumption == UseOnce \subseteq Names
ASSUME ScalarAssumption == Scalar \notin Tiles
(* memory.py: consume_last_use without alias_dedup is unsupported. *)
ASSUME OptionsAssumption == {Dedup, Consume} \subseteq BOOLEAN /\ (Consume => Dedup)

Value == Tiles \cup {Scalar}
Scope == UNION {[D -> Value] : D \in SUBSET Names}
Books == [refcount : [Tiles -> Nat], uncharged : SUBSET Tiles, used : Int]

VARIABLES
    scopes,     \* _scope_stack, the function body's scope first
    books,      \* _tile_refcount (0 for an absent id), _uncharged_tiles, lx.used
    nextPtr,    \* lx.next_ptr
    marks,      \* _lx_next_ptr_stack
    combining,  \* the depths of the scopes _run_combiner opened
    held,       \* tiles a handler or a generator on the stack refers to
    literal,    \* the ids whose present tile was made by a no_lx_charge op
    staged,     \* the LX ranges _write_to_lx has written, by scope depth
    error       \* the exception that is leaving the run, or "none"

vars == <<scopes, books, nextPtr, marks, combining, held, literal, staged, error>>

Top == scopes[Len(scopes)]
Bound(t) == \E d \in DOMAIN scopes : \E n \in DOMAIN scopes[d] : scopes[d][n] = t
Fresh(t) == t \notin held /\ ~Bound(t)

EmptyBooks == [refcount |-> [t \in Tiles |-> 0], uncharged |-> {}, used |-> 0]
EmptyScope == [n \in {} |-> Scalar]

Init ==
    /\ scopes = <<EmptyScope>>
    /\ books = EmptyBooks
    /\ nextPtr = 0
    /\ marks = <<>>
    /\ combining = {}
    /\ held = {}
    /\ literal = {}
    /\ staged = {}
    /\ error = "none"

(* A faulty release that never forgets the id of a literal. *)
Release_KeepsId(b, t) ==
    LET last == ~Dedup \/ b.refcount[t] = 1
        paid == last /\ t \notin b.uncharged
    IN  [refcount |-> IF Dedup THEN [b.refcount EXCEPT ![t] = @ - 1] ELSE b.refcount,
         uncharged |-> b.uncharged,
         used |-> IF paid THEN b.used - Size[t] ELSE b.used]

(* _release_tile: the last reference gives the bytes back, unless the tile *)
(* never occupied any.                                                     *)
Release(b, t) ==
    LET last == ~Dedup \/ b.refcount[t] = 1
        paid == last /\ t \notin b.uncharged
    IN  [refcount |-> IF Dedup THEN [b.refcount EXCEPT ![t] = @ - 1] ELSE b.refcount,
         uncharged |-> IF last THEN b.uncharged \ {t} ELSE b.uncharged,
         used |-> IF paid THEN b.used - Size[t] ELSE b.used]

(* A faulty overwrite that forgets the old value. *)
Overwritten_Forgets(n) == books

(* What overwriting the topmost binding of a name does to the books. *)
Overwritten(n) ==
    IF n \in DOMAIN Top /\ Top[n] \in Tiles THEN Release(books, Top[n]) ELSE books

(* pop_scope releases every tile of the scope, once for each name. *)
ReleaseAll(scope) ==
    FoldSet(LAMBDA n, b : IF scope[n] \in Tiles THEN Release(b, scope[n]) ELSE b,
            books, DOMAIN scope)

(* self._tile_refcount[id(tile)] -= 1 raises KeyError on an absent id. *)
ReleaseRaises(scope) ==
    Dedup /\ \E t \in Tiles :
                books.refcount[t] < Cardinality({n \in DOMAIN scope : scope[n] = t})

Counted(b, t) ==
    IF Dedup THEN [b EXCEPT !.refcount[t] = @ + 1] ELSE b

Free(b, t, charge) == ~charge \/ t \in b.uncharged
Charged(b, t) == Dedup => b.refcount[t] = 0
(* A faulty check that leaves the new tile out. *)
Overflows_Late(b, t) == b.used > Capacity
Overflows(b, t) == b.used + Size[t] > Capacity

(* The books after set_value(n, t, charge) has replaced the old value. *)
Book(b, t, charge) ==
    IF Free(b, t, charge) THEN Counted([b EXCEPT !.uncharged = @ \cup {t}], t)
    ELSE IF Charged(b, t) THEN Counted([b EXCEPT !.used = @ + Size[t]], t)
    ELSE Counted(b, t)

Rebound(n, v) ==
    [scopes EXCEPT ![Len(scopes)] =
        [m \in DOMAIN @ \cup {n} |-> IF m = n THEN v ELSE @[m]]]

(* set_value with a value that is not a tile. *)
BindScalar(n) ==
    /\ error = "none"
    /\ scopes' = Rebound(n, Scalar)
    /\ books' = Overwritten(n)
    /\ UNCHANGED <<nextPtr, marks, combining, held, literal, staged, error>>

(* set_value with a tile.  The binding is written before the capacity is   *)
(* checked, and the old value is released before that.                     *)
SetValue(n, t) ==
    LET b == Overwritten(n)
        raises == ~Free(b, t, TRUE) /\ Charged(b, t) /\ Overflows(b, t)
    IN  /\ scopes' = Rebound(n, t)
        /\ books' = IF raises THEN b ELSE Book(b, t, TRUE)
        /\ error' = IF raises THEN "MemoryError" ELSE "none"

(* A handler binds a tile it holds. *)
Bind(n, t) ==
    /\ error = "none"
    /\ t \in held
    /\ SetValue(n, t)
    /\ UNCHANGED <<nextPtr, marks, combining, held, literal, staged>>

(* An arith.constant makes a tile and binds it with charge=False. *)
BindLiteral(n, t) ==
    /\ error = "none"
    /\ Fresh(t)
    /\ books' = Book(Overwritten(n), t, FALSE)
    /\ scopes' = Rebound(n, t)
    /\ literal' = literal \cup {t}
    /\ UNCHANGED <<nextPtr, marks, combining, held, staged, error>>

(* A compute op makes its result. *)
Compute(t) ==
    /\ error = "none"
    /\ Fresh(t)
    /\ held' = held \cup {t}
    /\ literal' = literal \ {t}
    /\ UNCHANGED <<scopes, books, nextPtr, marks, combining, staged, error>>

(* A faulty alignment, down to the stick that holds the end. *)
Align_Down(ptr) == (ptr \div Stick) * Stick

Align(ptr) == ((ptr + Stick - 1) \div Stick) * Stick

(* ktdp.load makes a tile, writes a copy of it into LX and binds it. *)
Load(n, t) ==
    /\ error = "none"
    /\ Fresh(t)
    /\ nextPtr + Size[t] <= MaxPtr
    /\ staged' = staged \cup {[tile |-> t, depth |-> Len(scopes), lo |-> nextPtr,
                               hi |-> nextPtr + Size[t]]}
    /\ nextPtr' = Align(nextPtr + Size[t])
    /\ SetValue(n, t)
    /\ literal' = literal \ {t}
    /\ UNCHANGED <<marks, combining, held>>

(* A handler returns; its references go. *)
Drop(t) ==
    /\ error = "none"
    /\ t \in held
    /\ held' = held \ {t}
    /\ UNCHANGED <<scopes, books, nextPtr, marks, combining, literal, staged, error>>

Found(n) == {d \in DOMAIN scopes : n \in DOMAIN scopes[d]}

(* A faulty consume without the topmost-scope guard. *)
LastUse_AnyScope(n, d) == Consume /\ scopes[d][n] \in Tiles /\ n \in UseOnce

(* get_value searches the scopes from the top and consumes on last use.    *)
LastUse(n, d) ==
    /\ Consume
    /\ scopes[d][n] \in Tiles
    /\ n \in UseOnce
    /\ d = Len(scopes)

(* A faulty consume that releases the tile and leaves the binding. *)
Fetch_KeepsBinding(n) ==
    /\ error = "none"
    /\ Found(n) # {}
    /\ LET d == Max(Found(n))
           v == scopes[d][n]
       IN  /\ held' = held \cup ({v} \cap Tiles)
           /\ books' = IF LastUse(n, d) THEN Release(books, v) ELSE books
    /\ UNCHANGED <<scopes, nextPtr, marks, combining, literal, staged, error>>

Fetch(n) ==
    /\ error = "none"
    /\ Found(n) # {}
    /\ LET d == Max(Found(n))
           v == scopes[d][n]
       IN  /\ held' = held \cup ({v} \cap Tiles)
           /\ IF LastUse(n, d)
              THEN /\ scopes' = [scopes EXCEPT ![d] =
                                    [m \in DOMAIN @ \ {n} |-> @[m]]]
                   /\ books' = Release(books, v)
              ELSE UNCHANGED <<scopes, books>>
    /\ UNCHANGED <<nextPtr, marks, combining, literal, staged, error>>

PushScope(combiner) ==
    /\ error = "none"
    /\ Len(scopes) < MaxDepth
    /\ marks' = Append(marks, nextPtr)
    /\ scopes' = Append(scopes, EmptyScope)
    /\ combining' = IF combiner THEN combining \cup {Len(scopes) + 1} ELSE combining
    /\ UNCHANGED <<books, nextPtr, held, literal, staged, error>>

PopScope ==
    /\ Len(scopes) > 1
    /\ ~ReleaseRaises(Top)
    /\ scopes' = Front(scopes)
    /\ books' = ReleaseAll(Top)
    /\ nextPtr' = Last(marks)
    /\ marks' = Front(marks)
    /\ staged' = {s \in staged : s.depth < Len(scopes)}

Pop ==
    /\ error = "none"
    /\ PopScope
    /\ combining' = combining \ {Len(scopes)}
    /\ UNCHANGED <<held, literal, error>>

(* A MemoryError on its way out pops no scope but in the finally of        *)
(* _run_combiner, which pops whichever is topmost.  A KeyError raised by   *)
(* that pop takes its place, after the scope is gone and before its        *)
(* watermark is; the context is of no use any more until it is cleared.    *)
Unwind ==
    /\ error = "MemoryError" /\ combining # {}
    /\ combining' = combining \ {Max(combining)}
    /\ IF ReleaseRaises(Top)
       THEN /\ error' = "KeyError"
            /\ scopes' = Front(scopes)
            /\ UNCHANGED <<books, nextPtr, marks, staged>>
       ELSE /\ PopScope
            /\ UNCHANGED error
    /\ UNCHANGED <<held, literal>>

(* clear_values, "for next round of execution". *)
Clear ==
    /\ scopes' = <<EmptyScope>>
    /\ books' = EmptyBooks
    /\ nextPtr' = 0
    /\ marks' = <<>>
    /\ combining' = {}
    /\ staged' = {}
    /\ error' = "none"
    /\ UNCHANGED <<held, literal>>

Next ==
    \/ \E n \in Names : BindScalar(n) \/ Fetch(n)
    \/ \E n \in Names, t \in Tiles : Bind(n, t) \/ BindLiteral(n, t) \/ Load(n, t)
    \/ \E t \in Tiles : Compute(t) \/ Drop(t)
    \/ \E combiner \in BOOLEAN : PushScope(combiner)
    \/ Pop \/ Unwind \/ Clear

Spec == Init /\ [][Next]_vars

----------------------------------------------------------------------------
TypeOK ==
    /\ scopes \in Seq(Scope) /\ Len(scopes) \in 1 .. MaxDepth
    /\ books \in Books
    /\ nextPtr \in 0 .. Align(MaxPtr)
    /\ marks \in Seq(0 .. Align(MaxPtr))
    /\ combining \subseteq 2 .. Len(scopes)
    /\ held \subseteq Tiles
    /\ literal \subseteq Tiles
    /\ staged \subseteq [tile : Tiles, depth : 1 .. MaxDepth,
                         lo : 0 .. MaxPtr, hi : 0 .. MaxPtr]
    /\ error \in {"none", "MemoryError", "KeyError"}

Bindings(t) ==
    {b \in (DOMAIN scopes) \X Names : b[2] \in DOMAIN scopes[b[1]] /\ scopes[b[1]][b[2]] = t}

BoundTiles == {t \in Tiles : Bound(t)}
BytesOf(S) == MapThenSumSet(LAMBDA t : Size[t], S)

(* However bindings are made, overwritten, consumed and popped, a tile is  *)
(* counted once for each name bound to it in any scope, an id that no name *)
(* is bound to has been forgotten, and lx.used is the bytes of the bound   *)
(* tiles that are not free, each charged once.                             *)
BooksMatchScopes ==
    Dedup /\ error = "none" =>
      /\ \A t \in Tiles : books.refcount[t] = Cardinality(Bindings(t))
      /\ books.uncharged \subseteq BoundTiles
      /\ books.used = BytesOf(BoundTiles \ books.uncharged)

(* The working tiles that some name can still reach fit in the scratchpad. *)
LiveTilesFit ==
    error = "none" => BytesOf(BoundTiles \ literal) <= Capacity

(* A tile escapes the charge only if a no_lx_charge op made it: the entry  *)
(* of a literal is gone before its id can belong to a working tile.        *)
OnlyLiteralsAreFree == error = "none" => books.uncharged \subseteq literal

(* A region body leaves the bindings of the scopes around it alone: only   *)
(* the topmost scope gains, loses or rebinds a name, so a name fetched in  *)
(* a loop body is there again for the next iteration.                      *)
OuterScopesAreKept ==
    [][Clear \/ \A d \in DOMAIN scopes \ {Len(scopes)} :
                    d \in DOMAIN scopes' /\ scopes'[d] = scopes[d]]_vars

(* Data staged in LX by the scopes that are still open does not overlap,   *)
(* and what a scope stages lies between its own watermark and the next.    *)
StagedRangesNest ==
    error = "none" =>
      /\ Len(marks) = Len(scopes) - 1
      /\ \A r, s \in staged : r = s \/ r.hi <= s.lo \/ s.hi <= r.lo
      /\ \A r \in staged :
           /\ r.depth > 1 => marks[r.depth - 1] <= r.lo
           /\ r.hi <= IF r.depth = Len(scopes) THEN nextPtr ELSE marks[r.depth]
=============================================================================
