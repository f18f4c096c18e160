--------------------------- MODULE StringRuntime ---------------------------
(***************************************************************************)
(* Counted strings and arrays of the runtime                               *)
(* (src/qumir/runtime/string.cpp, src/qumir/runtime/array.cpp).            *)
(*                                                                         *)
(* A heap is the sequence of the objects ever allocated, strings and       *)
(* arrays, so that one that was freed can be told.  A string has the       *)
(* number of its references (Rc), its bytes (Data) and, once somebody      *)
(* asked, the places where its symbols start (Utf8Indices).  A machine m   *)
(* has a heap, the memory cells that addresses name, what was written out, *)
(* and the faults of the run so far; a function leaves its result in ret.  *)
(*                                                                         *)
(* A value is null, the bytes of a literal, an object, or a number.        *)
(***************************************************************************)
EXTENDS Integers, Sequences, SequencesExt

CONSTANT WideSymbols   \* those encoded in more than one byte

Null == <<"int", 0>>
Number(n) == <<"int", n>>
Object(id) == <<"obj", id>>
Garbage == <<"garbage", 0>>

\* UTF-8: a symbol is a byte that starts it and, if wide, one that continues it.
Continuation == "~"
Encoded(symbol) == IF symbol \in WideSymbols THEN <<symbol, Continuation>> ELSE <<symbol>>
EncodedAll(symbols) == FlattenSeq([i \in DOMAIN symbols |-> Encoded(symbols[i])])

NoIndices == <<>>

Clamp(n, low, high) == IF n < low THEN low ELSE IF n > high THEN high ELSE n
-----------------------------------------------------------------------------
Fault(m, what) == [m EXCEPT !.faults = @ \cup {what}]

IsFreed(m, v) == v[1] = "obj" /\ m.heap[v[2]].rc = 0

\* A use of values: of any string, or of one with a header, which literals have not.
Use(m, values) ==
    IF \E i \in DOMAIN values : IsFreed(m, values[i]) \/ values[i] = Garbage
    THEN Fault(m, "use of freed memory") ELSE m

UseCounted(m, v) == IF v[1] = "text" THEN Fault(m, "header of a literal") ELSE Use(m, <<v>>)

Data(m, v) ==
    CASE v[1] = "text" -> v[2]
      [] v[1] = "obj" -> m.heap[v[2]].data
      [] OTHER -> <<>>

Returning(m, v) == [m EXCEPT !.ret = v]

\* str_from_lit_: an object with one reference.
NewString(m, data) ==
    [m EXCEPT !.heap = Append(@, [kind |-> "string", rc |-> 1, data |-> data, starts |-> NoIndices]),
              !.ret = Object(Len(m.heap) + 1)]

StrFromLit(m, s) == IF s = Null THEN Returning(m, Null) ELSE NewString(Use(m, <<s>>), Data(m, s))

\* build_utf8_indices: where the symbols start, and the end.
SymbolStarts(data) ==
    SelectSeq([i \in 1 .. Len(data) + 1 |-> i], LAMBDA i : i = Len(data) + 1 \/ data[i] # Continuation)

\* The indices are built once.
Indexed(m, s) ==
    IF s[1] # "obj" \/ m.heap[s[2]].starts # NoIndices THEN m
    ELSE [m EXCEPT !.heap[s[2]].starts = SymbolStarts(m.heap[s[2]].data)]

Symbols(m, s) == Len(m.heap[s[2]].starts) - 1
StartOf(m, s, i) == m.heap[s[2]].starts[i]
-----------------------------------------------------------------------------
StrRetain(m, s) ==
    IF s = Null THEN m
    ELSE IF s[1] # "obj" \/ IsFreed(m, s) THEN Fault(m, "bad retain")
    ELSE [m EXCEPT !.heap[s[2]].rc = @ + 1]

StrRelease(m, s) ==
    IF s = Null THEN m
    ELSE IF s[1] # "obj" \/ IsFreed(m, s) THEN Fault(m, "bad release")
    ELSE [m EXCEPT !.heap[s[2]].rc = @ - 1]

StrConcat(m, a, b) == NewString(Use(m, <<a, b>>), Data(m, a) \o Data(m, b))

\* The bytes of symbols first to last.
SliceOf(m, s, first, last) ==
    IF first > last THEN Returning(m, Null)
    ELSE NewString(m, SubSeq(Data(m, s), StartOf(m, s, first), StartOf(m, s, last + 1) - 1))

StrSlice(m, s, from, to) ==
    LET n == Indexed(UseCounted(m, s), s)
    IN IF s[1] # "obj" THEN Returning(n, Null)
       ELSE SliceOf(n, s, IF from < 1 THEN 1 ELSE from, IF to >= Symbols(n, s) THEN Symbols(n, s) ELSE to)

StrLen(m, s) ==
    LET n == Indexed(UseCounted(m, s), s)
    IN Returning(n, Number(IF s[1] # "obj" THEN 0 ELSE Symbols(n, s)))

Between(m, s, first, last) == SubSeq(Data(m, s), StartOf(m, s, first), StartOf(m, s, last) - 1)

\* Mutant of StrReplaceSym: a string somebody else refers to is changed in place too.
ReplaceInPlace(m, s, symbol, i) ==
    LET n == Indexed(UseCounted(m, s), s)
        width == IF s[1] = "obj" /\ i \in 1 .. Symbols(n, s) THEN Len(Between(n, s, i, i + 1)) ELSE 0
        data == Between(n, s, 1, i) \o Encoded(symbol) \o Between(n, s, i + 1, Symbols(n, s) + 1)
    IN IF s[1] # "obj" THEN Returning(n, Null)
       ELSE IF width = 0 THEN Returning(StrRetain(n, s), s)
       ELSE IF width = Len(Encoded(symbol))
            THEN Returning(StrRetain([n EXCEPT !.heap[s[2]].data = data], s), s)
            ELSE NewString(n, data)

\* A string with a single reference is changed in place, if the symbol has the
\* same width; the result has a reference of its own.
StrReplaceSym(m, s, symbol, i) ==
    LET n == Indexed(UseCounted(m, s), s)
        width == IF s[1] = "obj" /\ i \in 1 .. Symbols(n, s) THEN Len(Between(n, s, i, i + 1)) ELSE 0
        data == Between(n, s, 1, i) \o Encoded(symbol) \o Between(n, s, i + 1, Symbols(n, s) + 1)
    IN IF s[1] # "obj" THEN Returning(n, Null)
       ELSE IF width = 0 THEN Returning(StrRetain(n, s), s)
       ELSE IF width = Len(Encoded(symbol)) /\ n.heap[s[2]].rc = 1
            THEN Returning(StrRetain([n EXCEPT !.heap[s[2]].data = data], s), s)
            ELSE NewString(n, data)

\* The string at an address is released, and a new one stored.
Renew(m, address, s, data) ==
    LET made == NewString(m, data)
    IN [StrRelease(made, s) EXCEPT !.cells[address] = made.ret]

StrDeleteSymbols(m, address, from, count) ==
    LET s == m.cells[address]
        n == Indexed(UseCounted(m, s), s)
        first == IF from < 1 THEN 1 ELSE from
        last == IF first + count - 1 > Symbols(n, s) THEN Symbols(n, s) ELSE first + count - 1
    IN IF s[1] # "obj" \/ count < 1 THEN n
       ELSE IF first > last THEN n
       ELSE Renew(n, address, s, Between(n, s, 1, first) \o Between(n, s, last + 1, Symbols(n, s) + 1))

\* Only the inserted string may be null.
StrInsertSymbols(m, insert, address, at) ==
    LET s == m.cells[address]
        n == Indexed(UseCounted(Use(m, <<insert>>), s), s)
        place == Clamp(at, 1, Symbols(n, s) + 1)
    IN IF insert = Null THEN m
       ELSE IF s[1] # "obj" THEN Fault(n, "header of null")
       ELSE Renew(n, address, s, Between(n, s, 1, place) \o Data(n, insert)
                                 \o Between(n, s, place, Symbols(n, s) + 1))
-----------------------------------------------------------------------------
(* Arrays.                                                                 *)

ElementOf(id, i) == <<"elem", id, i>>

\* The elements are zero, which is null.
ArrayCreate(m, size) ==
    LET id == Len(m.heap) + 1
        elements == [a \in {ElementOf(id, i) : i \in 0 .. size - 1} |-> Null]
    IN [m EXCEPT !.heap = Append(@, [kind |-> "array", rc |-> 1, data |-> <<>>, starts |-> <<>>]),
                 !.cells = elements @@ @,
                 !.ret = Object(id)]

ArrayDestroy(m, array) ==
    IF array[1] # "obj" \/ IsFreed(m, array) THEN Fault(m, "bad delete")
    ELSE [m EXCEPT !.heap[array[2]].rc = 0]

ArrayStrDestroy(m, array, size) ==
    IF array = Null THEN m
    ELSE ArrayDestroy(FoldLeft(LAMBDA n, i : StrRelease(n, n.cells[ElementOf(array[2], i - 1)]),
                               m, [i \in 1 .. size |-> i]), array)
=============================================================================
