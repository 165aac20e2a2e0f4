------------------------------- MODULE NdExecute -------------------------------
(***************************************************************************)
(* The execution of multi-dimensional plans, added to their life:          *)
(* ffts_execute_nd (ffts_nd.c), ffts_execute_nd_real and _inv              *)
(* (ffts_real_nd.c) and ffts_transpose (ffts_transpose.c).                 *)
(*                                                                         *)
(* Every dimension is transformed by running its nested plan through the   *)
(* rows of the data, between transpositions that turn the next dimension   *)
(* into rows.  A cell of an array is named by its place in the data and by *)
(* the dimensions along which it has been transformed already.  A nested   *)
(* plan is taken as what it promises: given the cells of one line along a  *)
(* dimension of its length, in their order, it transforms them; given      *)
(* anything else, what comes out means nothing.                            *)
(*                                                                         *)
(* A pass through all rows, or a whole transposition, is one step: a plan  *)
(* is executed by one thread at a time, as its buffer requires.            *)
(***************************************************************************)
EXTENDS PlanNd

CONSTANT Tile   \* side of the blocks ffts_transpose moves: 8, or 1 without SSE2

ASSUME TileAssumption == Tile \in Nat \ {0}

VARIABLES
    doing,      \* what execution does next: rows, transpose, nothing; or done
    pass,       \* the slot whose plan it is using
    buf,        \* p->buf
    out         \* the caller's output

execution == <<doing, pass, buf, out>>

-----------------------------------------------------------------------------
(* Arrays of cells.                                                        *)

Junk == [at |-> <<>>, done |-> {}]
JunkArray(n) == [c \in 0..(n - 1) |-> Junk]

Stride(dims, d) == Product([e \in 1..(Len(dims) - d) |-> dims[d + e]])

\* An array in row-major order that is transformed along the dimensions D.
RowMajor(dims, D) ==
    [c \in 0..(Product(dims) - 1) |->
        [at |-> [d \in DOMAIN dims |-> (c \div Stride(dims, d)) % dims[d]], done |-> D]]

\* The last dimension as it is on the side of the complex numbers.
Halved(dims) == [dims EXCEPT ![Len(dims)] = @ \div 2 + 1]

InDims == IF req.api = "inverse" THEN Halved(req.dims) ELSE req.dims
OutDims == IF req.api = "forward" THEN Halved(req.dims) ELSE req.dims
InCells == Product(InDims)
OutCells == Product(OutDims)

Input == RowMajor(InDims, {})
Output == RowMajor(OutDims, Slots)

\* A half of the spectrum without the Nyquist frequency.
BufCells_noNyquist ==
    vol + (IF req.api = "inverse"
           THEN req.dims[1] * ((vol \div req.dims[1]) \div 2) ELSE 0)

\* What init allocates at p->buf, in complex numbers.
BufCells ==
    vol + (IF req.api = "inverse"
           THEN req.dims[1] * ((vol \div req.dims[1]) \div 2 + 1) ELSE 0)

-----------------------------------------------------------------------------
(* One row: a nested plan of some kind and length.                         *)

Nested == made[plans[pass]]

InLength == IF Nested[1] = "real" /\ req.api = "inverse"
            THEN Nested[2] \div 2 + 1 ELSE Nested[2]
OutLength == IF Nested[1] = "real" /\ req.api = "forward"
             THEN Nested[2] \div 2 + 1 ELSE Nested[2]

\* The row is a line along dimension d that the nested plan can transform.  The real
\* end of a real transform is the last dimension, at the beginning of a forward and
\* at the end of an inverse one.
IsLine(row, d) ==
    /\ row[0] # Junk
    /\ d \notin row[0].done
    /\ req.dims[d] = Nested[2]
    /\ Nested[1] = "real" =>
           d = rank /\ row[0].done = (IF req.api = "forward" THEN {} ELSE Slots \ {d})
    /\ Nested[1] = "complex" /\ req.api # "complex" => d # rank
    /\ \A x \in DOMAIN row : row[x] = [row[0] EXCEPT !.at[d] = x]

Transformed(row) ==
    LET lines == {d \in Slots : IsLine(row, d)}
        d == CHOOSE d \in lines : TRUE
    IN IF lines = {} THEN JunkArray(OutLength)
       ELSE [x \in 0..(OutLength - 1) |->
                [at |-> [row[0].at EXCEPT ![d] = x], done |-> row[0].done \cup {d}]]

-----------------------------------------------------------------------------
(* All rows, and transpositions.                                           *)

\* How many rows the pass of slot i runs through, and how far they lie apart.
Rows(i) ==
    IF req.api = "complex" THEN [count |-> Ms[i], in |-> Ns[i], out |-> Ns[i]]
    ELSE IF req.api = "forward"
    THEN [count |-> Ns[i], in |-> Ms[i], out |-> IF i = 1 THEN Ms[i] \div 2 + 1 ELSE Ms[i]]
    ELSE IF i = 1 THEN [count |-> Ms[1], in |-> Ns[1], out |-> Ns[1]]
    ELSE [count |-> Ms[2], in |-> Ms[1], out |-> Ns[2]]

Read(src, c) == IF c \in DOMAIN src THEN src[c] ELSE Junk

\* dst, from d0 on, after a pass through the rows of src.
AfterRows(dst, d0, src) ==
    LET r == Rows(pass)
        Row(j) == [x \in 0..(InLength - 1) |-> Read(src, j * r.in + x)]
        New(c) == Transformed(Row(c \div r.out))[c % r.out]
    IN [c \in DOMAIN dst |->
           IF c >= d0 /\ c - d0 < r.count * r.out /\ (c - d0) % r.out < OutLength
           THEN New(c - d0) ELSE dst[c]]

\* What whole blocks cover of a side.
Covered(n) == (n \div Tile) * Tile

\* ffts_transpose: dst after h rows of w cells, found in src from s0 on, have become w
\* rows of h cells.  Blocks that are not full are left alone.
AfterTranspose(dst, src, s0, w, h) ==
    [c \in DOMAIN dst |->
        LET x == c \div h
            y == c % h
        IN IF x < Covered(w) /\ y < Covered(h) THEN Read(src, s0 + y * w + x) ELSE dst[c]]

-----------------------------------------------------------------------------
(* ffts_execute on a plan.                                                 *)

Executing == doing \in {"rows", "transpose"}

Goto(what, i) == doing' = what /\ pass' = i

\* Whatever happens to be in the two arrays is there at the start.
Execute ==
    /\ phase = "held"
    /\ ~Executing
    /\ Complete
    /\ IF req.api = "inverse" THEN Goto("transpose", 0) ELSE Goto("rows", 1)
    /\ buf' = IF doing = "nothing" THEN JunkArray(BufCells) ELSE buf
    /\ out' = JunkArray(OutCells)
    /\ UNCHANGED vars

\* Complex and forward transforms: rows into the buffer and back by a transposition,
\* once for each dimension.
ThroughRows ==
    /\ req.api # "inverse"
    /\ doing = "rows"
    /\ buf' = AfterRows(buf, 0, IF pass = 1 THEN Input ELSE out)
    /\ Goto("transpose", pass)
    /\ UNCHANGED <<vars, out>>

TransposeBack ==
    /\ req.api # "inverse"
    /\ doing = "transpose"
    /\ out' = AfterTranspose(out, buf, 0, Rows(pass).out, Rows(pass).count)
    /\ IF pass = rank THEN Goto("done", pass) ELSE Goto("rows", pass + 1)
    /\ UNCHANGED <<vars, buf>>

\* Inverse transforms: the first dimension becomes rows,
InverseIn ==
    /\ req.api = "inverse"
    /\ doing = "transpose" /\ pass = 0
    /\ buf' = AfterTranspose(buf, Input, 0, Ms[1], Ns[1])
    /\ Goto("rows", 1)
    /\ UNCHANGED <<vars, out>>

\* is transformed into the second part of the buffer,
InverseColumns ==
    /\ req.api = "inverse"
    /\ doing = "rows" /\ pass = 1
    /\ buf' = AfterRows(buf, Product(Ns), buf)
    /\ Goto("transpose", 1)
    /\ UNCHANGED <<vars, out>>

\* and comes back to the first part,
InverseBack ==
    /\ req.api = "inverse"
    /\ doing = "transpose" /\ pass = 1
    /\ buf' = AfterTranspose(buf, buf, Product(Ns), Ns[1], Ms[1])
    /\ Goto("rows", 2)
    /\ UNCHANGED <<vars, out>>

\* from where the rows go to the output as real numbers.
InverseRows ==
    /\ req.api = "inverse"
    /\ doing = "rows" /\ pass = 2
    /\ out' = AfterRows(out, 0, buf)
    /\ Goto("done", 2)
    /\ UNCHANGED <<vars, buf>>

-----------------------------------------------------------------------------
\* Init and free calls, between executions.
LifeStep ==
    /\ ~Executing
    /\ Next
    /\ Goto("nothing", 0)
    /\ buf' = <<>> /\ out' = <<>>

NdInit ==
    /\ Init
    /\ doing = "nothing" /\ pass = 0
    /\ buf = <<>> /\ out = <<>>

NdNext ==
    \/ LifeStep
    \/ Execute
    \/ ThroughRows
    \/ TransposeBack
    \/ InverseIn
    \/ InverseColumns
    \/ InverseBack
    \/ InverseRows

NdSpec == NdInit /\ [][NdNext]_<<vars, execution>>

-----------------------------------------------------------------------------
(* Properties.                                                             *)

\* An execution leaves in the output the data transformed once along each dimension,
\* in row-major order (ffts.h:72-74), with N/2+1 numbers in the last one on the complex
\* side (ffts.h:88-89): the nested plans that slots share, the lengths that init has
\* narrowed and the transpositions fit together, the first time and ever after.
TransformRight == doing = "done" => out = Output

\* What a step may read from and write to: the caller's arrays, p->buf and, for an
\* inverse transform, its two parts.
Room ==
    IF req.api # "inverse"
    THEN IF doing = "transpose" THEN [from |-> BufCells, to |-> OutCells]
         ELSE [from |-> IF pass = 1 THEN InCells ELSE OutCells, to |-> BufCells]
    ELSE IF pass = 0 THEN [from |-> InCells, to |-> vol]
    ELSE IF pass = 2 THEN [from |-> vol, to |-> OutCells]
    ELSE IF doing = "rows" THEN [from |-> vol, to |-> BufCells - vol]
    ELSE [from |-> BufCells - vol, to |-> vol]

\* No pass through the rows and no transposition leaves its array, or the part of p->buf
\* that is meant for it (ffts_nd.c:149, ffts_real_nd.c:193-200).
StaysInArrays ==
    Executing =>
        LET r == Rows(pass)
            moved == IF pass = 0 THEN Ms[1] * Ns[1] ELSE r.count * r.out
        IN IF doing = "transpose" THEN moved <= Room.from /\ moved <= Room.to
           ELSE /\ (r.count - 1) * r.in + InLength <= Room.from
                /\ (r.count - 1) * r.out + OutLength <= Room.to
==============================================================================
