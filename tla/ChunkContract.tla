--------------------------- MODULE ChunkContract ---------------------------
(***************************************************************************)
(* What a chunk promises to the users of a buffer, whatever the            *)
(* coordinator does underneath: its bytes move between representations     *)
(* without changing, never while somebody holds a lease on them; leases    *)
(* exclude each other as readers and one writer; only the writer changes   *)
(* bytes, and bytes that a failed write tore are never given to anybody    *)
(* again.                                                                  *)
(*                                                                         *)
(* A cell is the chunk as its users see it: where its bytes are kept       *)
(* (form), their generation or Garbage, its leases, and whether it may     *)
(* still be used.                                                          *)
(***************************************************************************)
EXTENDS Integers

CONSTANTS Chunks, Forms, InitialForm, MaxGeneration, Garbage

VARIABLE cell

Cells == [form : Forms, bytes : 0 .. MaxGeneration \cup {Garbage},
          readers : Nat, writer : BOOLEAN, usable : BOOLEAN]

Held(c) == cell[c].readers # 0 \/ cell[c].writer

Becomes(c, new) == cell' = [cell EXCEPT ![c] = new]

CellInit ==
  cell = [c \in Chunks |-> [form |-> InitialForm, bytes |-> 0, readers |-> 0,
                            writer |-> FALSE, usable |-> TRUE]]

\* A migration, seen from outside, is one step that keeps the bytes.
Migrate(c, form) ==
  /\ cell[c].usable /\ ~Held(c) /\ form # cell[c].form
  /\ Becomes(c, [cell[c] EXCEPT !.form = form])

\* A lease is given on good bytes in GPU raw form only.
CanPin(c) ==
  cell[c].usable /\ cell[c].form = "gpu_raw" /\ cell[c].bytes # Garbage /\ ~cell[c].writer

PinRead(c) == CanPin(c) /\ Becomes(c, [cell[c] EXCEPT !.readers = @ + 1])

PinWrite(c) == CanPin(c) /\ cell[c].readers = 0 /\ Becomes(c, [cell[c] EXCEPT !.writer = TRUE])

\* One write advances the generation or tears the bytes, and then the chunk can only be
\* given up.
Write(c) ==
  /\ cell[c].writer
  /\ cell[c].usable => cell[c].bytes # Garbage
  /\ \E new \in 0 .. MaxGeneration \cup {Garbage} :
       /\ cell[c].usable => new \in {cell[c].bytes + 1, Garbage}
       /\ Becomes(c, [cell[c] EXCEPT !.bytes = new])

UnpinRead(c) == cell[c].readers # 0 /\ Becomes(c, [cell[c] EXCEPT !.readers = @ - 1])

\* The writer leaves; the chunk stays usable only with good bytes.
UnpinWrite(c) ==
  /\ cell[c].writer
  /\ \E usable \in BOOLEAN :
       /\ usable => cell[c].usable /\ cell[c].bytes # Garbage
       /\ Becomes(c, [cell[c] EXCEPT !.writer = FALSE, !.usable = usable])

GiveUp(c) == cell[c].usable /\ Becomes(c, [cell[c] EXCEPT !.usable = FALSE])

\* A step changes a cell: what a user cannot see is no step of the contract.
CellNext ==
  /\ cell' # cell
  /\ \E c \in Chunks :
       \/ \E form \in Forms : Migrate(c, form)
       \/ PinRead(c) \/ PinWrite(c) \/ Write(c) \/ UnpinRead(c) \/ UnpinWrite(c) \/ GiveUp(c)

CellSpec == CellInit /\ [][CellNext]_cell
=============================================================================
