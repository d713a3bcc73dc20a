----------------------------- MODULE MtkBmtNand -----------------------------
(***************************************************************************)
(* The NAND chip below the bad block management of MediaTek devices        *)
(* (drivers/mtd/nand/mtk_bmt.c), as that code uses it: blocks of pages that *)
(* are erased together.  A block can wear out, so that erasing it and      *)
(* writing to it fail; it can lose its data; the power can fail before or  *)
(* in the middle of any operation on the chip.                             *)
(*                                                                         *)
(* An operation on a device d returns the set of its outcomes [d, ok].     *)
(* Without power the chip does nothing: what the driver computes after a   *)
(* power cut has no effect that outlives it.                               *)
(***************************************************************************)
EXTENDS Integers, FiniteSets, FiniteSetsExt

CONSTANTS
    Total,    \* total_blks
    Pages,    \* pages of a block
    Val,      \* what a page can hold
    Blank,    \* an erased page
    Junk,     \* a page programmed twice
    Torn,     \* a page that ECC cannot correct
    None      \* no driver state

ASSUME NandAssumption == Total \in Nat /\ Pages \in Nat \ {0}

Phys == 0 .. Total - 1
Page == 1 .. Pages
Filled(v) == [p \in Page |-> v]

\* What can befall a chip.  fragile: blocks that can wear out; fading: blocks
\* whose data can become unreadable; factory: blocks that are bad from the
\* factory; faults bounds the blocks that wear out, fade, have bitflips or are
\* tampered with, cuts the power cuts.
\* The device.  cell: what the pages hold; worn: worn out blocks; mark: blocks
\* with a bad block mark; faults, cuts: how many more can happen; on: the power;
\* m: what the driver has in memory.  History: unfilled, the blocks that a move
\* did not fill, because of an error nobody looked at, or filled from such a
\* block; freed and table, what version 2 did to the block of block 0 and to its
\* table (MtkBmtV2).
Factory_New(env) ==
    [env |-> env, cell |-> [b \in Phys |-> Filled(Blank)], worn |-> env.factory, mark |-> env.factory,
     faults |-> env.faults, cuts |-> env.cuts, on |-> TRUE, m |-> None,
     unfilled |-> {}, freed |-> FALSE, table |-> {}]

Out(d, ok) == [d |-> d, ok |-> ok]
Then(outcomes, F(_)) == UNION {F(o) : o \in outcomes}

\* The power fails before the operation, or in the middle of it.
Cut(d, torn) ==
    IF d.cuts = 0 THEN {}
    ELSE {Out([e EXCEPT !.on = FALSE, !.cuts = @ - 1], TRUE) : e \in {d, torn}}

\* Erasing a block or writing to it: it fails if the block is worn out, or
\* wears out now, and leaves failed behind; or it is done.
Attempt(d, b, done, failed, torn) ==
    IF ~d.on THEN {Out(d, TRUE)}
    ELSE IF b \in d.worn THEN {Out(failed, FALSE)} \cup Cut(d, torn)
    ELSE {Out(done, TRUE)} \cup Cut(d, torn)
         \cup (IF b \in d.env.fragile /\ d.faults > 0
               THEN {Out([failed EXCEPT !.worn = @ \cup {b}, !.faults = @ - 1], FALSE)} ELSE {})

bbt_nand_erase(d, b) ==
    Attempt(d, b, [d EXCEPT !.cell[b] = Filled(Blank), !.unfilled = @ \ {b}], d, [d EXCEPT !.cell[b] = Filled(Torn)])

Programmed(old, v) == IF old = Blank THEN v ELSE IF v = Blank THEN old ELSE Junk

nand_write(d, b, p, v) ==
    Attempt(d, b, [d EXCEPT !.cell[b][p] = Programmed(@, v)],
            [d EXCEPT !.cell[b][p] = Torn], [d EXCEPT !.cell[b][p] = Torn])

\* A page is read, or all of its block turns out to be unreadable.
nand_read(d, b, p) ==
    IF ~d.on THEN {Out(d, TRUE)}
    ELSE IF d.cell[b][p] = Torn THEN {Out(d, FALSE)}
    ELSE {Out(d, TRUE)}
         \cup (IF b \in d.env.fading /\ d.faults > 0 /\ d.cell[b] # Filled(Blank)
               THEN {Out([d EXCEPT !.cell[b] = Filled(Torn), !.faults = @ - 1], FALSE)} ELSE {})

nand_markbad(d, b) == IF d.on THEN [d EXCEPT !.mark = @ \cup {b}] ELSE d

\* bbt_nand_copy(): page by page up to max_offset, given up at the first error.
bbt_nand_copy(d, dest, src, max_offset) ==
    LET copy[p \in 0 .. Pages] ==
          IF p = 0 THEN {Out(d, TRUE)}
          ELSE Then(copy[p - 1], LAMBDA o :
                 IF ~o.ok \/ p > max_offset THEN {o}
                 ELSE Then(nand_read(o.d, src, p), LAMBDA r :
                        IF r.ok THEN nand_write(r.d, dest, p, r.d.cell[src][p]) ELSE {r}))
    IN  copy[Pages]

\* erasing the replacement and copying to it, whose results nobody looks at
Moved(d, dest, src, max_offset) ==
    Then(bbt_nand_erase(d, dest), LAMBDA o :
      {[c EXCEPT !.d.unfilled =
          IF o.ok /\ c.ok /\ (max_offset > 0 => src \notin d.unfilled) THEN @ ELSE @ \cup {dest}]
       : c \in IF max_offset > 0 THEN bbt_nand_copy(o.d, dest, src, max_offset) ELSE {o}})
=============================================================================
