------------------------------ MODULE MtkBmtBbt ------------------------------
(***************************************************************************)
(* The oldest scheme of MediaTek devices (mtk_bmt_bbt.c): the boot loader  *)
(* leaves a table of bad blocks in one of the last blocks of the chip, and *)
(* the good blocks of a range stand, in order, for its blocks.             *)
(***************************************************************************)
EXTENDS MtkBmtNand

CONSTANT BbtBlock  \* where the boot loader left the table, with the factory bad blocks

\* In memory: bad (bbt_buf), at (bmt_blk_idx).
IsBbt(v) == v \notin {Blank, Junk, Torn} \cup Val


\* get_mapping_block_index_bbt() for a block of the range start .. end - 1: the
\* good blocks come first; the bad ones stand for the blocks that overflow.  In
\* an empty range a block stands for itself.
Mapped(bad, block, start, end) ==
    LET ofs == block - start
        good == (start .. end - 1) \ bad
        over == ofs - Cardinality(good)
        spoilt == (start .. end - 1) \cap bad
    IN  IF ofs < Cardinality(good)
        THEN CHOOSE b \in good : Cardinality({c \in good : c < b}) = ofs
        ELSE IF over < Cardinality(spoilt)
        THEN CHOOSE b \in spoilt : Cardinality({c \in spoilt : c < b}) = over
        ELSE block

\* bbt_set_block_state()
Saved(d) ==
    Then(bbt_nand_erase(d, d.m.at), LAMBDA o :
      {w.d : w \in nand_write(o.d, o.d.m.at, 1, [bad |-> o.d.m.bad])})

remap_block_bbt(d, block, mapped_blk, copy_len, start, end) ==
    Then(Saved([d EXCEPT !.m.bad = @ \cup {mapped_blk}]), LAMBDA e :
      {Out(o.d, TRUE) : o \in Moved(e, Mapped(e.m.bad, block, start, end), mapped_blk, copy_len)})

unmap_block_bbt(d, block) == Saved([d EXCEPT !.m.bad = @ \ {block}])

\* mtk_bmt_debug_bbt(), value 100: the table is written to the last block.
mtk_bmt_debug_bbt(d) == Saved([d EXCEPT !.m.at = Total - 1])

\* mtk_bmt_read_bbt(): the first of the last five blocks with a table
mtk_bmt_init_bbt(d) ==
    LET held == {b \in Total - 5 .. Total - 1 : b \notin d.mark /\ IsBbt(d.cell[b][1])}
        at == Max(held)
    IN  {IF held = {} THEN Out(d, FALSE)
         ELSE Out([d EXCEPT !.m = [bad |-> d.cell[at][1].bad, at |-> at]], TRUE)}
=============================================================================
