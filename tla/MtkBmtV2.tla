------------------------------ MODULE MtkBmtV2 ------------------------------
(***************************************************************************)
(* Version 2 of the bad block management (mtk_bmt_v2.c): bb_tbl maps the   *)
(* blocks of the data area, bmt_tbl lists the blocks of the pool behind it *)
(* with what each is used for; both are kept in the last usable block of   *)
(* the pool, in one copy.                                                  *)
(***************************************************************************)
EXTENDS MtkBmtNand

CONSTANTS
    PoolLba,  \* pool_lba: where the pool starts
    Main,     \* blocks of the mtd device; the PMT lies between them and the pool
    BbMax     \* bb_max

\* What the driver has in memory: bb_tbl, bmt_tbl (block and mapped of entry i;
\* block 0 ends the table or is an entry found bad) and idx (bmt_blk_idx), which
\* is -1, that is (u16)-1, when no block could take the table.
Fatal == -1
Entry == 0 .. Total - PoolLba
Table(m) == [bb_tbl |-> m.bb_tbl, bmt_tbl |-> m.bmt_tbl]
IsTable(v) == v \notin {Blank, Junk, Torn} \cup Val

RECURSIVE find_valid_block(_, _, _)
find_valid_block(d, block, loop) ==
    IF block >= Total THEN 0
    ELSE IF d.cell[block][1] # Torn /\ block \notin d.mark THEN block
    ELSE IF loop >= BbMax THEN 0
    ELSE find_valid_block(d, block + 1, loop + 1)

\* scan_bad_blocks(): the good blocks in order fill bb_tbl, then the pool.
scan_bad_blocks(d) ==
    LET bb[i \in 0 .. PoolLba - 1] ==
          IF i = 0 THEN 0
          ELSE LET last == bb[i - 1]
               IN  IF i > 1 /\ last = 0 THEN 0 ELSE find_valid_block(d, last + 1, 0)
        pba == bb[PoolLba - 1] + 1
        pool[i \in Entry] ==
          IF i = 0 THEN find_valid_block(d, pba, 0)
          ELSE LET last == pool[i - 1]
               IN  IF last = 0 THEN 0 ELSE find_valid_block(d, last + 1, 0)
        idx == Cardinality({i \in Entry : pool[i] # 0}) - 1
    IN  [ok |-> (\A i \in 1 .. PoolLba - 1 : bb[i] # 0) /\ pba < Total - 2 /\ idx >= 0,
         m |-> [bb_tbl |-> bb, idx |-> idx,
                bmt_tbl |-> [i \in Entry |-> [block |-> pool[i],
                                              mapped |-> IF i = idx THEN "bmt" ELSE "no"]]]]

\* upload_bmt(): the table goes to entry n, or to the first one before it that
\* can be erased and written.  The mark of the entry stays where it was, so that
\* a table that was moved will not be found (the history variable table).
RECURSIVE upload_bmt(_, _)
upload_bmt(d, n) ==
    LET block == d.m.bmt_tbl[n].block
        Previous(e) == upload_bmt([e EXCEPT !.m.bmt_tbl[n].block = 0,
                                            !.table = @ \cup {"moved"}], n - 1)
    IN  IF n < 0 \/ (n >= 0 /\ d.m.bmt_tbl[n].mapped = "normal")
        THEN {[d EXCEPT !.m.idx = Fatal]}
        ELSE Then(bbt_nand_erase(d, block), LAMBDA o :
               IF ~o.ok THEN Previous(o.d)
               ELSE Then(nand_write(o.d, block, 1, Table(o.d.m)), LAMBDA w :
                      IF ~w.ok THEN Previous(w.d) ELSE {[w.d EXCEPT !.m.idx = n]}))

\* remap_block_v2()
Available(m) == {i \in Entry : i < m.idx /\ m.bmt_tbl[i].block # 0 /\ m.bmt_tbl[i].mapped = "no"}


remap_block_v2(d, block, mapped_block, copy_len) ==
    IF d.m.idx = 0 \/ Available(d.m) = {} THEN {Out(d, FALSE)}
    ELSE LET i == Min(Available(d.m))
             new == d.m.bmt_tbl[i].block
             taken == [d EXCEPT !.m.bmt_tbl[i].mapped = "normal", !.m.bb_tbl[block] = new]
         IN  Then(Moved(taken, new, mapped_block, copy_len), LAMBDA o :
               {Out(e, TRUE) : e \in upload_bmt(o.d, o.d.m.idx)})

get_mapping_block_index_v2(d, block, inRange) ==
    IF block >= PoolLba \/ ~inRange THEN block ELSE d.m.bb_tbl[block]

unmap_block_v2(d, block) ==
    upload_bmt([d EXCEPT !.m.bb_tbl[block] = block], d.m.idx)

\* mtk_bmt_debug_v2(), value 100: pool blocks that no block of the device is
\* mapped to are free again.  The search for those starts at block 1, so that of
\* block 0 becomes free though it is in use (the history variable freed).
mtk_bmt_get_mapping_mask(m) ==
    {k \in Entry : k < m.idx /\ \E i \in 1 .. Main - 1 :
                     m.bb_tbl[i] # i /\ m.bb_tbl[i] = m.bmt_tbl[k].block}

mtk_bmt_debug_v2(d) ==
    LET unused == {i \in Entry : i <= d.m.idx /\ d.m.bmt_tbl[i].mapped = "normal"}
                    \ mtk_bmt_get_mapping_mask(d.m)
        freed == [d EXCEPT !.m.bmt_tbl = [i \in Entry |->
                    IF i \in unused THEN [@[i] EXCEPT !.mapped = "no"] ELSE @[i]],
                           !.freed = @ \/ \E i \in unused : d.m.bb_tbl[0] = d.m.bmt_tbl[i].block]
    IN  IF unused = {} THEN {d} ELSE upload_bmt(freed, freed.m.idx)

get_bmt_index(bmt) ==
    LET hit == {i \in Entry : /\ bmt[i].mapped = "bmt"
                              /\ \A j \in 0 .. i : bmt[j].block # 0}
    IN  IF hit = {} THEN 0 ELSE Min(hit)

\* mtk_bmt_init_v2(): the table in the last block that holds one, or a new one.
\* If the table was moved, that is an old one or a new one.
mtk_bmt_init_v2(d0) ==
    LET d == [d0 EXCEPT !.table = IF "moved" \in @ THEN {"stale"} ELSE @]
        held == {b \in PoolLba .. Total - 1 : IsTable(d.cell[b][1])}
        t == d.cell[Max(held)][1]
        scan == scan_bad_blocks(d)
    IN  IF held # {} /\ get_bmt_index(t.bmt_tbl) # 0
        THEN {Out([d EXCEPT !.m = [bb_tbl |-> t.bb_tbl, bmt_tbl |-> t.bmt_tbl,
                                   idx |-> get_bmt_index(t.bmt_tbl)]], TRUE)}
        ELSE IF ~scan.ok THEN {Out(d, FALSE)}
        ELSE {Out(e, e.m.idx # Fatal) :
              e \in upload_bmt([d EXCEPT !.m = scan.m], scan.m.idx)}
=============================================================================
