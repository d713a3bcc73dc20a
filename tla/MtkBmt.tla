------------------------------- MODULE MtkBmt -------------------------------
(***************************************************************************)
(* Bad block management of MediaTek devices: the mtd operations that       *)
(* mtk_bmt.c puts in front of those of the chip, its debugfs files, and    *)
(* attaching at boot.  The scheme that maps blocks is one of mtk_bmt_v2.c, *)
(* mtk_bmt_nmbm.c and mtk_bmt_bbt.c.  An operation runs to its end, or to  *)
(* a power cut; the code has no lock of its own.                           *)
(***************************************************************************)
EXTENDS MtkBmtV2, MtkBmtNmbm, MtkBmtBbt

CONSTANTS
    Logical,  \* blocks of the mtd device
    Flips,    \* blocks that can have more bitflips than the threshold
    Devices   \* the devices and what befalls them

\* backend: the scheme the device tree asks for; ranges: mediatek,bmt-remap-range,
\* pairs of first block and end, {} if not given; force: mediatek,bmt-force-create;
\* used: the blocks that are read
\* and written; pages: how far they are written; debug: whether the debugfs files
\* are used; boots bounds the boots; the rest is explained in MtkBmtNand.
ASSUME BmtAssumption ==
    \A e \in Devices :
      /\ e.backend \in {"v2", "nmbm", "bbt"} /\ e.used \subseteq 0 .. Logical - 1
      /\ e.pages \in Page /\ e.debug \in BOOLEAN /\ e.force \in BOOLEAN /\ e.boots \in Nat
      /\ e.faults \in Nat /\ e.cuts \in Nat

VARIABLES
    dev,    \* the chip and the driver's memory
    up,     \* the driver is attached
    wrote,  \* what the users of a block count on; None if they were told of an error
    boots
vars == <<dev, up, wrote, boots>>

MAX_RETRY == 10

\* mapping_block_in_range(): the range of a block, as mtk_bmt_bbt.c uses it.  Without
\* ranges the end is a number of blocks and not an address; shifted like one
\* it is 0.
RangeOf(d, block) == IF d.env.ranges = {} THEN <<0, 0>>
                     ELSE CHOOSE r \in d.env.ranges : r[1] <= block /\ block < r[2]
mapping_block_in_range(d, block) ==
    d.env.ranges = {} \/ \E r \in d.env.ranges : r[1] <= block /\ block < r[2]

get_mapping_block(d, block) ==
    CASE d.env.backend = "v2" -> get_mapping_block_index_v2(d, block, mapping_block_in_range(d, block))
      [] d.env.backend = "nmbm" -> get_mapping_block_index_nmbm(d, block)
      [] d.env.backend = "bbt" -> IF mapping_block_in_range(d, block)
                            THEN Mapped(d.m.bad, block, RangeOf(d, block)[1], RangeOf(d, block)[2])
                            ELSE block

mtk_bmt_remap_block(d, block, mapped_block, copy_len) ==
    IF ~mapping_block_in_range(d, block) THEN {Out(d, FALSE)}
    ELSE CASE d.env.backend = "v2" -> remap_block_v2(d, block, mapped_block, copy_len)
           [] d.env.backend = "nmbm" -> remap_block_nmbm(d, block, mapped_block, copy_len)
           [] d.env.backend = "bbt" -> remap_block_bbt(d, block, mapped_block, copy_len,
                                                 RangeOf(d, block)[1], RangeOf(d, block)[2])

unmap_block(d, block) ==
    CASE d.env.backend = "v2" -> unmap_block_v2(d, block)
      [] d.env.backend = "nmbm" -> unmap_block_nmbm(d, block)
      [] d.env.backend = "bbt" -> unmap_block_bbt(d, block)

init(d) ==
    CASE d.env.backend = "v2" -> mtk_bmt_init_v2(d)
      [] d.env.backend = "nmbm" -> nmbm_attach(d)
      [] d.env.backend = "bbt" -> mtk_bmt_init_bbt(d)

\* mtk_bmt_read(): an error is reported even when the retry succeeds; too many
\* bitflips move the block.
RECURSIVE mtk_bmt_read(_, _, _, _)
mtk_bmt_read(d, block, p, retry) ==
    LET cur == get_mapping_block(d, block)
    IN  IF cur < 0 THEN {Out(d, FALSE)}
        ELSE Then(nand_read(d, cur, p), LAMBDA o :
               IF o.ok
               THEN {o} \cup (IF cur \in Flips /\ o.d.on /\ o.d.faults > 0
                              THEN {Out(r.d, TRUE) : r \in mtk_bmt_remap_block(
                                      [o.d EXCEPT !.faults = @ - 1], block, cur, Pages)}
                              ELSE {})
               ELSE Then(mtk_bmt_remap_block(o.d, block, cur, Pages), LAMBDA r :
                      IF r.ok /\ retry < MAX_RETRY
                      THEN {Out(x.d, FALSE) : x \in mtk_bmt_read(r.d, block, p, retry + 1)}
                      ELSE {Out(r.d, FALSE)}))

RECURSIVE mtk_bmt_write(_, _, _, _, _)
mtk_bmt_write(d, block, p, v, retry) ==
    LET cur == get_mapping_block(d, block)
    IN  IF cur < 0 THEN {Out(d, FALSE)}
        ELSE Then(nand_write(d, cur, p, v), LAMBDA o :
               IF o.ok THEN {o}
               ELSE Then(mtk_bmt_remap_block(o.d, block, cur, p - 1), LAMBDA r :
                      IF r.ok /\ retry < MAX_RETRY THEN mtk_bmt_write(r.d, block, p, v, retry + 1)
                      ELSE {Out(r.d, FALSE)}))

RECURSIVE mtk_bmt_mtd_erase(_, _, _)
mtk_bmt_mtd_erase(d, block, retry) ==
    LET cur == get_mapping_block(d, block)
    IN  IF cur < 0 THEN {Out(d, FALSE)}
        ELSE Then(bbt_nand_erase(d, cur), LAMBDA o :
               IF o.ok THEN {o}
               ELSE Then(mtk_bmt_remap_block(o.d, block, cur, 0), LAMBDA r :
                      IF r.ok /\ retry < MAX_RETRY THEN mtk_bmt_mtd_erase(r.d, block, retry + 1)
                      ELSE {Out(r.d, FALSE)}))

RECURSIVE mtk_bmt_block_isbad(_, _, _)
mtk_bmt_block_isbad(d, block, retry) ==
    LET cur == get_mapping_block(d, block)
    IN  IF cur \notin d.mark THEN {d}
        ELSE Then(mtk_bmt_remap_block(d, block, cur, Pages), LAMBDA r :
               IF r.ok /\ retry < MAX_RETRY THEN mtk_bmt_block_isbad(r.d, block, retry + 1)
               ELSE {r.d})

mtk_bmt_block_markbad(d, block) ==
    LET cur == get_mapping_block(d, block)
    IN  IF cur < 0 THEN {d}
        ELSE {nand_markbad(r.d, cur) : r \in mtk_bmt_remap_block(d, block, cur, Pages)}

mtk_bmt_debug_repair(d, block) ==
    LET prev == get_mapping_block(d, block)
    IN  IF prev < 0 THEN {d}
        ELSE Then(unmap_block(d, block), LAMBDA e :
               LET new == get_mapping_block(e, block)
               IN  IF new < 0 \/ new = prev THEN {e}
                   ELSE {o.d : o \in Moved(e, new, prev, Pages)})

mtk_bmt_debug_mark_bad(d, block) ==
    LET cur == get_mapping_block(d, block)
    IN  IF cur < 0 THEN {d} ELSE {r.d : r \in mtk_bmt_remap_block(d, block, cur, Pages)}

mtk_bmt_debug(d) ==
    CASE d.env.backend = "v2" -> mtk_bmt_debug_v2(d)
      [] d.env.backend = "nmbm" -> {d}
      [] d.env.backend = "bbt" -> mtk_bmt_debug_bbt(d)
----------------------------------------------------------------------------
\* The driver works: it has power, is attached and its table is somewhere.
Alive == dev.on /\ up /\ (dev.env.backend = "v2" => dev.m.idx # Fatal)

Promise(b, pages) == wrote' = [wrote EXCEPT ![b] = pages]

Read(b, p) ==
    /\ Alive
    /\ \E o \in mtk_bmt_read(dev, b, p, 0) :
         /\ dev' = o.d
         /\ Promise(b, IF o.ok THEN wrote[b] ELSE Filled(None))
    /\ UNCHANGED <<up, boots>>

\* The pages of a block are written in order; after an error or a power cut the
\* block is erased first.
Write(b, p, v) ==
    /\ Alive
    /\ \A q \in Page : wrote[b][q] \in (IF q < p THEN Val ELSE {Blank})
    /\ \E o \in mtk_bmt_write(dev, b, p, v, 0) :
         /\ dev' = o.d
         /\ Promise(b, [wrote[b] EXCEPT ![p] = IF o.ok /\ o.d.on THEN v ELSE None])
    /\ UNCHANGED <<up, boots>>

Erase(b) ==
    /\ Alive
    /\ \E o \in mtk_bmt_mtd_erase(dev, b, 0) :
         /\ dev' = o.d
         /\ Promise(b, IF o.ok /\ o.d.on THEN Filled(Blank) ELSE Filled(None))
    /\ UNCHANGED <<up, boots>>

IsBad(b) ==
    /\ Alive
    /\ dev' \in mtk_bmt_block_isbad(dev, b, 0)
    /\ UNCHANGED <<up, wrote, boots>>

\* Who marks a block bad no longer counts on what is in it.
MarkBad(b) ==
    /\ Alive /\ dev.faults > 0
    /\ dev' \in mtk_bmt_block_markbad([dev EXCEPT !.faults = @ - 1], b)
    /\ Promise(b, Filled(None))
    /\ UNCHANGED <<up, boots>>

\* The debugfs files: what becomes of the block itself is left to who uses them.
DebugFile(b) ==
    /\ Alive /\ dev.env.debug /\ dev.faults > 0
    /\ LET d == [dev EXCEPT !.faults = @ - 1]
       IN  dev' \in mtk_bmt_debug_repair(d, b) \cup unmap_block(d, b) \cup mtk_bmt_debug_mark_bad(d, b)
    /\ Promise(b, Filled(None))
    /\ UNCHANGED <<up, boots>>

DebugFree ==
    /\ Alive /\ dev.env.debug
    /\ dev' \in mtk_bmt_debug(dev)
    /\ UNCHANGED <<up, wrote, boots>>

\* mtk_bmt_attach(), at any time: after a power cut or a reboot
Boot ==
    /\ boots < dev.env.boots
    /\ boots' = boots + 1
    /\ \E o \in init([dev EXCEPT !.on = TRUE, !.m = None]) : dev' = o.d /\ up' = (o.ok /\ o.d.on)
    /\ UNCHANGED wrote

\* A new chip; for "bbt", and for "nmbm" if the driver is not to make them, with
\* the tables of the boot loader.
Init ==
    /\ \E e \in Devices :
         /\ dev \in CASE e.backend = "bbt" -> {[Factory_New(e) EXCEPT !.cell[BbtBlock][1] = [bad |-> e.factory]]}
                      [] e.backend = "nmbm" /\ ~e.force -> Formatted(Factory_New(e))
                      [] OTHER -> {Factory_New(e)}
         /\ wrote = [b \in e.used |-> Filled(Blank)]
    /\ up = FALSE
    /\ boots = 0

Next ==
    \/ \E b \in dev.env.used :
         \/ \E p \in 1 .. dev.env.pages : Read(b, p) \/ \E v \in Val : Write(b, p, v)
         \/ Erase(b) \/ IsBad(b) \/ MarkBad(b) \/ DebugFile(b)
    \/ DebugFree
    \/ Boot

Spec == Init /\ [][Next]_vars
----------------------------------------------------------------------------

\* The blocks the scheme keeps its own data in.
Reserved ==
    CASE dev.env.backend = "v2" -> {dev.m.bmt_tbl[dev.m.idx].block}
      [] dev.env.backend = "nmbm" -> {dev.m.main, dev.m.backup, dev.m.sig} \ {0}
      [] dev.env.backend = "bbt" -> {dev.m.at}

\* No two blocks of the device share a block of the chip, and none is where the
\* tables are; unless the debugfs file of version 2 freed the block of block 0.
MapInjective ==
    Alive /\ ~dev.freed => LET pb(b) == get_mapping_block(dev, b)
             IN  \A b \in 0 .. Logical - 1 : pb(b) >= 0 =>
                   pb(b) \notin Reserved /\ \A c \in 0 .. b - 1 : pb(c) # pb(b)

\* Version 2 has no block left for its table: as many as it can pass over are bad,
\* or none of its pool can be written.
PoolGone(d) ==
    d.env.backend = "v2" /\
      LET scan == scan_bad_blocks(d)
      IN  ~scan.ok \/ {scan.m.bmt_tbl[i].block : i \in Entry} \ {0} \subseteq d.worn


----------------------------------------------------------------------------
\* NMBM: either info table alone is enough.  Between operations every info table
\* the driver relies on holds the mapping in use (nmbm_update_info_table()).
InfoTables == {dev.cell[ba][1] : ba \in {dev.m.main, dev.m.backup} \ {0}}
TablesHoldMap ==
    dev.env.backend = "nmbm" /\ Alive /\ ~dev.m.protected =>
      InfoTables # {} /\ \A t \in InfoTables : IsInfoTable(t) /\ t.map = dev.m.map

\* NMBM: the areas do not run into each other.  The main table, the backup table,
\* the blocks still free for mapping and the blocks in use for it follow each
\* other, whatever tables were moved, lost and written again.
AreasOrdered ==
    dev.env.backend = "nmbm" /\ Alive /\ ~dev.m.protected =>
      /\ Mgmt <= dev.m.main /\ dev.m.main < dev.m.mba
      /\ dev.m.backup # 0 => dev.m.main < dev.m.backup /\ dev.m.backup < dev.m.mba
      /\ dev.m.mba <= dev.m.top + 1 /\ dev.m.top < dev.m.sig
      /\ \A b \in 0 .. Logical - 1 : dev.m.map[b] < Mgmt \/ dev.m.map[b] > dev.m.top

=============================================================================
