----------------------------- MODULE MtkBmtNmbm -----------------------------
(***************************************************************************)
(* NMBM, the bad block management of newer MediaTek devices                *)
(* (mtk_bmt_nmbm.c).  The management area at the end of the chip holds, in *)
(* this order: the main info table, spare blocks for it, the backup info   *)
(* table, blocks that bad blocks can be mapped to (taken from the top      *)
(* down) and the signature.  An info table holds the states of the blocks, *)
(* the mapping and a write count; it fits one block.                       *)
(*                                                                         *)
(* What the driver has in memory (struct nmbm_instance): bad, the blocks   *)
(* that are not BLOCK_ST_GOOD; map (block_mapping); changed, whether       *)
(* block_state_changed or block_mapping_changed is not 0; count            *)
(* (write_count); cache (info_table_cache); main, backup, mba and top      *)
(* (main_table_ba, backup_table_ba, mapping_blocks_ba,                     *)
(* mapping_blocks_top_ba); sig (signature_ba); data (data_block_count);    *)
(* protected.                                                              *)
(***************************************************************************)
EXTENDS MtkBmtNand

CONSTANTS
    MaxRatio,     \* mediatek,bmt-max-ratio
    MaxReserved,  \* mediatek,bmt-max-reserved-blocks
    Sig           \* the signature

MGMT_DIV == 16
SPARE_MIN == 2
No == -1

\* nmbm_get_spare_block_count() for the one block of an info table
Spares == Max({(1 + (2 \div 2)) \div 2, SPARE_MIN})

Limited(start) == IF MaxReserved # 0 /\ Total - start > MaxReserved
                  THEN Total - MaxReserved ELSE start
Mgmt == Limited((Total * (MGMT_DIV - MaxRatio)) \div MGMT_DIV)

IsInfoTable(v) == v \notin {Blank, Junk, Torn, Sig} \cup Val

\* nmbm_set_block_state(): a block is bad from now on.
set_bad(d, b) ==
    [d EXCEPT !.m.bad = @ \cup {b}, !.m.changed = @ \/ b \notin d.m.bad]
mark_bad(d, b) == set_bad(nand_markbad(d, b), b)

\* nmbm_block_walk_asc(), nmbm_block_walk_desc(): the good block after count
\* good ones; limit is not reached.
nmbm_block_walk_asc(m, ba, count, limit) ==
    LET good == (ba .. Min({limit, Total - 1}) - 1) \ m.bad
        hit == {b \in good : Cardinality({c \in good : c < b}) = count}
    IN  IF hit = {} THEN No ELSE Min(hit)

nmbm_block_walk_desc(m, ba, count, limit) ==
    LET good == (Min({limit, Total - 1}) + 1 .. ba) \ m.bad
        hit == {b \in good : Cardinality({c \in good : c > b}) = count}
    IN  IF hit = {} THEN No ELSE Min(hit)

\* nmbm_try_reserve_blocks(): count good blocks, or as many as there are
nmbm_try_reserve_blocks(m, ba, limit) ==
    LET fits == {n \in 0 .. Spares : nmbm_block_walk_asc(m, ba, n, limit) # No}
    IN  IF fits = {} THEN No ELSE nmbm_block_walk_asc(m, ba, Max(fits), limit)

nmbm_scan_badblocks(d) ==
    [d EXCEPT !.m.bad = @ \cup d.mark, !.m.changed = @ \/ ~(d.mark \subseteq d.m.bad)]

\* nmbm_build_mapping_table(): the good blocks of the data area in order
nmbm_build_mapping_table(d) ==
    LET good == (0 .. Mgmt - 1) \ d.m.bad
        nth(n) == CHOOSE b \in good : Cardinality({c \in good : c < b}) = n
    IN  [d EXCEPT !.m.data = Cardinality(good),
                  !.m.map = [n \in 0 .. Mgmt - 1 |-> IF n < Cardinality(good) THEN nth(n) ELSE No]]

\* One block written as the signature or an info table is: blocks known or
\* marked bad are passed over, and one that fails is marked.
RECURSIVE write_range(_, _, _, _)
write_range(d, ba, end, v) ==
    LET up == end > ba
        Next_block(e) == write_range(e, IF up THEN ba + 1 ELSE ba - 1, end, v)
    IN  IF ba = end THEN {[d |-> d, at |-> No]}
        ELSE IF ba \in d.m.bad THEN Next_block(d)
        ELSE IF ba \in d.mark THEN Next_block(set_bad(d, ba))
        ELSE Then(bbt_nand_erase(d, ba), LAMBDA o :
               IF ~o.ok THEN Next_block(mark_bad(o.d, ba))
               ELSE Then(nand_write(o.d, ba, 1, v), LAMBDA w :
                      IF w.ok THEN {[d |-> w.d, at |-> ba]} ELSE Next_block(mark_bad(w.d, ba))))

nmbm_write_signature(d) == write_range(d, Total - 1, Mgmt, Sig)

\* nmbm_write_mgmt_range(): to a block from ba up to limit, which is left out
nmbm_write_info_table(d, ba, limit) ==
    IF ba >= limit THEN {[d |-> d, at |-> No]} ELSE write_range(d, ba, limit, d.m.cache)

\* nmbm_erase_range()
RECURSIVE nmbm_erase_range(_, _, _)
nmbm_erase_range(d, ba, limit) ==
    IF ba >= limit THEN {d}
    ELSE IF ba \in d.m.bad THEN nmbm_erase_range(d, ba + 1, limit)
    ELSE IF ba \in d.mark THEN nmbm_erase_range(set_bad(d, ba), ba + 1, limit)
    ELSE Then(bbt_nand_erase(d, ba), LAMBDA o :
           nmbm_erase_range(IF o.ok THEN o.d ELSE mark_bad(o.d, ba), ba + 1, limit))

\* nmbm_generate_info_table_cache(), nmbm_mark_tables_clean()
Generated(d) ==
    LET n == d.m.count + (IF d.m.changed THEN 1 ELSE 0)
    IN  [d EXCEPT !.m.count = n, !.m.cache = [bad |-> d.m.bad, map |-> d.m.map, count |-> n]]
Clean(d) == [d EXCEPT !.m.changed = FALSE]

\* from write_ba down to first: the first place that takes the info table
RECURSIVE write_from(_, _, _)
write_from(d, write_ba, first) ==
    IF write_ba < first THEN {[d |-> d, at |-> No]}
    ELSE Then(nmbm_write_info_table(d, write_ba, d.m.top), LAMBDA w :
           IF w.at # No THEN {w} ELSE write_from(w.d, write_ba - 1, first))

\* nmbm_rebuild_info_table()
nmbm_rebuild_info_table(d0) ==
    LET d == [d0 EXCEPT !.m.main = 0, !.m.backup = 0, !.m.mba = d0.m.top]
    IN  Then(nmbm_write_info_table(d, Mgmt, d.m.top), LAMBDA w :
          IF w.at = No THEN {Out([w.d EXCEPT !.m.protected = TRUE], FALSE)}
          ELSE LET one == Clean([w.d EXCEPT !.m.main = w.at, !.m.mba = w.at + 1])
                   next == nmbm_try_reserve_blocks(one.m, w.at + 1, one.m.top - 1)
               IN  IF next = No THEN {Out(one, TRUE)}
                   ELSE Then(nmbm_write_info_table(one, next, one.m.top), LAMBDA x :
                          IF x.at = No THEN {Out(x.d, TRUE)}
                          ELSE {Out(e, TRUE) : e \in nmbm_erase_range(
                                  [x.d EXCEPT !.m.backup = x.at, !.m.mba = x.at + 1],
                                  w.at + 1, x.at)}))

\* nmbm_rescue_single_info_table(): a second table, in front of the only one
\* or behind it
nmbm_rescue_single_info_table(d) ==
    Then(nmbm_write_info_table(d, Mgmt, d.m.main), LAMBDA w :
      IF w.at # No
      THEN {Out(e, TRUE) : e \in nmbm_erase_range(
              Clean([w.d EXCEPT !.m.backup = w.d.m.main, !.m.main = w.at]), w.at + 1, w.d.m.main)}
      ELSE LET next == nmbm_try_reserve_blocks(w.d.m, w.d.m.mba, w.d.m.top - 1)
           IN  IF next = No THEN {Out(w.d, FALSE)}
               ELSE Then(write_from(w.d, next, w.d.m.mba), LAMBDA x :
                      IF x.at = No THEN {Out(x.d, FALSE)}
                      ELSE {Out(Clean([e EXCEPT !.m.backup = x.at, !.m.mba = x.at + 1]), TRUE)
                            : e \in nmbm_erase_range(x.d, x.d.m.mba, x.at)}))

\* nmbm_update_single_info_table()
nmbm_update_single_info_table(d, main) ==
    Then(nmbm_write_info_table(d, IF main THEN d.m.main ELSE d.m.backup,
                                  IF main THEN d.m.backup ELSE d.m.top), LAMBDA w :
      IF w.at # No
      THEN {Out(Clean(IF main THEN [w.d EXCEPT !.m.main = w.at]
                      ELSE [w.d EXCEPT !.m.backup = w.at, !.m.mba = w.at + 1]), TRUE)}
      ELSE IF main
      THEN nmbm_rescue_single_info_table([w.d EXCEPT !.m.main = w.d.m.backup, !.m.backup = 0])
      ELSE {Out([w.d EXCEPT !.m.mba = w.d.m.backup, !.m.backup = 0], FALSE)})

\* nmbm_rescue_main_info_table(): a temporary table behind the backup, a main
\* table from the start of the area, and the temporary one becomes the backup
\* (what follows in the code, for a main table that ran into it, is not reached)
nmbm_rescue_main_info_table(d) ==
    LET Only(e, at) == [e EXCEPT !.m.main = at, !.m.backup = 0]
        tmp == nmbm_try_reserve_blocks(d.m, d.m.mba, d.m.top - 1)
    IN  IF tmp = No THEN {Out(Only(d, d.m.backup), TRUE)}
        ELSE Then(write_from(d, tmp, d.m.mba), LAMBDA x :
               IF x.at = No THEN {Out(Only(x.d, x.d.m.backup), TRUE)}
               ELSE Then(nmbm_write_info_table([x.d EXCEPT !.m.mba = x.at + 1], Mgmt, x.at),
                    LAMBDA w :
                      {Out(Clean(IF w.at = No THEN Only(w.d, x.at)
                                 ELSE [w.d EXCEPT !.m.main = w.at, !.m.backup = x.at]), TRUE)}))

\* nmbm_update_info_table_once(): the backup table, then the main one
write_main_table(d, limit) ==
    IF d.m.main = 0 THEN nmbm_rebuild_info_table(d)
    ELSE Then(nmbm_write_info_table(d, d.m.main, limit), LAMBDA w :
           IF w.at = No
           THEN IF w.d.m.backup = 0 THEN nmbm_rebuild_info_table(w.d)
                ELSE nmbm_rescue_main_info_table(w.d)
           ELSE {Out(Clean([w.d EXCEPT !.m.main = w.at,
                              !.m.mba = IF w.d.m.backup = 0 THEN w.at + 1 ELSE @]), TRUE)})

nmbm_update_info_table_once_BackupOnly(d0) ==
    LET d == Generated(d0)
    IN  IF ~d.m.changed THEN {Out(d, TRUE)}
        ELSE IF d.m.backup = 0 THEN write_main_table(d, d.m.top)
        ELSE Then(nmbm_write_info_table(d, d.m.backup, d.m.top), LAMBDA w :
               IF w.at = No
               THEN write_main_table([w.d EXCEPT !.m.mba = w.d.m.backup, !.m.backup = 0], w.d.m.top)
               ELSE {Out(Clean([w.d EXCEPT !.m.backup = w.at, !.m.mba = w.at + 1]), TRUE)})

nmbm_update_info_table_once_NoAdjust(d0) ==
    LET d == Generated(d0)
    IN  IF ~d.m.changed THEN {Out(d, TRUE)}
        ELSE IF d.m.backup = 0 THEN write_main_table(d, d.m.top)
        ELSE Then(nmbm_write_info_table(d, d.m.backup, d.m.top), LAMBDA w :
               IF w.at = No
               THEN write_main_table([w.d EXCEPT !.m.mba = w.d.m.backup, !.m.backup = 0], w.d.m.top)
               ELSE write_main_table(Clean([w.d EXCEPT !.m.backup = w.at]), w.at))

nmbm_update_info_table_once(d0) ==
    LET d == Generated(d0)
    IN  IF ~d.m.changed THEN {Out(d, TRUE)}
        ELSE IF d.m.backup = 0 THEN write_main_table(d, d.m.top)
        ELSE Then(nmbm_write_info_table(d, d.m.backup, d.m.top), LAMBDA w :
               IF w.at = No
               THEN write_main_table([w.d EXCEPT !.m.mba = w.d.m.backup, !.m.backup = 0], w.d.m.top)
               ELSE write_main_table(Clean([w.d EXCEPT !.m.backup = w.at, !.m.mba = w.at + 1]), w.at))

RECURSIVE nmbm_update_info_table(_)
nmbm_update_info_table(d) ==
    IF d.m.protected \/ ~d.m.changed THEN {Out(d, TRUE)}
    ELSE Then(nmbm_update_info_table_once(d), LAMBDA o :
           IF o.ok THEN nmbm_update_info_table(o.d) ELSE {o})

\* nmbm_map_block(): the first good block from the top
nmbm_map_block(d, lb) ==
    LET pb == nmbm_block_walk_desc(d.m, d.m.top, 0, d.m.mba)
    IN  IF d.m.mba = d.m.top THEN {Out(d, FALSE)}
        ELSE IF pb = No
        THEN Then(nmbm_update_info_table(d), LAMBDA o : {Out([o.d EXCEPT !.m.top = o.d.m.mba], FALSE)})
        ELSE {Out([d EXCEPT !.m.map[lb] = pb, !.m.top = @ - 1, !.m.changed = TRUE], TRUE)}

\* nmbm_create_info_table(): both tables; then blocks for the end of the data
\* area, as many as bad blocks were passed over in it
RECURSIVE map_rest(_, _)
map_rest(d, lb) ==
    IF lb >= Mgmt THEN {d}
    ELSE Then(nmbm_map_block(d, lb), LAMBDA o :
           IF o.ok THEN map_rest([o.d EXCEPT !.m.data = @ + 1], lb + 1) ELSE {o.d})

nmbm_create_info_table(d) ==
    LET top == nmbm_block_walk_desc(d.m, d.m.sig, 1, Mgmt)
    IN  IF top = No THEN {Out(d, FALSE)}
        ELSE Then(nmbm_rebuild_info_table(Generated([d EXCEPT !.m.top = top])), LAMBDA o :
               IF ~o.ok THEN {o}
               ELSE Then(map_rest(o.d, o.d.m.data), LAMBDA e : nmbm_update_info_table(e)))

nmbm_create_new(d) ==
    Then(nmbm_write_signature(nmbm_build_mapping_table(nmbm_scan_badblocks(d))), LAMBDA w :
      IF w.at = No THEN {Out(w.d, FALSE)}
      ELSE nmbm_create_info_table([w.d EXCEPT !.m.sig = w.at]))

\* nmbm_check_info_table(): the mapping stays clear of the table and of what is
\* before it, and the table does not say that its own block is bad.
nmbm_check_info_table(m, ba, t) ==
    /\ \A lb \in 0 .. m.data - 1 :
         t.map[lb] # m.sig /\ ~(t.map[lb] >= m.data /\ t.map[lb] <= ba)
    /\ ba \in m.bad \/ ba \notin t.bad

\* the mapping_blocks_top_ba that goes with it
TopOf(m, ba, t) ==
    Min({m.sig} \cup {pb \in {t.map[lb] : lb \in 0 .. m.data - 1} : pb > ba}) - 1

\* nmbm_search_info_table(): from ba on, the first block with an info table that
\* passes the checks (nmbm_try_load_info_table()); a block that cannot be read
\* is bad, in memory only.  It replaces what is loaded if it is newer.
RECURSIVE nmbm_search_info_table(_, _, _, _)
nmbm_search_info_table(d, ba, limit, loaded) ==
    LET t == d.cell[ba][1]
        Next_block(e) == nmbm_search_info_table(e, ba + 1, limit, loaded)
        found == IF ~loaded \/ t.count > d.m.count
                 THEN [d EXCEPT !.m.bad = t.bad, !.m.map = t.map, !.m.count = t.count] ELSE d
    IN  IF ba >= limit - 1 THEN [d |-> d, at |-> 0, count |-> 0, top |-> 0]
        ELSE IF ba \in d.m.bad THEN Next_block(d)
        ELSE IF ba \in d.mark \/ t = Torn THEN Next_block(set_bad(d, ba))
        ELSE IF ~IsInfoTable(t) THEN Next_block(d)
        ELSE IF ~nmbm_check_info_table(d.m, ba, t) THEN Next_block(d)
        ELSE [d |-> found, at |-> ba, count |-> t.count, top |-> TopOf(d.m, ba, t)]

\* nmbm_load_info_table(): the first and the second table; the newer one is
\* used, and the older or missing one written again.
WithTables(one, two) ==
    LET map == two.d.m.map
        e == [two.d EXCEPT !.m.main = one.at, !.m.backup = two.at,
                !.m.top = IF two.at = 0 \/ one.count >= two.count THEN one.top ELSE two.top,
                !.m.mba = IF two.at = 0 THEN one.at + 1 ELSE two.at + 1,
                !.m.data = IF \A i \in 0 .. Mgmt - 1 : map[i] < 0 THEN Mgmt
                           ELSE 1 + Max({i \in 0 .. Mgmt - 1 : map[i] >= 0})]
        ready == Generated(e)
        second == IF two.at = 0 THEN nmbm_rescue_single_info_table(ready)
                  ELSE IF one.count = two.count THEN {Out(ready, TRUE)}
                  ELSE nmbm_update_single_info_table([ready EXCEPT !.m.changed = TRUE],
                                                     one.count < two.count)
    IN  {Out([o.d EXCEPT !.m.protected = @ \/ o.d.m.mba = o.d.m.top \/ ~o.ok], TRUE) : o \in second}


nmbm_load_info_table(d0) ==
    LET d == [d0 EXCEPT !.m.main = 0, !.m.backup = 0, !.m.count = 0, !.m.data = Mgmt]
        one == nmbm_search_info_table(d, Mgmt, d.m.sig, FALSE)
        two == nmbm_search_info_table(one.d, one.at + 1, d.m.sig, TRUE)
    IN  IF one.at = 0 THEN {Out(one.d, FALSE)} ELSE WithTables(one, two)

\* nmbm_load_existing(): without a table there is nothing to attach to, unless
\* the device tree has mediatek,bmt-force-create (env.force).
nmbm_load_existing(d) ==
    Then(nmbm_load_info_table(d), LAMBDA o :
      IF o.ok \/ ~d.env.force THEN {o}
      ELSE nmbm_create_info_table(nmbm_build_mapping_table(nmbm_scan_badblocks(o.d))))

\* nmbm_find_signature(): from the end of the chip
nmbm_find_signature(d) ==
    LET limit == Limited((Total \div MGMT_DIV) * (MGMT_DIV - MaxRatio))
        hit == {b \in limit - 1 .. Total - 1 : b \notin d.mark /\ d.cell[b][1] = Sig}
    IN  IF hit = {} THEN No ELSE Max(hit)

\* mtk_bmt_init_nmbm(), nmbm_attach()
nmbm_init_structure ==
    [bad |-> {}, map |-> [i \in 0 .. Mgmt - 1 |-> 0], changed |-> FALSE, count |-> 0,
     cache |-> None, main |-> 0, backup |-> 0, mba |-> 0, top |-> 0, sig |-> 0, data |-> 0,
     protected |-> FALSE]

nmbm_attach(d0) ==
    LET d == [d0 EXCEPT !.m = nmbm_init_structure]
        sig == nmbm_find_signature(d)
    IN  IF sig # No THEN nmbm_load_existing([d EXCEPT !.m.sig = sig])
        ELSE IF d.env.force THEN nmbm_create_new(d)
        ELSE {Out(d, FALSE)}

\* A chip the boot loader has formatted, as the driver would.
Formatted(d0) ==
    LET d == [d0 EXCEPT !.m = nmbm_init_structure, !.faults = 0, !.cuts = 0]
    IN  {[o.d EXCEPT !.m = None, !.faults = d0.faults, !.cuts = d0.cuts] : o \in nmbm_create_new(d)}


remap_block_nmbm(d, block, mapped_block, copy_len) ==
    IF block >= d.m.data THEN {Out(d, FALSE)}
    ELSE Then(nmbm_map_block(set_bad(d, mapped_block), block), LAMBDA o :
           IF ~o.ok THEN {o}
           ELSE Then(Moved(o.d, o.d.m.map[block], mapped_block, copy_len), LAMBDA c :
                  {Out(u.d, TRUE) : u \in nmbm_update_info_table(c.d)}))

get_mapping_block_index_nmbm(d, block) ==
    IF block >= d.m.data THEN No ELSE d.m.map[block]

\* unmap_block_nmbm(): back to the block at its distance from the last block
\* before it that is not remapped
unmap_block_nmbm(d, block) ==
    LET home == {b \in 0 .. block : d.m.map[b] < d.m.mba}
        start == Max(home)
        new == d.m.map[start] + block - start
        e == [d EXCEPT !.m.bad = @ \ {new}, !.m.map[block] = new, !.m.changed = TRUE]
        remapped == {pb \in {e.m.map[b] : b \in 0 .. e.m.data - 1} : pb >= e.m.mba}
        full == [e EXCEPT !.m.top = Min({e.m.sig - 1} \cup {pb - 1 : pb \in remapped})]
    IN  IF block >= d.m.data \/ home = {} \/ start = block THEN {d}
        ELSE {o.d : o \in nmbm_update_info_table(full)}
=============================================================================
