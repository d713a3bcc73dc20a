------------------------------ MODULE MCAg71xx ------------------------------
EXTENDS Ag71xx

Chip == [tx_size |-> 4, split |-> 0, fast_reset |-> TRUE, tx_hang_workaround |-> TRUE, lens |-> {5}, frames |-> FALSE,
         links |-> 1, hangs |-> 0, ooms |-> 0, closes |-> 0, undisturbed |-> FALSE]
Ar7100 == [Chip EXCEPT !.tx_size = 8, !.split = 16, !.fast_reset = FALSE, !.tx_hang_workaround = FALSE, !.lens = {5, 17, 20}]

\* Rings, chips and what happens to them.
Surroundings ==
    {[Ar7100 EXCEPT !.lens = {5, 17}],
     [Ar7100 EXCEPT !.links = 3, !.lens = {17}],
     [Ar7100 EXCEPT !.hangs = 1, !.lens = {17}],
     [Chip EXCEPT !.links = 3],
     [Chip EXCEPT !.frames = TRUE, !.tx_size = 2],
     [Chip EXCEPT !.frames = TRUE, !.lens = {}, !.ooms = 1, !.links = 3],
     [Chip EXCEPT !.frames = TRUE, !.lens = {}, !.ooms = 1, !.closes = 1, !.links = 2],
     [Chip EXCEPT !.hangs = 2, !.links = 2, !.undisturbed = TRUE],
     [Chip EXCEPT !.hangs = 1, !.ooms = 1, !.undisturbed = TRUE]}

\* Memory that stays short.
Short == {[Chip EXCEPT !.frames = TRUE, !.lens = {}, !.ooms = 2]}
=============================================================================
