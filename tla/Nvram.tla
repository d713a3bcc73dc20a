-------------------------------- MODULE Nvram --------------------------------
(***************************************************************************)
(* The nvram command and its library (package/utils/nvram).  Variables     *)
(* live in an MTD partition.  An invocation that writes copies the         *)
(* partition to a staging file in /tmp, maps that file, loads it into a    *)
(* hash table, applies its arguments to the table and regenerates the      *)
(* image in the mapping; "commit" then copies the staging file back and    *)
(* removes it.                                                             *)
(*                                                                         *)
(* Sizes are bytes: the image starts with a header of Hdr bytes, a         *)
(* variable takes strlen(name) + 1 + strlen(value) + 1.  The image is the  *)
(* sequence of its variables with the length and the SDRAM words of the    *)
(* header.  The magic is taken to be at offset 0.  Any call into the       *)
(* kernel may fail; two results are not looked at, those of the write() to *)
(* the staging file and of the write() to the partition.                   *)
(***************************************************************************)
EXTENDS Integers, Sequences, FiniteSets

CONSTANTS
    Var,       \* the names that callers set, the SDRAM names aside
    Sdram,     \* <<sdram_init, sdram_config, sdram_refresh, sdram_ncdl>>
    Val,       \* strings
    Word,      \* the words of the header
    DefaultWord, \* SDRAM_INIT and its like
    Fmt,       \* sprintf: the string of a word
    Num,       \* strtoul: the word a string stands for
    Width,     \* strlen of a name or a string
    Bucket,    \* hash() of a name
    Buckets,   \* the size of the hash table
    Hdr,       \* sizeof(nvram_header_t)
    PartSize,  \* nvram_part_size
    Short,     \* the lengths a full /tmp can leave the staging file with
    FlashInit, \* the images the partition can hold at first
    Commands,  \* the command lines that are used
    MaxFaults, \* bound: failing system calls
    MaxReboots, \* bound: reboots
    None

Special == {Sdram[i] : i \in DOMAIN Sdram}
Name == Var \cup Special

ASSUME NvramAssumption ==
    /\ Sdram \in Seq(Special) /\ Var \cap Special = {} /\ None \notin Val
    /\ DefaultWord \in Word /\ Fmt \in [Word -> Val] /\ Num \in [Val -> Word]
    /\ Width \in [Name \cup Val -> Nat]
    /\ \A w \in Word : Num[Fmt[w]] = w /\ Width[Fmt[w]] < Hdr
    /\ Buckets \in Nat \ {0} /\ Bucket \in [Name -> 1 .. Buckets]
    /\ Hdr \in Nat \ {0} /\ Hdr % 4 = 0 /\ PartSize \in Nat /\ PartSize % 4 = 0
    /\ PartSize >= Hdr + 4
    /\ Short \subseteq 0 .. PartSize - 1
    /\ MaxFaults \in Nat /\ MaxReboots \in Nat

Tuple == [name : Name, value : Val]
\* The image of a partition or of a staging file: the file's size, the header's
\* length and words, the variables, and whether it is one that was written
\* whole, one that an unfinished write left behind, or has no magic.
Image == [size : 0 .. PartSize, len : 0 .. PartSize, hdr : [Special -> Word], tuples : Seq(Tuple),
          body : {"whole", "torn", "blank"}]
\* An argument: "set name=value", or "unset name" when the value is None.
Arg == [name : Name, value : Val \cup {None}]
\* A command line: whether its first word makes it open the staging file, what
\* it sets and unsets, whether "commit" is among its words, and whether it was
\* done to its end.  main() stops at a word it does not know and at one without
\* the argument it needs; `args' and `commit' are then those before it.
Command == [write : BOOLEAN, args : Seq(Arg), commit : BOOLEAN, done : BOOLEAN]

ASSUME CommandAssumption == Commands \subseteq Command

\* None is none of the images and no exit status.
ASSUME NoneAssumption == None \notin Image /\ None # 0

VARIABLES
    flash,    \* the partition: an image
    staging,  \* /tmp/.nvram: an image, or None
    pc,       \* how far the invocation is
    cmd,      \* its command line
    table,    \* its hash table
    size,     \* the length of its mapping
    stat,     \* its exit status, None while it runs
    lost,     \* history: its write() to the partition failed
    faults,
    reboots

vars == <<flash, staging, pc, cmd, table, size, stat, lost, faults, reboots>>
------------------------------------------------------------------------------
(* The image and the hash table.                                           *)

Bytes(t) == Width[t.name] + 1 + Width[t.value] + 1

\* Where the tuples of an image end, the header being number 0.
EndOf(tuples) ==
    LET end[i \in 0 .. Len(tuples)] == IF i = 0 THEN Hdr ELSE end[i - 1] + Bytes(tuples[i])
    IN  end

\* Where _nvram_rehash() stops in a mapping of `length' bytes: at the header's
\* length, or at the end of the mapping if that does not fit it.
Limit(img, length) == IF img.len \in Hdr .. length THEN img.len ELSE length

\* The last of a set of positions.
LastOf(S) == CHOOSE i \in S : \A j \in S : i >= j

\* The tuples it finds, those before the first that does not end there.
Parsed(img, length) ==
    SubSeq(img.tuples, 1, LastOf({0} \cup {i \in DOMAIN img.tuples : EndOf(img.tuples)[i] <= Limit(img, length)}))

\* Before the first command the partition holds an image that the loader reads
\* completely ...
ASSUME FlashAssumption ==
    \A img \in FlashInit :
        img \in Image /\ img.size = PartSize /\ img.body = "whole" /\ Parsed(img, PartSize) = img.tuples

\* ... and in which the variables of the SDRAM words, where there are any, have
\* the values of the words.
ASSUME WordsAssumption ==
    \A img \in FlashInit : \A i \in DOMAIN img.tuples :
        LET t == img.tuples[i] IN t.name \in Special => Num[t.value] = img.hdr[t.name]

Indices(chain, n) == {i \in DOMAIN chain : chain[i].name = n}

nvram_get(h, n) ==
    LET chain == h[Bucket[n]]
    IN  IF Indices(chain, n) = {} THEN None
        ELSE chain[CHOOSE i \in Indices(chain, n) : TRUE].value

\* A value longer than the area is refused.
_nvram_realloc(v, length) == Width[v] + 1 <= length

\* Mutant: a new tuple replaces the chain.
nvram_set_Unlinks(h, n, v, length) ==
    [h EXCEPT ![Bucket[n]] = <<[name |-> n, value |-> v]>>]

nvram_set(h, n, v, length) ==
    LET chain == h[Bucket[n]]
        t     == [name |-> n, value |-> v]
    IN  IF ~_nvram_realloc(v, length) THEN h
        ELSE [h EXCEPT ![Bucket[n]] =
                IF Indices(chain, n) = {} THEN <<t>> \o chain
                ELSE [i \in DOMAIN chain |-> IF chain[i].name = n THEN t ELSE chain[i]]]

Unlink(chain, i) == [j \in 1 .. Len(chain) - 1 |-> IF j < i THEN chain[j] ELSE chain[j + 1]]

nvram_unset(h, n) ==
    LET chain == h[Bucket[n]]
    IN  IF Indices(chain, n) = {} THEN h
        ELSE [h EXCEPT ![Bucket[n]] = Unlink(chain, CHOOSE i \in Indices(chain, n) : TRUE)]

\* The loop of _nvram_rehash() over the tuples, from an empty table.
Loaded(tuples, length) ==
    LET h[i \in 0 .. Len(tuples)] ==
          IF i = 0 THEN [b \in 1 .. Buckets |-> <<>>]
          ELSE nvram_set(h[i - 1], tuples[i].name, tuples[i].value, length)
    IN  h[Len(tuples)]

\* A word of the header becomes a variable unless the image has that variable.
SetWord(h, n, w, length) ==
    IF nvram_get(h, n) # None THEN h ELSE nvram_set(h, n, Fmt[w], length)

WithWords(found, hdr, length) ==
    LET h[i \in 0 .. Len(Sdram)] ==
          IF i = 0 THEN found ELSE SetWord(h[i - 1], Sdram[i], hdr[Sdram[i]], length)
    IN  h[Len(Sdram)]

\* Mutant: the words of the header are not loaded.
_nvram_rehash_NoWords(img, length) == Loaded(Parsed(img, length), length)

_nvram_rehash(img, length) == WithWords(Loaded(Parsed(img, length), length), img.hdr, length)

\* The body of the loop of nvram_commit() over one chain, which it leaves at the
\* first tuple that does not fit before `end'.
EmitTuple(o, t, end) ==
    IF o.full \/ o.ptr + Bytes(t) > end
    THEN [ptr |-> o.ptr, tuples |-> o.tuples, full |-> TRUE]
    ELSE [ptr |-> o.ptr + Bytes(t), tuples |-> Append(o.tuples, t), full |-> FALSE]

EmitChain(out, chain, end) ==
    LET o[i \in 0 .. Len(chain)] ==
          IF i = 0 THEN [ptr |-> out.ptr, tuples |-> out.tuples, full |-> FALSE]
          ELSE EmitTuple(o[i - 1], chain[i], end)
    IN  o[Len(chain)]

EmitAll(h, end) ==
    LET o[b \in 0 .. Buckets] ==
          IF b = 0 THEN [ptr |-> Hdr, tuples |-> <<>>, full |-> FALSE]
          ELSE EmitChain(o[b - 1], h[b], end)
    IN  o[Buckets]

\* Mutant: no space left for the double NUL.
Emit_NoNul(h, length) == EmitAll(h, length)

\* The double NUL has to fit behind the tuples.
Emit(h, length) == EmitAll(h, length - 2)

\* NVRAM_ROUNDUP(ptr - header, 4) after the double NUL.
NewLen(ptr) == ((ptr + 2 + 3) \div 4) * 4

SdramWords(h) ==
    IF \A n \in Special : nvram_get(h, n) # None
    THEN [n \in Special |-> Num[nvram_get(h, n)]]
    ELSE [n \in Special |-> DefaultWord]

\* The image nvram_commit() leaves in a mapping of `length' bytes; the file
\* keeps its size.
Regenerated(h, length, old) ==
    LET out == Emit(h, length)
    IN  [size |-> old.size, len |-> NewLen(out.ptr), hdr |-> SdramWords(h), tuples |-> out.tuples,
         body |-> "whole"]
------------------------------------------------------------------------------
Exit(s) == pc' = "idle" /\ stat' = s /\ table' = None /\ UNCHANGED <<cmd, size>>

\* The exit status of an invocation that got past nvram_open().
Status(s) == IF cmd.done THEN s ELSE 1

Fault == faults < MaxFaults /\ faults' = faults + 1

\* Mutant: a staging file that is there is made again.
main_Recopies ==
    /\ pc = "idle"
    /\ cmd' \in Commands
    /\ pc' = IF cmd'.write THEN "to_staging" ELSE "open"
    /\ stat' = None /\ lost' = FALSE
    /\ UNCHANGED <<flash, staging, table, size, faults, reboots>>

\* main(): a command line that writes opens the staging file, making it first if
\* it is not there; the others open the staging file or the partition to read.
main ==
    /\ pc = "idle"
    /\ cmd' \in Commands
    /\ pc' = IF cmd'.write /\ staging = None THEN "to_staging" ELSE "open"
    /\ stat' = None /\ lost' = FALSE
    /\ UNCHANGED <<flash, staging, table, size, faults, reboots>>

\* nvram_to_staging(): the result of write() is not looked at, so the file can be
\* shorter than the partition.
nvram_to_staging ==
    /\ pc = "to_staging"
    /\ \/ /\ staging' = flash
          /\ pc' = "open" /\ UNCHANGED <<cmd, table, size, stat, faults>>
       \/ /\ Fault
          /\ \E n \in Short : staging' = [flash EXCEPT !.size = n]
          /\ pc' = "open" /\ UNCHANGED <<cmd, table, size, stat>>
       \/ Fault /\ Exit(1) /\ UNCHANGED staging
    /\ UNCHANGED <<flash, lost, reboots>>

\* What nvram_open() maps, and whether it accepts it.
Opened == IF staging # None THEN staging ELSE flash
Length(img) == (img.size \div 4) * 4
Accepted(img, write) ==
    Length(img) >= Hdr + 4 /\ img.body # "blank" /\ (write => img.len < Length(img))

nvram_open ==
    /\ pc = "open"
    /\ \/ /\ Accepted(Opened, cmd.write)
          /\ size' = Length(Opened)
          /\ table' = _nvram_rehash(Opened, size')
          /\ pc' = "args" /\ UNCHANGED <<cmd, stat, faults>>
       \/ ~Accepted(Opened, cmd.write) /\ Exit(1) /\ UNCHANGED faults
       \/ Fault /\ Exit(1)
    /\ UNCHANGED <<flash, staging, lost, reboots>>

\* The loop of main() over the arguments; they change the table only.
ApplyArg(h, a, length) ==
    IF a.value = None THEN nvram_unset(h, a.name) ELSE nvram_set(h, a.name, a.value, length)

Applied(h, args, length) ==
    LET g[i \in 0 .. Len(args)] == IF i = 0 THEN h ELSE ApplyArg(g[i - 1], args[i], length)
    IN  g[Len(args)]

\* A word that is not understood ends the loop and makes the exit status 1; what
\* came before it is carried out all the same.
do_args ==
    /\ pc = "args"
    /\ table' = Applied(table, cmd.args, size)
    /\ pc' = IF cmd.write THEN "commit" ELSE IF cmd.commit THEN "to_flash" ELSE "close"
    /\ UNCHANGED <<flash, staging, cmd, size, stat, lost, faults, reboots>>

\* nvram_commit(): regenerate the mapping, reload the table from it.
nvram_commit ==
    /\ pc = "commit"
    /\ staging' = Regenerated(table, size, staging)
    /\ table' = _nvram_rehash(staging', size)
    /\ pc' = IF cmd.commit THEN "to_flash" ELSE "close"
    /\ UNCHANGED <<flash, cmd, size, stat, lost, faults, reboots>>

\* The status of an invocation that only reads is that of its last word.
nvram_close ==
    /\ pc = "close"
    /\ \E s \in IF cmd.write THEN {0} ELSE {0, 1, -12} : Exit(Status(s))
    /\ UNCHANGED <<flash, staging, lost, faults, reboots>>

\* What a write() of a new image to the partition leaves there if it does not
\* get to its end: the old image, an erased partition, or the new header with
\* some of the new variables in front of what is left of the old ones.
Unfinished(old, new) ==
    {old, [new EXCEPT !.tuples = <<>>, !.body = "blank"]}
    \cup {[new EXCEPT !.tuples = SubSeq(new.tuples, 1, i) \o SubSeq(old.tuples, i + 1, Len(old.tuples)),
                      !.body = "torn"] : i \in 0 .. Len(new.tuples)}

\* Mutant: the length read() returns is not compared.
WholeStaging_Any == staging # None

\* staging_to_nvram(): only a staging file of the size of the partition is
\* written back.
WholeStaging == staging # None /\ staging.size = PartSize

\* Mutant: a staging file that is too short is not an error.
staging_to_nvram_Quiet ==
    /\ pc = "to_flash"
    /\ \/ /\ WholeStaging
          /\ flash' = staging /\ pc' = "unlink" /\ UNCHANGED <<cmd, table, size, stat, lost, faults>>
       \/ /\ WholeStaging /\ Fault
          /\ flash' \in Unfinished(flash, staging) /\ lost' = TRUE
          /\ pc' = "unlink" /\ UNCHANGED <<cmd, table, size, stat>>
       \/ ~WholeStaging /\ Exit(Status(0)) /\ UNCHANGED <<flash, lost, faults>>
       \/ Fault /\ Exit(Status(-1)) /\ UNCHANGED <<flash, lost>>
    /\ UNCHANGED <<staging, reboots>>

\* A failing open() or read() is an error; the result of write() is not looked
\* at, and the staging file goes whatever it was.
staging_to_nvram ==
    /\ pc = "to_flash"
    /\ \/ /\ WholeStaging
          /\ flash' = staging /\ pc' = "unlink" /\ UNCHANGED <<cmd, table, size, stat, lost, faults>>
       \/ /\ WholeStaging /\ Fault
          /\ flash' \in Unfinished(flash, staging) /\ lost' = TRUE
          /\ pc' = "unlink" /\ UNCHANGED <<cmd, table, size, stat>>
       \/ ~WholeStaging /\ Exit(Status(-1)) /\ UNCHANGED <<flash, lost, faults>>
       \/ Fault /\ Exit(Status(-1)) /\ UNCHANGED <<flash, lost>>
    /\ UNCHANGED <<staging, reboots>>

unlink ==
    /\ pc = "unlink"
    /\ \/ staging' = None /\ Exit(Status(0)) /\ UNCHANGED faults
       \/ Fault /\ UNCHANGED staging /\ Exit(1)
    /\ UNCHANGED <<flash, lost, reboots>>

\* /tmp does not survive a reboot, and neither do processes; a power loss can
\* come while the partition is being written.
Reboot ==
    /\ reboots < MaxReboots /\ reboots' = reboots + 1
    /\ \/ flash' = flash
       \/ pc = "to_flash" /\ WholeStaging /\ flash' \in Unfinished(flash, staging)
    /\ staging' = None /\ pc' = "idle" /\ table' = None /\ lost' = FALSE
    /\ UNCHANGED <<cmd, size, stat, faults>>

Init ==
    /\ flash \in FlashInit /\ staging = None /\ lost = FALSE /\ faults = 0 /\ reboots = 0
    /\ pc = "idle" /\ table = None /\ size = 0 /\ stat = 0
    /\ cmd = [write |-> FALSE, args |-> <<>>, commit |-> FALSE, done |-> TRUE]

Next ==
    \/ main \/ nvram_to_staging \/ nvram_open \/ do_args \/ nvram_commit
    \/ nvram_close \/ staging_to_nvram \/ unlink \/ Reboot

Spec == Init /\ [][Next]_vars
------------------------------------------------------------------------------
TypeOK ==
    /\ flash \in Image /\ staging \in Image \cup {None}
    /\ pc \in {"idle", "to_staging", "open", "args", "commit", "close", "to_flash", "unlink"}
    /\ cmd \in Command /\ size \in 0 .. PartSize /\ stat \in {0, 1, -1, -12, None} /\ lost \in BOOLEAN
    /\ table \in [1 .. Buckets -> Seq(Tuple)] \cup {None}
    /\ faults \in 0 .. MaxFaults /\ reboots \in 0 .. MaxReboots

\* The variables an image stands for: the last tuple of a name that
\* _nvram_rehash() reaches counts.
Tuples(img, v) ==
    {i \in DOMAIN img.tuples : img.tuples[i].name = v /\ EndOf(img.tuples)[i] <= Limit(img, Length(img))}
View(img) ==
    [v \in Var |-> IF Tuples(img, v) = {} THEN None ELSE img.tuples[LastOf(Tuples(img, v))].value]

\* The hash table an invocation works on answers what the image says, whatever
\* chains the names share and in whatever order earlier invocations wrote them.
TableFaithful == pc = "args" => \A v \in Var : nvram_get(table, v) = View(Opened)[v]

\* What a caller can rely on: nothing while the partition holds less than a whole
\* image or the write() of the last invocation failed, on what is saved while the
\* staging file is one that a full /tmp cut short, else on everything.
Trust ==
    IF flash.body # "whole" \/ lost THEN "none"
    ELSE IF staging # None /\ staging.size < PartSize THEN "saved" ELSE "full"

\* The command is the store of NvramStore: the arguments up to the first that
\* main() does not understand take effect together when the staging image is
\* regenerated, the partition changes only by a commit and only to what readers
\* already see, a reboot at any point goes back to it, and an invocation that
\* fails before it regenerates the image changes nothing, unless a full /tmp
\* cuts the staging file short; that never reaches the partition.  The promise
\* ends where a write() to the partition fails and comes back with the next whole one.
Store == INSTANCE NvramStore WITH current <- View(Opened), saved <- View(flash), trust <- Trust, Unset <- None,
                             Arguments <- {c.args : c \in {d \in Commands : d.write}}
StoreSpec == Store!Spec

\* The partition is never overwritten by a staging file that a full /tmp cut
\* short, and unless a write() to it did not get to its end, it holds no
\* image whose variables the loader would not all find again.
ReadableFlash ==
    flash.size = PartSize /\ (flash.body = "whole" => Len(Parsed(flash, PartSize)) = Len(flash.tuples))

\* The exit status of a command line that starts with set or unset and contains
\* commit: on 0 the partition has the last value given to every variable named.
\* The one failure that does not show in it is that of write() to the partition.
SavedOnSuccess ==
    [][ (cmd.write /\ cmd.commit /\ stat = None /\ stat' = 0 /\ ~lost)
        => \A i \in DOMAIN cmd.args :
             (cmd.args[i].name \in Var /\ \A j \in i + 1 .. Len(cmd.args) : cmd.args[j].name # cmd.args[i].name)
             => View(flash')[cmd.args[i].name] = cmd.args[i].value ]_vars

\* The SDRAM words of the header, which the boot loader uses to start the memory,
\* are carried through variables of the same names and back: they stay as they
\* are however often other variables are changed, even if a full area drops
\* the variables that carry them or an image is written in part, unless the
\* partition ends up erased.
SdramKept ==
    [][ (\A c \in Commands : \A i \in DOMAIN c.args : c.args[i].name \in Var)
        => /\ flash'.body # "blank" => flash'.hdr = flash.hdr
           /\ staging' # None => staging'.hdr = flash.hdr ]_vars
==============================================================================
