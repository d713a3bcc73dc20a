----------------------------- MODULE NvramProofs -----------------------------
(***************************************************************************)
(* Proofs about the steps of an invocation of nvram.  Inv is inductive and *)
(* gives the types, the readable partition and the table that answers what *)
(* the image says; WordsInv gives the SDRAM words.  Room is what the store *)
(* needs besides: where the area is too small for the variables,           *)
(* nvram_commit() drops some without an error.                             *)
(***************************************************************************)
EXTENDS NvramImageProofs

------------------------------------------------------------------------------
(* The invariant.                                                          *)

Readable(img) == Parsed(img, PartSize) = img.tuples

\* The partition has its size, and every image that was written whole is one the
\* loader reads completely when the mapping is as long as the partition.
Images ==
    /\ flash.size = PartSize
    /\ flash.body = "whole" => Readable(flash)
    /\ staging # None /\ staging.body = "whole" => Readable(staging)

\* What an invocation has at each of its steps.
Control ==
    /\ pc # "idle" => cmd \in Commands
    /\ pc \in {"args", "commit"} => table \in Tables /\ size = Length(Opened) /\ size >= Hdr + 4
    /\ pc = "to_staging" => staging = None
    /\ pc \in {"open", "args", "commit"} /\ cmd.write => staging # None
    /\ pc = "commit" => cmd.write
    /\ pc = "unlink" => WholeStaging /\ (lost \/ staging = flash)

Inv == TypeOK /\ Images /\ Control

\* Readability does not depend on the size of the file.
LEMMA ReadableCopy ==
    ASSUME NEW img, NEW new, new.tuples = img.tuples, new.len = img.len
    PROVE  Readable(new) <=> Readable(img)
BY Zenon DEF Readable, Parsed, Limit

LEMMA TablesChains ==
    ASSUME NEW h \in Tables
    PROVE  h \in [1 .. Buckets -> Seq(Tuple)]
BY Zenon DEF Tables

LEMMA InvInit ==
    ASSUME Init
    PROVE  Inv
<1>1. flash \in Image /\ flash.size = PartSize /\ Readable(flash)
    BY FlashAssumption, Zenon DEF Init, Readable
<1>2. 0 \in 0 .. PartSize /\ 0 \in 0 .. MaxFaults /\ 0 \in 0 .. MaxReboots
    BY NvramAssumption
<1>0. <<>> \in Seq(Arg)
    OBVIOUS
<1>c. cmd \in Command
    BY <1>0, Zenon DEF Init, Command
<1>3. TypeOK
    BY <1>1, <1>2, <1>c, Zenon DEF Init, TypeOK
<1> QED
    BY <1>1, <1>3, Zenon DEF Init, Inv, Images, Control

LEMMA MainInv ==
    ASSUME Inv, main
    PROVE  Inv'
<1>1. pc' \in {"to_staging", "open"} /\ cmd' \in Commands /\ stat' = None /\ lost' = FALSE
      /\ flash' = flash /\ staging' = staging /\ table' = table /\ size' = size
      /\ faults' = faults /\ reboots' = reboots
    BY Zenon DEF main
<1>2. /\ pc' = "to_staging" => staging = None
      /\ pc' = "open" /\ cmd'.write => staging # None
    BY Zenon DEF main
<1>3. TypeOK'
    BY <1>1, CommandAssumption, Zenon DEF Inv, TypeOK
<1>4. Images'
    BY <1>1, Zenon DEF Inv, Images
<1>5. Control'
    BY <1>1, <1>2, Zenon DEF Control
<1> QED
    BY <1>3, <1>4, <1>5, Zenon DEF Inv

LEMMA StatusIs ==
    ASSUME NEW s \in {0, 1, -1, -12}
    PROVE  Status(s) \in {0, 1, -1, -12}
BY Zenon DEF Status

LEMMA ExitInv ==
    ASSUME Inv, NEW s \in {0, 1, -1, -12}, Exit(s), flash' = flash, staging' \in {staging, None}, lost' = lost,
           faults' \in 0 .. MaxFaults, reboots' = reboots
    PROVE  Inv'
<1>1. pc' = "idle" /\ stat' = s /\ table' = None /\ cmd' = cmd /\ size' = size
    BY Zenon DEF Exit
<1>2. TypeOK'
    BY <1>1, Zenon DEF Inv, TypeOK
<1>3. Images'
    BY <1>1, Zenon DEF Inv, Images
<1>4. Control'
    BY <1>1, Zenon DEF Control
<1> QED
    BY <1>2, <1>3, <1>4, Zenon DEF Inv

LEMMA FaultCounted ==
    ASSUME TypeOK, Fault
    PROVE  faults' \in 0 .. MaxFaults
BY NvramAssumption DEF TypeOK, Fault

LEMMA ToStagingInv ==
    ASSUME Inv, nvram_to_staging
    PROVE  Inv'
<1>1. TypeOK /\ pc = "to_staging" /\ flash' = flash /\ lost' = lost /\ reboots' = reboots /\ cmd \in Commands
    BY Zenon DEF nvram_to_staging, Inv, Control
<1>2. flash \in Image /\ flash # None
    BY <1>1, NoneAssumption, Zenon DEF TypeOK
<1>3. ASSUME staging' \in Image, staging'.body = "whole" => Readable(staging'), faults' \in 0 .. MaxFaults,
             pc' = "open", UNCHANGED <<cmd, table, size, stat>>
      PROVE  Inv'
  <2>1. staging' # None
      BY <1>3, NoneAssumption, Zenon
  <2>2. TypeOK'
      BY <1>1, <1>3, Zenon DEF TypeOK
  <2>3. Images'
      BY <1>1, <1>3, Zenon DEF Inv, Images
  <2>4. Control'
      BY <1>1, <1>3, <2>1, Zenon DEF Control
  <2> QED
      BY <2>2, <2>3, <2>4 DEF Inv
<1>4. CASE staging' = flash /\ pc' = "open" /\ UNCHANGED <<cmd, table, size, stat, faults>>
  <2>1. staging' \in Image /\ (staging'.body = "whole" => Readable(staging')) /\ faults' \in 0 .. MaxFaults
      BY <1>2, <1>4, Zenon DEF Inv, Images, TypeOK
  <2> QED
      BY <1>3, <1>4, <2>1, Zenon
<1>5. CASE /\ Fault
           /\ \E n \in Short : staging' = [flash EXCEPT !.size = n]
           /\ pc' = "open" /\ UNCHANGED <<cmd, table, size, stat>>
  <2>1. PICK n \in Short : staging' = [flash EXCEPT !.size = n]
      BY <1>5, Zenon
  <2>2. n \in 0 .. PartSize
      BY NvramAssumption
  <2>3. /\ staging' \in Image /\ staging'.tuples = flash.tuples /\ staging'.len = flash.len
        /\ staging'.body = flash.body
      BY <1>2, <2>1, <2>2, Zenon DEF Image
  <2>4. Readable(staging') <=> Readable(flash)
      BY <2>3, ReadableCopy, Zenon
  <2>5. (staging'.body = "whole" => Readable(staging')) /\ faults' \in 0 .. MaxFaults
      BY <1>1, <1>5, <2>3, <2>4, FaultCounted, Zenon DEF Inv, Images
  <2> QED
      BY <1>3, <1>5, <2>3, <2>5, Zenon
<1>6. CASE Fault /\ Exit(1) /\ UNCHANGED staging
    BY <1>1, <1>6, FaultCounted, ExitInv, Zenon
<1> QED
    BY <1>4, <1>5, <1>6, Zenon DEF nvram_to_staging

LEMMA OpenInv ==
    ASSUME Inv, nvram_open
    PROVE  Inv'
<1>1. TypeOK /\ pc = "open" /\ cmd \in Commands /\ (cmd.write => staging # None)
    BY Zenon DEF nvram_open, Inv, Control
<1>2. flash' = flash /\ staging' = staging /\ lost' = lost /\ reboots' = reboots
    BY Zenon DEF nvram_open
<1>3. Opened \in Image /\ Opened' = Opened
    BY <1>1, <1>2, Zenon DEF Opened, TypeOK
<1>4. CASE /\ Accepted(Opened, cmd.write)
           /\ size' = Length(Opened)
           /\ table' = _nvram_rehash(Opened, size')
           /\ pc' = "args" /\ UNCHANGED <<cmd, stat, faults>>
  <2>1. size' \in 0 .. PartSize /\ size' >= Hdr + 4
      BY <1>3, <1>4, LengthIs, Zenon DEF Accepted
  <2>2. size' \in Nat /\ size' >= Hdr
      BY <2>1, NvramAssumption, SMTT(30)
  <2>3. table' \in Tables
      BY <1>3, <1>4, <2>2, RehashIs, Zenon
  <2>4. table' \in [1 .. Buckets -> Seq(Tuple)]
      BY <2>3, TablesChains, Zenon
  <2>5. TypeOK'
      BY <1>1, <1>2, <1>4, <2>1, <2>4, Zenon DEF TypeOK
  <2>6. Images'
      BY <1>2, Zenon DEF Inv, Images
  <2>7. size' = Length(Opened')
      BY <1>3, <1>4, Zenon
  <2>8. Control'
      BY <1>1, <1>2, <1>4, <2>1, <2>3, <2>7, Zenon DEF Control
  <2> QED
      BY <2>5, <2>6, <2>8 DEF Inv
<1>5. CASE ~Accepted(Opened, cmd.write) /\ Exit(1) /\ UNCHANGED faults
  <2>1. faults' \in 0 .. MaxFaults
      BY <1>1, <1>5, Zenon DEF TypeOK
  <2> QED
      BY <1>2, <1>5, <2>1, ExitInv, Zenon
<1>6. CASE Fault /\ Exit(1)
    BY <1>1, <1>2, <1>6, FaultCounted, ExitInv, Zenon
<1> QED
    BY <1>4, <1>5, <1>6, Zenon DEF nvram_open

LEMMA ArgsInv ==
    ASSUME Inv, do_args
    PROVE  Inv'
<1>1. TypeOK /\ pc = "args" /\ cmd \in Commands /\ table \in Tables /\ size = Length(Opened) /\ size >= Hdr + 4
    BY Zenon DEF do_args, Inv, Control
<1>2. /\ table' = Applied(table, cmd.args, size)
      /\ flash' = flash /\ staging' = staging /\ cmd' = cmd /\ size' = size
      /\ stat' = stat /\ lost' = lost /\ faults' = faults /\ reboots' = reboots
    BY Zenon DEF do_args
<1>3. pc' \in {"commit", "to_flash", "close"} /\ (pc' = "commit" => cmd.write)
    BY Zenon DEF do_args
<1>4. cmd.args \in Seq(Arg)
    BY <1>1, CommandAssumption, Zenon DEF Command
<1>5. table' \in Tables
    BY <1>1, <1>2, <1>4, AppliedIs, Zenon
<1>6. table' \in [1 .. Buckets -> Seq(Tuple)]
    BY <1>5, TablesChains
<1>7. TypeOK'
    BY <1>1, <1>2, <1>3, <1>6, Zenon DEF TypeOK
<1>8. Images'
    BY <1>2, Zenon DEF Inv, Images
<1>9. Opened' = Opened
    BY <1>2, Zenon DEF Opened
<1>10. Control'
    BY <1>1, <1>2, <1>3, <1>5, <1>9, Zenon DEF Inv, Control
<1> QED
    BY <1>7, <1>8, <1>10 DEF Inv

\* What an invocation has when it is about to write its table back.
LEMMA AtCommit ==
    ASSUME Inv, pc = "commit"
    PROVE  /\ cmd \in Commands /\ cmd.write /\ table \in Tables
           /\ staging # None /\ staging \in Image /\ Opened = staging
           /\ size = Length(staging) /\ size \in Hdr + 4 .. PartSize /\ size % 4 = 0
<1>1. cmd \in Commands /\ cmd.write /\ table \in Tables /\ staging # None
      /\ size = Length(Opened) /\ size >= Hdr + 4
    BY Zenon DEF Inv, Control
<1>2. staging \in Image /\ Opened = staging
    BY <1>1, Zenon DEF Inv, TypeOK, Opened
<1>3. Length(staging) \in 0 .. PartSize /\ Length(staging) % 4 = 0
    BY <1>2, LengthIs, Zenon
<1>4. Hdr + 4 \in Int /\ PartSize \in Int
    BY NvramAssumption, SMTT(30)
<1> QED
    BY <1>1, <1>2, <1>3, <1>4, SMTT(30)

LEMMA CommittedImage ==
    ASSUME Inv, nvram_commit
    PROVE  staging' \in Image /\ staging' # None
<1>1. pc = "commit" /\ staging' = Regenerated(table, size, staging)
    BY Zenon DEF nvram_commit
<1>2. table \in Tables /\ staging \in Image /\ size \in Hdr + 4 .. PartSize /\ size % 4 = 0
    BY <1>1, AtCommit, Zenon
<1>3. staging' \in Image
    BY <1>1, <1>2, RegeneratedIs, Zenon
<1> QED
    BY <1>3, NoneAssumption, Zenon

LEMMA CommitInv ==
    ASSUME Inv, nvram_commit
    PROVE  Inv'
<1>1. pc = "commit" /\ TypeOK
    BY Zenon DEF nvram_commit, Inv
<1>2. /\ staging' = Regenerated(table, size, staging)
      /\ table' = _nvram_rehash(staging', size)
      /\ pc' \in {"to_flash", "close"}
      /\ flash' = flash /\ cmd' = cmd /\ size' = size /\ stat' = stat /\ lost' = lost
      /\ faults' = faults /\ reboots' = reboots
    BY Zenon DEF nvram_commit
<1>3. /\ cmd \in Commands /\ table \in Tables /\ staging \in Image
      /\ size \in Hdr + 4 .. PartSize /\ size % 4 = 0
    BY <1>1, AtCommit, Zenon
<1>4. staging' \in Image /\ \A l \in size .. PartSize : Parsed(staging', l) = staging'.tuples
    BY <1>2, <1>3, RegeneratedIs, Zenon
<1>5. PartSize \in size .. PartSize /\ size \in Nat /\ size >= Hdr
    BY <1>3, NvramAssumption
<1>6. Readable(staging')
    BY <1>4, <1>5, Zenon DEF Readable
<1>7. table' \in Tables
    BY <1>2, <1>4, <1>5, RehashIs, ZenonT(60), Zenon
<1>8. table' \in [1 .. Buckets -> Seq(Tuple)]
    BY <1>7, TablesChains
<1>9. TypeOK'
    BY <1>1, <1>2, <1>4, <1>8, Zenon DEF TypeOK
<1>10. Images'
    BY <1>2, <1>6, Zenon DEF Inv, Images
<1>11. Control'
    BY <1>2, <1>3, Zenon DEF Control
<1> QED
    BY <1>9, <1>10, <1>11 DEF Inv

\* The tuples of an image are among those of two others.
From(img, old, new) ==
    \A k \in 1 .. Len(img.tuples) :
        \/ \E j \in 1 .. Len(old.tuples) : img.tuples[k] = old.tuples[j]
        \/ \E j \in 1 .. Len(new.tuples) : img.tuples[k] = new.tuples[j]

LEMMA ConcatIs ==
    ASSUME NEW c \in Seq(Tuple), NEW d \in Seq(Tuple)
    PROVE  /\ c \o d \in Seq(Tuple) /\ Len(c \o d) = Len(c) + Len(d)
           /\ \A k \in 1 .. Len(c) : (c \o d)[k] = c[k]
           /\ \A k \in 1 .. Len(d) : (c \o d)[Len(c) + k] = d[k]
           /\ d = <<>> => c \o d = c
OBVIOUS

LEMMA OffsetIs ==
    ASSUME NEW i \in Nat, NEW m \in Nat, NEW k \in 1 .. i + m, k > i
    PROVE  k - i \in 1 .. m /\ k = i + (k - i)
OBVIOUS

Mixed(a, b, i) == SubSeq(a, 1, i) \o SubSeq(b, i + 1, Len(b))

LEMMA MixedIs ==
    ASSUME NEW a \in Seq(Tuple), NEW b \in Seq(Tuple), NEW i \in 0 .. Len(a)
    PROVE  /\ Mixed(a, b, i) \in Seq(Tuple)
           /\ \A k \in 1 .. Len(Mixed(a, b, i)) :
                \/ \E j \in 1 .. Len(b) : Mixed(a, b, i)[k] = b[j]
                \/ \E j \in 1 .. Len(a) : Mixed(a, b, i)[k] = a[j]
<1> DEFINE q == Mixed(a, b, i)
           c == SubSeq(a, 1, i)
           d == SubSeq(b, i + 1, Len(b))
<1>1. c \in Seq(Tuple) /\ Len(c) = i /\ \A k \in 1 .. i : c[k] = a[k] /\ k \in 1 .. Len(a)
    OBVIOUS
<1>2. CASE i + 1 <= Len(b)
  <2>1. d \in Seq(Tuple) /\ Len(d) = Len(b) - i
      BY <1>2
  <2>2. \A k \in 1 .. Len(d) : d[k] = b[i + k] /\ i + k \in 1 .. Len(b)
      BY <1>2, <2>1
  <2> HIDE DEF c, d
  <2>3. q = c \o d
      BY Zenon DEF c, d, Mixed
  <2>4. /\ q \in Seq(Tuple) /\ Len(q) = i + Len(d)
        /\ \A k \in 1 .. i : q[k] = c[k]
        /\ \A k \in 1 .. Len(d) : q[i + k] = d[k]
    <3>1. c \in Seq(Tuple) /\ d \in Seq(Tuple) /\ Len(c) = i
        BY <1>1, <2>1, Zenon
    <3>2. /\ c \o d \in Seq(Tuple) /\ Len(c \o d) = Len(c) + Len(d)
          /\ \A k \in 1 .. Len(c) : (c \o d)[k] = c[k]
          /\ \A k \in 1 .. Len(d) : (c \o d)[Len(c) + k] = d[k]
        BY <3>1, ConcatIs, Zenon
    <3>3. q = c \o d /\ Len(c) = i
        BY <2>3, <3>1, Zenon
    <3> HIDE DEF c, d
    <3> QED
        BY <3>2, <3>3, Zenon
  <2>5. ASSUME NEW k \in 1 .. Len(q)
        PROVE  \/ \E j \in 1 .. Len(b) : q[k] = b[j]
               \/ \E j \in 1 .. Len(a) : q[k] = a[j]
    <3>1. CASE k <= i
      <4>1. k \in 1 .. i
          BY <2>5, <2>4, <3>1
      <4> QED
          BY <1>1, <2>4, <4>1, Zenon
    <3>2. CASE k > i
      <4>1. PICK l \in 1 .. Len(d) : k = i + l
        <5>1. Len(d) \in Nat
            BY <2>1
        <5>2. Len(q) = i + Len(d)
            BY <2>4, Zenon
        <5>3. k - i \in 1 .. Len(d) /\ k = i + (k - i)
          <6>1. k \in 1 .. i + Len(d)
              BY <5>2, Zenon
          <6>2. i \in Nat
              BY <1>1
          <6> QED
              BY <3>2, <5>1, <6>1, <6>2, OffsetIs, Zenon
        <5> QED
            BY <5>3, Zenon
      <4> QED
          BY <2>2, <2>4, <4>1, Zenon
    <3>3. k <= i \/ k > i
        OBVIOUS
    <3> QED
        BY <3>1, <3>2, <3>3, Zenon
  <2> QED
      BY <2>4, <2>5, Zenon
<1>3. CASE ~(i + 1 <= Len(b))
  <2>1. d = <<>>
      BY <1>3
  <2> HIDE DEF c, d
  <2>0. q = c \o d
      BY Zenon DEF c, d, Mixed
  <2>2. q = c
    <3>1. <<>> \in Seq(Tuple)
        OBVIOUS
    <3> QED
        BY <1>1, <2>0, <2>1, <3>1, ConcatIs, Zenon
  <2>3. \A k \in 1 .. Len(q) : \E j \in 1 .. Len(a) : q[k] = a[j]
      BY <1>1, <2>2, Zenon
  <2> QED
      BY <1>1, <2>2, <2>3, Zenon
<1> QED
    BY <1>2, <1>3, Zenon

\* What a write that does not get to its end can leave in the partition.
LEMMA UnfinishedIs ==
    ASSUME NEW old \in Image, NEW new \in Image, new.size = PartSize, NEW img \in Unfinished(old, new)
    PROVE  \/ img = old
           \/ /\ img \in Image /\ img.size = PartSize /\ img.body # "whole" /\ img.hdr = new.hdr
              /\ From(img, old, new)
<1>1. old.tuples \in Seq(Tuple) /\ new.tuples \in Seq(Tuple)
    BY Zenon DEF Image
<1>2. CASE img = [new EXCEPT !.tuples = <<>>, !.body = "blank"]
  <2>1. <<>> \in Seq(Tuple) /\ Len(<<>>) = 0
      OBVIOUS
  <2>2. /\ img \in Image /\ img.size = PartSize /\ img.body = "blank" /\ img.hdr = new.hdr
        /\ img.tuples = <<>>
      BY <1>2, <2>1, Zenon DEF Image
  <2>3. From(img, old, new)
    <3>1. 1 .. Len(img.tuples) = {}
        BY <2>2
    <3> QED
        BY <3>1, Zenon DEF From
  <2> QED
      BY <2>2, <2>3, Zenon
<1>3. CASE img \in {[new EXCEPT !.tuples = SubSeq(new.tuples, 1, i) \o SubSeq(old.tuples, i + 1, Len(old.tuples)),
                                !.body = "torn"] : i \in 0 .. Len(new.tuples)}
  <2>1. PICK i \in 0 .. Len(new.tuples) :
            img = [new EXCEPT !.tuples = SubSeq(new.tuples, 1, i) \o SubSeq(old.tuples, i + 1, Len(old.tuples)),
                              !.body = "torn"]
      BY <1>3, Zenon
  <2> DEFINE q == SubSeq(new.tuples, 1, i) \o SubSeq(old.tuples, i + 1, Len(old.tuples))
  <2>2. img = [new EXCEPT !.tuples = q, !.body = "torn"]
      BY <2>1, Zenon
  <2>q. q = SubSeq(new.tuples, 1, i) \o SubSeq(old.tuples, i + 1, Len(old.tuples))
      BY Zenon
  <2> HIDE DEF q
  <2>3. /\ q \in Seq(Tuple)
        /\ \A k \in 1 .. Len(q) :
             \/ \E j \in 1 .. Len(old.tuples) : q[k] = old.tuples[j]
             \/ \E j \in 1 .. Len(new.tuples) : q[k] = new.tuples[j]
    <3> DEFINE a == new.tuples
               b == old.tuples
    <3>1. a \in Seq(Tuple) /\ b \in Seq(Tuple) /\ i \in 0 .. Len(a)
          /\ q = Mixed(a, b, i)
        BY <1>1, <2>1, <2>q, Zenon DEF Mixed
    <3> HIDE DEF a, b
    <3>2. /\ q \in Seq(Tuple)
          /\ \A k \in 1 .. Len(q) :
               \/ \E j \in 1 .. Len(b) : q[k] = b[j]
               \/ \E j \in 1 .. Len(a) : q[k] = a[j]
        BY <3>1, MixedIs, Zenon
    <3> QED
        BY <3>2, Zenon DEF a, b
  <2>4. /\ img \in Image /\ img.size = PartSize /\ img.body = "torn" /\ img.hdr = new.hdr
        /\ img.tuples = q
      BY <2>2, <2>3, Zenon DEF Image
  <2>5. From(img, old, new)
      BY <2>3, <2>4, Zenon DEF From
  <2> QED
      BY <2>4, <2>5, Zenon
<1> QED
    BY <1>2, <1>3, Zenon DEF Unfinished

\* What the partition holds after it was, perhaps in part, written from the staging file.
LEMMA WrittenFlash ==
    ASSUME Inv, WholeStaging, flash' = staging \/ flash' \in Unfinished(flash, staging)
    PROVE  flash' \in Image /\ flash'.size = PartSize /\ (flash'.body = "whole" => Readable(flash'))
<1>1. staging \in Image /\ staging # None /\ staging.size = PartSize /\ flash \in Image /\ flash.size = PartSize
    BY Zenon DEF Inv, TypeOK, Images, WholeStaging
<1>2. CASE flash' = staging
    BY <1>1, <1>2, Zenon DEF Inv, Images
<1>3. CASE flash' \in Unfinished(flash, staging)
  <2>1. \/ flash' = flash
        \/ flash' \in Image /\ flash'.size = PartSize /\ flash'.body # "whole"
      BY <1>1, <1>3, UnfinishedIs, Zenon
  <2> QED
      BY <1>1, <2>1, Zenon DEF Inv, Images
<1> QED
    BY <1>2, <1>3, Zenon

LEMMA ToFlashInv ==
    ASSUME Inv, staging_to_nvram
    PROVE  Inv'
<1>1. TypeOK /\ pc = "to_flash" /\ cmd \in Commands
    BY Zenon DEF staging_to_nvram, Inv, Control
<1>2. staging' = staging /\ reboots' = reboots
    BY Zenon DEF staging_to_nvram
<1>3. ASSUME WholeStaging, flash' = staging \/ flash' \in Unfinished(flash, staging),
             lost' \/ flash' = staging, lost' \in BOOLEAN, faults' \in 0 .. MaxFaults,
             pc' = "unlink", UNCHANGED <<cmd, table, size, stat>>
      PROVE  Inv'
  <2>1. flash' \in Image /\ flash'.size = PartSize /\ (flash'.body = "whole" => Readable(flash'))
      BY <1>3, WrittenFlash, Zenon
  <2>2. TypeOK'
      BY <1>1, <1>2, <1>3, <2>1, Zenon DEF TypeOK
  <2>3. Images'
      BY <1>2, <2>1, Zenon DEF Inv, Images
  <2>4. WholeStaging'
      BY <1>2, <1>3, Zenon DEF WholeStaging
  <2>5. Control'
      BY <1>1, <1>2, <1>3, <2>4, Zenon DEF Control
  <2> QED
      BY <2>2, <2>3, <2>5, Zenon DEF Inv
<1>4. CASE WholeStaging /\ flash' = staging /\ pc' = "unlink" /\ UNCHANGED <<cmd, table, size, stat, lost, faults>>
    BY <1>1, <1>3, <1>4, Zenon DEF TypeOK
<1>5. CASE /\ WholeStaging /\ Fault
           /\ flash' \in Unfinished(flash, staging) /\ lost' = TRUE
           /\ pc' = "unlink" /\ UNCHANGED <<cmd, table, size, stat>>
    BY <1>1, <1>3, <1>5, FaultCounted, Zenon
<1>6. ASSUME Exit(Status(-1)), UNCHANGED <<flash, lost>>, faults' \in 0 .. MaxFaults
      PROVE  Inv'
    BY <1>2, <1>6, StatusIs, ExitInv, Zenon
<1>7. CASE ~WholeStaging /\ Exit(Status(-1)) /\ UNCHANGED <<flash, lost, faults>>
    BY <1>1, <1>6, <1>7, Zenon DEF TypeOK
<1>8. CASE Fault /\ Exit(Status(-1)) /\ UNCHANGED <<flash, lost>>
    BY <1>1, <1>6, <1>8, FaultCounted, Zenon
<1> QED
    BY <1>4, <1>5, <1>7, <1>8, Zenon DEF staging_to_nvram

LEMMA RebootInv ==
    ASSUME Inv, Reboot
    PROVE  Inv'
<1>1. reboots' \in 0 .. MaxReboots
    BY NvramAssumption DEF Reboot, Inv, TypeOK
<1>2. /\ staging' = None /\ pc' = "idle" /\ table' = None /\ cmd' = cmd /\ lost' = FALSE
      /\ size' = size /\ stat' = stat /\ faults' = faults
    BY Zenon DEF Reboot
<1>3. flash' \in Image /\ flash'.size = PartSize /\ (flash'.body = "whole" => Readable(flash'))
  <2>1. CASE flash' = flash
      BY <2>1, Zenon DEF Inv, TypeOK, Images
  <2>2. CASE WholeStaging /\ flash' \in Unfinished(flash, staging)
      BY <2>2, WrittenFlash, Zenon
  <2> QED
      BY <2>1, <2>2, Zenon DEF Reboot
<1>4. TypeOK'
    BY <1>1, <1>2, <1>3, Zenon DEF Inv, TypeOK
<1>5. Images'
    BY <1>2, <1>3, Zenon DEF Images
<1>6. Control'
    BY <1>2, Zenon DEF Control
<1> QED
    BY <1>4, <1>5, <1>6, Zenon DEF Inv

LEMMA InvNext ==
    ASSUME Inv, [Next]_vars
    PROVE  Inv'
<1>0. TypeOK /\ faults \in 0 .. MaxFaults
    BY Zenon DEF Inv, TypeOK
<1>1. CASE nvram_close
  <2>1. PICK s \in {0, 1, -12} : Exit(Status(s))
      BY <1>1, Zenon DEF nvram_close
  <2>2. flash' = flash /\ staging' = staging /\ lost' = lost /\ faults' = faults /\ reboots' = reboots
      BY <1>1, Zenon DEF nvram_close
  <2> QED
      BY <1>0, <2>1, <2>2, StatusIs, ExitInv, Zenon
<1>2. CASE unlink
  <2>1. flash' = flash /\ lost' = lost /\ reboots' = reboots
      BY <1>2, Zenon DEF unlink
  <2>2. CASE staging' = None /\ Exit(Status(0)) /\ UNCHANGED faults
      BY <1>0, <2>1, <2>2, StatusIs, ExitInv, Zenon
  <2>3. CASE Fault /\ UNCHANGED staging /\ Exit(1)
      BY <1>0, <2>1, <2>3, FaultCounted, ExitInv, Zenon
  <2> QED
      BY <1>2, <2>2, <2>3, Zenon DEF unlink
<1>4. CASE UNCHANGED vars
  <2>1. /\ flash' = flash /\ staging' = staging /\ pc' = pc /\ cmd' = cmd /\ table' = table
        /\ size' = size /\ stat' = stat /\ lost' = lost /\ faults' = faults /\ reboots' = reboots
      BY <1>4, Zenon DEF vars
  <2>2. Opened' = Opened /\ (WholeStaging' <=> WholeStaging)
      BY <2>1, Zenon DEF Opened, WholeStaging
  <2>3. Control'
      BY <2>1, <2>2, Zenon DEF Inv, Control
  <2>4. TypeOK' /\ Images'
      BY <2>1, Zenon DEF Inv, TypeOK, Images
  <2> QED
      BY <2>3, <2>4, Zenon DEF Inv
<1> QED
    BY <1>1, <1>2, <1>4, MainInv, ToStagingInv, OpenInv, ArgsInv, CommitInv, ToFlashInv, RebootInv, Zenon DEF Next

\* After every step of an invocation, a failing one or a reboot included, the
\* partition and the staging file hold images that _nvram_rehash() reads whole,
\* unless a write() to the partition did not get to its end, and main() has what
\* its next call needs: a table and the length of the file it opened, a
\* staging file if it writes, and before unlink() a staging file of the size of the
\* partition that is the image in the partition if its write() did not fail.
THEOREM Invariant == Spec => []Inv
<1>1. Init => Inv
    BY InvInit, Zenon
<1>2. Inv /\ [Next]_vars => Inv'
    BY InvNext, Zenon
<1> QED
    BY <1>1, <1>2, PTL DEF Spec

\* The state of an invocation of the nvram command has the types of Nvram's
\* TypeOK: what nvram_commit() writes fits the area, its header's length with it.
THEOREM TypesHold == Spec => []TypeOK
<1>1. Inv => TypeOK
    BY Zenon DEF Inv
<1> QED
    BY <1>1, Invariant, PTL

\* staging_to_nvram() leaves the partition only with images of its own size in
\* which _nvram_rehash() finds every variable that nvram_commit() wrote, unless
\* its write() failed or a power loss cut it off.
THEOREM FlashReadable == Spec => []ReadableFlash
<1>1. Inv => ReadableFlash
    BY Zenon DEF Inv, Images, Readable, ReadableFlash
<1> QED
    BY <1>1, Invariant, PTL

\* The hash table that nvram_open() has built answers every query with what the
\* image says, for every hash function and any number of buckets, and in
\* whatever order the chains were written.
THEOREM TablesFaithful == Spec => []TableFaithful
<1>1. Init => TableFaithful
    BY Zenon DEF Init, TableFaithful
<1>2. ASSUME Inv, TableFaithful, [Next]_vars
      PROVE  TableFaithful'
  <2>1. CASE nvram_open
    <3> SUFFICES ASSUME pc' = "args", NEW v \in Var
                 PROVE  nvram_get(table', v) = View(Opened')[v]
        BY Zenon DEF TableFaithful
    <3>1. /\ Accepted(Opened, cmd.write) /\ table' = _nvram_rehash(Opened, Length(Opened))
          /\ flash' = flash /\ staging' = staging
        BY <2>1, Zenon DEF nvram_open, Exit
    <3>2. Opened \in Image /\ Opened' = Opened
        BY <1>2, <3>1, Zenon DEF Opened, Inv, TypeOK
    <3> DEFINE l == Length(Opened)
               p == Parsed(Opened, l)
    <3>3. l \in Nat /\ l >= Hdr
        BY <3>1, <3>2, LengthIs, NvramAssumption, SMTT(30) DEF Accepted
    <3>4. Latest(p, Len(p), v, nvram_get(table', v), None)
        BY <3>1, <3>2, <3>3, RehashIs, Zenon
    <3>6. View(Opened)[v] = nvram_get(table', v)
        BY <3>2, <3>4, ViewIs, Zenon
    <3> QED
        BY <3>2, <3>6, Zenon
  <2>2. CASE UNCHANGED vars
      BY <1>2, <2>2, Zenon DEF vars, TableFaithful, Opened
  <2>3. CASE pc' # "args"
      BY <2>3, Zenon DEF TableFaithful
  <2>4. Next => nvram_open \/ pc' # "args"
      BY Zenon DEF Next, main, nvram_to_staging, do_args, nvram_commit, nvram_close, staging_to_nvram, unlink,
             Reboot, Exit
  <2> QED
      BY <1>2, <2>1, <2>2, <2>3, <2>4, Zenon
<1> QED
    BY <1>1, <1>2, Invariant, PTL DEF Spec
------------------------------------------------------------------------------
(* The words of the header.                                                *)

\* No command names a variable of an SDRAM word.
Untouched == \A c \in Commands : \A i \in DOMAIN c.args : c.args[i].name \in Var

\* The variables of the words that an image has agree with its header.
Agreeing(img) ==
    \A i \in 1 .. Len(img.tuples) : img.tuples[i].name \in Special => Num[img.tuples[i].value] = img.hdr[img.tuples[i].name]

\* A table has the variables of the words, with the values of header hdr.
Carried(h, hdr) == \A n \in Special : nvram_get(h, n) # None /\ Num[nvram_get(h, n)] = hdr[n]

WordsInv ==
    /\ Agreeing(flash)
    /\ staging # None => Agreeing(staging) /\ staging.hdr = flash.hdr
    /\ pc \in {"args", "commit"} => Carried(table, flash.hdr)

LEMMA WordsLoaded ==
    ASSUME NEW img \in Image, Agreeing(img), NEW length \in Nat, length >= Hdr
    PROVE  Carried(_nvram_rehash(img, length), img.hdr)
<1> DEFINE p == Parsed(img, length)
           h == _nvram_rehash(img, length)
<1> SUFFICES ASSUME NEW n \in Special
             PROVE  nvram_get(h, n) # None /\ Num[nvram_get(h, n)] = img.hdr[n]
    BY Zenon DEF Carried
<1>1. img.tuples \in Seq(Tuple) /\ img.hdr \in [Special -> Word]
    BY Zenon DEF Image
<1>2. Len(p) \in 0 .. Len(img.tuples) /\ \A i \in 1 .. Len(p) : p[i] = img.tuples[i]
    BY <1>1, ParsedIs, Zenon
<1>3. /\ nvram_get(h, n) # None
      /\ \/ nvram_get(h, n) = Fmt[img.hdr[n]]
         \/ \E i \in 1 .. Len(p) : p[i].name = n /\ nvram_get(h, n) = p[i].value
    BY RehashIs, Zenon
<1> HIDE DEF p, h
<1>4. CASE nvram_get(h, n) = Fmt[img.hdr[n]]
  <2>1. img.hdr[n] \in Word
      BY <1>1, Zenon
  <2> QED
      BY <1>3, <1>4, <2>1, NvramAssumption, Zenon
<1>5. CASE \E i \in 1 .. Len(p) : p[i].name = n /\ nvram_get(h, n) = p[i].value
  <2>1. PICK i \in 1 .. Len(p) : p[i].name = n /\ nvram_get(h, n) = p[i].value
      BY <1>5, Zenon
  <2>2. i \in 1 .. Len(img.tuples) /\ p[i] = img.tuples[i]
      BY <1>1, <1>2, SMTT(30)
  <2>3. Num[p[i].value] = img.hdr[n]
      BY <2>1, <2>2, Zenon DEF Agreeing
  <2> QED
      BY <1>3, <2>1, <2>3, Zenon
<1> QED
    BY <1>3, <1>4, <1>5, Zenon

LEMMA WordsWritten ==
    ASSUME NEW h \in Tables, NEW hdr \in [Special -> Word], Carried(h, hdr), NEW old \in Image,
           NEW length \in Hdr + 4 .. PartSize, length % 4 = 0
    PROVE  Regenerated(h, length, old).hdr = hdr /\ Agreeing(Regenerated(h, length, old))
<1> DEFINE new == Regenerated(h, length, old)
<1>1. new.hdr = SdramWords(h) /\ new.tuples \in Seq(Held(h))
    BY RegeneratedIs, Zenon
<1> HIDE DEF new
<1>2. SdramWords(h) = [n \in Special |-> Num[nvram_get(h, n)]]
    BY Zenon DEF SdramWords, Carried
<1>3. SdramWords(h) = hdr
    BY <1>2, Zenon DEF Carried
<1>4. Agreeing(new)
  <2> SUFFICES ASSUME NEW i \in 1 .. Len(new.tuples), new.tuples[i].name \in Special
               PROVE  Num[new.tuples[i].value] = new.hdr[new.tuples[i].name]
      BY Zenon DEF Agreeing
  <2>1. new.tuples[i] \in Held(h)
      BY <1>1
  <2> QED
      BY <1>1, <1>3, <2>1, Zenon DEF Held, Carried
<1> QED
    BY <1>1, <1>3, <1>4, Zenon DEF new

LEMMA WordsKeptByArgs ==
    ASSUME NEW h \in Tables, NEW q \in Seq(Arg), \A i \in DOMAIN q : q[i].name \in Var, NEW length, NEW hdr,
           Carried(h, hdr)
    PROVE  Carried(Applied(h, q, length), hdr)
<1> DEFINE g == Applied(h, q, length)
<1> SUFFICES ASSUME NEW n \in Special
             PROVE  nvram_get(g, n) = nvram_get(h, n)
    BY Zenon DEF Carried
<1>1. n \in Name /\ n \notin Var
    BY NvramAssumption, Zenon DEF Name
<1>2. Len(q) \in Nat /\ \A i \in 1 .. Len(q) : q[i].name # n
    BY <1>1, SMTT(30)
<1>3. Latest(q, Len(q), n, nvram_get(g, n), nvram_get(h, n))
    BY <1>1, <1>2, AppliedIs, Zenon
<1> QED
    BY <1>2, <1>3, ZenonT(60), Zenon DEF Latest

LEMMA WordsInit ==
    ASSUME Init
    PROVE  WordsInv
<1>1. flash \in FlashInit /\ staging = None /\ pc = "idle"
    BY Zenon DEF Init
<1>2. flash.tuples \in Seq(Tuple)
    BY <1>1, FlashAssumption, Zenon DEF Image
<1>3. DOMAIN flash.tuples = 1 .. Len(flash.tuples)
    BY <1>2
<1>4. Agreeing(flash)
    BY <1>1, <1>3, WordsAssumption, ZenonT(60), Zenon DEF Agreeing
<1> QED
    BY <1>1, <1>4, Zenon DEF WordsInv

\* A step that leaves flash alone and does not load or change the table.
LEMMA WordsSame ==
    ASSUME WordsInv, flash' = flash, staging' = staging \/ staging' = None, pc' \notin {"args", "commit"}
    PROVE  WordsInv'
BY Zenon DEF WordsInv

\* A partition that was, perhaps in part, written from the staging file.
LEMMA WordsFlashed ==
    ASSUME Inv, WordsInv, WholeStaging, flash' = staging \/ flash' \in Unfinished(flash, staging),
           staging' = staging \/ staging' = None, pc' \notin {"args", "commit"}
    PROVE  WordsInv' /\ flash'.hdr = flash.hdr
<1>1. /\ staging \in Image /\ staging # None /\ staging.size = PartSize /\ flash \in Image
      /\ Agreeing(flash) /\ Agreeing(staging) /\ staging.hdr = flash.hdr
    BY Zenon DEF Inv, TypeOK, WholeStaging, WordsInv
<1>2. CASE flash' = staging \/ flash' = flash
    BY <1>1, <1>2, Zenon DEF WordsInv
<1>3. CASE flash'.hdr = staging.hdr /\ From(flash', flash, staging)
  <2>1. Agreeing(flash')
    <3> SUFFICES ASSUME NEW i \in 1 .. Len(flash'.tuples), flash'.tuples[i].name \in Special
                 PROVE  Num[flash'.tuples[i].value] = flash'.hdr[flash'.tuples[i].name]
        BY Zenon DEF Agreeing
    <3>1. CASE \E j \in 1 .. Len(flash.tuples) : flash'.tuples[i] = flash.tuples[j]
        BY <1>1, <1>3, <3>1, Zenon DEF Agreeing
    <3>2. CASE \E j \in 1 .. Len(staging.tuples) : flash'.tuples[i] = staging.tuples[j]
        BY <1>1, <1>3, <3>2, Zenon DEF Agreeing
    <3> QED
        BY <1>3, <3>1, <3>2, Zenon DEF From
  <2> QED
      BY <1>1, <1>3, <2>1, Zenon DEF WordsInv
<1> QED
    BY <1>1, <1>2, <1>3, UnfinishedIs, Zenon

LEMMA WordsCopied ==
    ASSUME WordsInv, Agreeing(staging'), staging'.hdr = flash.hdr, flash' = flash, pc' \notin {"args", "commit"}
    PROVE  WordsInv'
BY Zenon DEF WordsInv

LEMMA WordsNext ==
    ASSUME Inv, Untouched, WordsInv, [Next]_vars
    PROVE  WordsInv'
<1>1. CASE nvram_to_staging
  <2>1. flash' = flash /\ pc' \notin {"args", "commit"} /\ flash \in Image
      BY <1>1, Zenon DEF nvram_to_staging, Exit, Inv, TypeOK
  <2>2. CASE staging' = flash
      BY <2>1, <2>2, WordsCopied, Zenon DEF WordsInv
  <2>3. CASE \E n \in Short : staging' = [flash EXCEPT !.size = n]
    <3>1. staging'.tuples = flash.tuples /\ staging'.hdr = flash.hdr
        BY <2>1, <2>3, Zenon DEF Image
    <3>2. Agreeing(staging')
        BY <3>1, Zenon DEF WordsInv, Agreeing
    <3> QED
        BY <2>1, <3>1, <3>2, WordsCopied, Zenon
  <2>4. CASE staging' = staging
      BY <2>1, <2>4, WordsSame, Zenon
  <2> QED
      BY <1>1, <2>2, <2>3, <2>4, Zenon DEF nvram_to_staging
<1>2. CASE nvram_open
  <2>1. flash' = flash /\ staging' = staging
      BY <1>2, Zenon DEF nvram_open
  <2>2. CASE pc' = "args"
    <3>1. Accepted(Opened, cmd.write) /\ table' = _nvram_rehash(Opened, Length(Opened))
        BY <1>2, <2>2, Zenon DEF nvram_open, Exit
    <3>2. Opened \in Image /\ Agreeing(Opened) /\ Opened.hdr = flash.hdr
        BY Zenon DEF Opened, Inv, TypeOK, WordsInv
    <3>3. Length(Opened) \in Nat /\ Length(Opened) >= Hdr
        BY <3>1, <3>2, LengthIs, NvramAssumption, SMTT(30) DEF Accepted
    <3>4. Carried(table', flash.hdr)
        BY <3>1, <3>2, <3>3, WordsLoaded, Zenon
    <3> QED
        BY <2>1, <3>4, Zenon DEF WordsInv
  <2>3. CASE pc' # "args"
    <3>1. pc' = "idle"
        BY <1>2, <2>3, Zenon DEF nvram_open, Exit
    <3> QED
        BY <2>1, <3>1, WordsSame, Zenon
  <2> QED
      BY <2>2, <2>3, Zenon
<1>3. CASE do_args
  <2>1. flash' = flash /\ staging' = staging /\ table' = Applied(table, cmd.args, size) /\ pc = "args"
      BY <1>3, Zenon DEF do_args
  <2>2. table \in Tables /\ Carried(table, flash.hdr) /\ cmd \in Commands
      BY <2>1, Zenon DEF Inv, Control, WordsInv
  <2>3. cmd.args \in Seq(Arg) /\ \A i \in DOMAIN cmd.args : cmd.args[i].name \in Var
      BY <2>2, CommandAssumption, Zenon DEF Command, Untouched
  <2>4. Carried(table', flash.hdr)
      BY <2>1, <2>2, <2>3, WordsKeptByArgs, Zenon
  <2> QED
      BY <2>1, <2>4, Zenon DEF WordsInv
<1>4. CASE nvram_commit
  <2>1. pc = "commit" /\ flash' = flash /\ staging' = Regenerated(table, size, staging)
        /\ pc' \notin {"args", "commit"}
      BY <1>4, Zenon DEF nvram_commit
  <2>2. /\ table \in Tables /\ staging \in Image /\ size \in Hdr + 4 .. PartSize /\ size % 4 = 0
        /\ Carried(table, flash.hdr)
      BY <2>1, AtCommit, Zenon DEF WordsInv
  <2>3. flash.hdr \in [Special -> Word]
      BY Zenon DEF Inv, TypeOK, Image
  <2>4. staging'.hdr = flash.hdr /\ Agreeing(staging')
      BY <2>1, <2>2, <2>3, WordsWritten, Zenon
  <2> QED
      BY <2>1, <2>4, WordsCopied, Zenon
<1>5. CASE staging_to_nvram
  <2>1. staging' = staging /\ pc' \notin {"args", "commit"}
        /\ (flash' = flash \/ (WholeStaging /\ (flash' = staging \/ flash' \in Unfinished(flash, staging))))
      BY <1>5, Zenon DEF staging_to_nvram, Exit
  <2> QED
      BY <2>1, WordsSame, WordsFlashed, Zenon
<1>6. CASE main \/ nvram_close \/ unlink
  <2>1. flash' = flash /\ (staging' = staging \/ staging' = None) /\ pc' \notin {"args", "commit"}
      BY <1>6, Zenon DEF main, nvram_close, unlink, Exit
  <2> QED
      BY <2>1, WordsSame, Zenon
<1>8. CASE Reboot
  <2>1. staging' = None /\ pc' \notin {"args", "commit"}
        /\ (flash' = flash \/ (WholeStaging /\ flash' \in Unfinished(flash, staging)))
      BY <1>8, Zenon DEF Reboot
  <2> QED
      BY <2>1, WordsSame, WordsFlashed, Zenon
<1>7. CASE UNCHANGED vars
  <2>1. flash' = flash /\ staging' = staging /\ pc' = pc /\ table' = table
      BY <1>7, Zenon DEF vars
  <2> QED
      BY <2>1, Zenon DEF WordsInv
<1> QED
    BY <1>1, <1>2, <1>3, <1>4, <1>5, <1>6, <1>7, <1>8, Zenon DEF Next

\* As long as no command names the variables of the SDRAM words, the words of the
\* header stay what they are: _nvram_rehash() turns them into variables and
\* nvram_commit() turns those back, also if a full area drops the variables or
\* an image reaches the partition in part, unless it is left erased.
THEOREM WordsKept == Spec => SdramKept
<1> DEFINE W == Untouched => WordsInv
           A == Untouched => /\ flash'.body # "blank" => flash'.hdr = flash.hdr
                             /\ staging' # None => staging'.hdr = flash.hdr
<1>1. Init => W
    BY WordsInit, Zenon
<1>2. Inv /\ W /\ [Next]_vars => W'
    BY WordsNext, Zenon DEF Untouched
<1>3. Inv /\ W /\ W' /\ [Next]_vars => [A]_vars
  <2> SUFFICES ASSUME Inv, Untouched, WordsInv, WordsInv', Next
               PROVE  flash'.hdr = flash.hdr /\ (staging' # None => staging'.hdr = flash.hdr)
      BY Zenon DEF Untouched
  <2>1. flash' = flash \/ staging_to_nvram \/ Reboot
      BY Zenon DEF Next, main, nvram_to_staging, nvram_open, do_args, nvram_commit, nvram_close, unlink
  <2>2. \/ flash' = flash
        \/ /\ WholeStaging /\ (flash' = staging \/ flash' \in Unfinished(flash, staging))
           /\ (staging' = staging \/ staging' = None) /\ pc' \notin {"args", "commit"}
      BY <2>1, Zenon DEF staging_to_nvram, Reboot, Exit
  <2>3. flash'.hdr = flash.hdr
      BY <2>2, WordsFlashed, Zenon
  <2> QED
      BY <2>3, Zenon DEF WordsInv
<1>4. SdramKept <=> [][A]_vars
    BY Zenon DEF SdramKept, Untouched
<1> HIDE DEF W, A
<1> QED
    BY <1>1, <1>2, <1>3, <1>4, Invariant, PTL DEF Spec

------------------------------------------------------------------------------
(* The store.                                                              *)

\* The area has room for every variable at its longest.
Room == RoomBefore(PartSize - 2)

\* Store w has the values that the arguments give their variables.
Effective(args, w) ==
    \A i \in DOMAIN args :
        (args[i].name \in Var /\ \A j \in i + 1 .. Len(args) : args[j].name # args[i].name)
        => w[args[i].name] = args[i].value

RoomInv ==
    /\ pc = "commit" /\ WholeStaging =>
         \A v \in Var : Latest(cmd.args, Len(cmd.args), v, nvram_get(table, v), View(Opened)[v])
    /\ pc \in {"to_flash", "unlink"} /\ cmd.write /\ WholeStaging => Effective(cmd.args, View(staging))
    /\ pc = "close" => ~cmd.commit

\* The length of the mapping of a file of the size of the partition.
LEMMA WholeLength ==
    ASSUME NEW img, img.size = PartSize
    PROVE  Length(img) = PartSize
<1>1. PartSize \in Nat /\ PartSize % 4 = 0
    BY NvramAssumption, Zenon
<1>2. (PartSize \div 4) * 4 = PartSize
    BY <1>1
<1> QED
    BY <1>2, Zenon DEF Length

\* Readers of an image with the tuples of a table see the table.
LEMMA ViewHeld ==
    ASSUME NEW h \in Tables, NEW img \in Image, Parsed(img, Length(img)) = img.tuples,
           OncePerName(img.tuples), Emitted(img.tuples) = Held(h), NEW v \in Var
    PROVE  View(img)[v] = nvram_get(h, v)
<1> DEFINE q == img.tuples
           g == nvram_get(h, v)
<1>0. v \in Name /\ g \in Val \cup {None}
    BY GetType, Zenon DEF Name
<1>1. Latest(q, Len(q), v, g, None)
  <2>1. CASE g = None
    <3>1. \A j \in 1 .. Len(q) : q[j] \in Held(h)
        BY Zenon DEF Emitted
    <3>2. \A j \in 1 .. Len(q) : q[j].value \in Val /\ nvram_get(h, q[j].name) = q[j].value
        BY <3>1, Zenon DEF Held, Tuple
    <3>n. None \notin Val
        BY NvramAssumption, Zenon
    <3>3. \A j \in 1 .. Len(q) : q[j].name # v
        BY <2>1, <3>2, <3>n, Zenon
    <3> QED
        BY <2>1, <3>3, Zenon DEF Latest
  <2>2. CASE g # None
    <3> DEFINE t == [name |-> v, value |-> g]
    <3>1. t \in Held(h)
        BY <1>0, <2>2, Zenon DEF Held, Tuple
    <3>2. PICK j \in 1 .. Len(q) : q[j] = t
        BY <3>1, Zenon DEF Emitted
    <3>3. q[j].name = v /\ q[j].value = g
        BY <3>2, SMTT(30)
    <3>4. \A k \in j + 1 .. Len(q) : k \in 1 .. Len(q) /\ k # j
        BY SMTT(30)
    <3>5. \A k \in j + 1 .. Len(q) : q[k].name # v
        BY <3>3, <3>4, Zenon DEF OncePerName
    <3> HIDE DEF q, g, t
    <3> QED
        BY <3>3, <3>5, ZenonT(60), Zenon DEF Latest
  <2> QED
      BY <2>1, <2>2, Zenon
<1> QED
    BY <1>1, ViewIs, Zenon

\* A value has room if every tuple has.
LEMMA ValueFits ==
    ASSUME NEW length \in Nat, RoomBefore(length - 2), NEW t \in Tuple
    PROVE  Width[t.value] + 1 <= length
<1>1. PICK B \in Nat : (\A s \in Tuple : Bytes(s) <= B) /\ Hdr + Cardinality(Name) * B <= length - 2
    BY Zenon DEF RoomBefore
<1> DEFINE q == <<t>>
           c == Cardinality(Name)
           m == Hdr + c * B
<1>2. IsFiniteSet(Name)
    BY Zenon DEF RoomBefore
<1>3. q \in Seq(Tuple) /\ Len(q) = 1 /\ q[1] = t
    OBVIOUS
<1>4. OncePerName(q)
    BY <1>3, SMTT(30) DEF OncePerName
<1> HIDE DEF q
<1>5. EndOf(q)[1] <= m
    BY <1>1, <1>2, <1>3, <1>4, NamesFit, ZenonT(60), Zenon
<1>6. EndOf(q)[1] = EndOf(q)[1 - 1] + Bytes(t) /\ EndOf(q)[0] = Hdr
    BY <1>3, EndOfIs
<1>7. c \in Nat /\ Hdr \in Nat
    BY <1>2, FS_CardinalityType, NvramAssumption, Zenon
<1>8. m <= length - 2
    BY <1>1, Zenon
<1> HIDE DEF c
<1>9. c * B \in Nat
    BY <1>7
<1>10. m \in Nat
    BY <1>7, <1>9, SMTT(30)
<1> HIDE DEF m
<1>11. Bytes(t) \in Nat /\ Width[t.value] \in Nat /\ Bytes(t) >= Width[t.value] + 2
    BY BytesNat, Zenon
<1>12. Hdr + Bytes(t) <= m
    BY <1>5, <1>6, SMTT(30)
<1> QED
    BY <1>7, <1>8, <1>10, <1>11, <1>12, SMTT(30)

\* Applying the arguments to a table that says what the image says.
LEMMA ArgsApplied ==
    ASSUME Room, Inv, TableFaithful, do_args, Opened.size = PartSize
    PROVE  \A v \in Var : Latest(cmd.args, Len(cmd.args), v, nvram_get(table', v), View(Opened)[v])
<1> SUFFICES ASSUME NEW v \in Var
             PROVE  Latest(cmd.args, Len(cmd.args), v, nvram_get(table', v), View(Opened)[v])
    BY Zenon
<1>1. pc = "args" /\ table' = Applied(table, cmd.args, size)
    BY Zenon DEF do_args
<1>2. table \in Tables /\ cmd \in Commands /\ size = Length(Opened) /\ nvram_get(table, v) = View(Opened)[v]
    BY <1>1, Zenon DEF Inv, Control, TableFaithful
<1>3. size = PartSize
    BY <1>2, WholeLength, Zenon
<1>5. size \in Nat /\ RoomBefore(size - 2)
    BY <1>3, NvramAssumption, Zenon DEF Room
<1> DEFINE q == cmd.args
<1>6. q \in Seq(Arg)
    BY <1>2, CommandAssumption, Zenon DEF Command
<1>7. v \in Name
    BY Zenon DEF Name
<1>8. ASSUME NEW i \in 1 .. Len(q), q[i].name = v, q[i].value # None
      PROVE  Width[q[i].value] + 1 <= size
  <2> DEFINE t == [name |-> v, value |-> q[i].value]
  <2>1. q[i] \in Arg
      BY <1>6, SMTT(30)
  <2>2. t \in Tuple
      BY <1>7, <1>8, <2>1, Zenon DEF Arg, Tuple
  <2>3. Width[t.value] + 1 <= size
      BY <1>5, <2>2, ValueFits, ZenonT(60), Zenon
  <2> QED
      BY <2>3, Zenon
<1> HIDE DEF q
<1>9. Latest(q, Len(q), v, nvram_get(Applied(table, q, size), v), nvram_get(table, v))
    BY <1>2, <1>6, <1>7, <1>8, AppliedIs, Zenon
<1> QED
    BY <1>1, <1>2, <1>9, Zenon DEF q

\* What nvram_commit() does to the staging file.
LEMMA CommitFits ==
    ASSUME Room, Inv, nvram_commit, WholeStaging
    PROVE  staging' # None /\ \A v \in Var : View(staging')[v] = nvram_get(table, v)
<1>1. pc = "commit" /\ staging' = Regenerated(table, size, staging)
    BY Zenon DEF nvram_commit
<1>2. /\ table \in Tables /\ staging \in Image /\ staging # None
      /\ size = Length(staging) /\ size \in Hdr + 4 .. PartSize /\ size % 4 = 0
    BY <1>1, AtCommit, Zenon
<1>3. size = PartSize
    BY <1>2, WholeLength, Zenon DEF WholeStaging
<1>4. size \in Nat /\ size >= Hdr + 4 /\ size \in size .. PartSize /\ RoomBefore(size - 2)
    BY <1>2, <1>3, NvramAssumption, SMTT(30) DEF Room
<1> DEFINE new == Regenerated(table, size, staging)
<1>5. /\ new \in Image /\ new.size = staging.size /\ new.tuples = Emit(table, size).tuples
      /\ Parsed(new, size) = new.tuples
    BY <1>2, <1>4, RegeneratedIs, ZenonT(60), Zenon
<1>7. OncePerName(new.tuples) /\ Emitted(new.tuples) = Held(table)
  <2>1. LET q == Emit(table, size).tuples
        IN  OncePerName(q) /\ Emitted(q) = Held(table)
      BY <1>2, <1>4, EmitComplete, Zenon
  <2> HIDE DEF new
  <2> QED
      BY <1>5, <2>1, Zenon
<1> HIDE DEF new
<1>8. Length(new) = size
    BY <1>2, <1>5, Zenon DEF Length
<1>9. \A v \in Var : View(new)[v] = nvram_get(table, v)
    BY <1>2, <1>5, <1>7, <1>8, ViewHeld, ZenonT(60)
<1>10. new # None
    BY <1>5, NoneAssumption, Zenon
<1>11. staging' = new
    BY <1>1, Zenon DEF new
<1> QED
    BY <1>9, <1>10, <1>11, Zenon

LEMMA LatestEffective ==
    ASSUME NEW q \in Seq(Arg), NEW w, NEW old, \A v \in Var : Latest(q, Len(q), v, w[v], old[v])
    PROVE  Effective(q, w)
<1> SUFFICES ASSUME NEW i \in 1 .. Len(q), q[i].name \in Var,
                    \A j \in i + 1 .. Len(q) : q[j].name # q[i].name
             PROVE  w[q[i].name] = q[i].value
    BY SMTT(30) DEF Effective
<1> DEFINE v == q[i].name
<1>1. Latest(q, Len(q), v, w[v], old[v])
    BY Zenon
<1>2. PICK j \in 1 .. Len(q) : q[j].name = v /\ w[v] = q[j].value /\ \A k \in j + 1 .. Len(q) : q[k].name # v
    BY <1>1, Zenon DEF Latest
<1>3. Len(q) \in Nat
    BY SMTT(30)
<1>4. i = j \/ i \in j + 1 .. Len(q) \/ j \in i + 1 .. Len(q)
    BY <1>3, SMTT(30)
<1> QED
    BY <1>2, <1>4, Zenon

LEMMA RoomInit ==
    ASSUME Init
    PROVE  RoomInv
BY Zenon DEF Init, RoomInv

\* A step that ends an invocation or comes before the loop over its arguments.
LEMMA RoomSame ==
    ASSUME pc' \notin {"commit", "to_flash", "unlink", "close"}
    PROVE  RoomInv'
BY Zenon DEF RoomInv


LEMMA RoomNext ==
    ASSUME Room, Inv, RoomInv, TableFaithful, [Next]_vars
    PROVE  RoomInv'
<1>1. CASE main \/ nvram_to_staging \/ nvram_open \/ nvram_close \/ unlink \/ Reboot
  <2>1. pc' \notin {"commit", "to_flash", "unlink", "close"}
      BY <1>1, Zenon DEF main, nvram_to_staging, nvram_open, nvram_close, unlink, Reboot, Exit
  <2> QED
      BY <2>1, RoomSame, Zenon
<1>3. CASE do_args
  <2>1. /\ flash' = flash /\ staging' = staging /\ cmd' = cmd
        /\ pc' \in {"commit", "to_flash", "close"}
        /\ pc' = "to_flash" => ~cmd.write
        /\ pc' = "close" => ~cmd.commit
      BY <1>3, Zenon DEF do_args
  <2>2. Opened' = Opened
      BY <2>1, Zenon DEF Opened
  <2>3. View(Opened)' = View(Opened)
      BY <2>2, Zenon
  <2>4. ASSUME WholeStaging'
        PROVE  \A v \in Var : Latest(cmd.args, Len(cmd.args), v, nvram_get(table', v), View(Opened)[v])
    <3>1. Opened.size = PartSize
        BY <2>1, <2>4, Zenon DEF WholeStaging, Opened
    <3> QED
        BY <1>3, <3>1, ArgsApplied, Zenon
  <2>5. WholeStaging' => \A v \in Var : Latest(cmd'.args, Len(cmd'.args), v, nvram_get(table', v), View(Opened)'[v])
      BY <2>1, <2>3, <2>4, Zenon
  <2> QED
      BY <2>1, <2>5, Zenon DEF RoomInv
<1>4. CASE nvram_commit
  <2>1. pc = "commit" /\ flash' = flash /\ cmd' = cmd /\ pc' = IF cmd.commit THEN "to_flash" ELSE "close"
      BY <1>4, Zenon DEF nvram_commit
  <2>2. WholeStaging' => WholeStaging
    <3>1. staging' = Regenerated(table, size, staging) /\ staging # None
        BY <1>4, <2>1, AtCommit, Zenon DEF nvram_commit
    <3>2. staging'.size = staging.size
        BY <3>1, Zenon DEF Regenerated
    <3> QED
        BY <3>1, <3>2, Zenon DEF WholeStaging
  <2>3. cmd.args \in Seq(Arg)
      BY <2>1, AtCommit, CommandAssumption, Zenon DEF Command
  <2>4. ASSUME WholeStaging
        PROVE  Effective(cmd.args, View(staging'))
    <3>1. \A v \in Var : View(staging')[v] = nvram_get(table, v)
        BY <1>4, <2>4, CommitFits, Zenon
    <3>2. \A v \in Var : Latest(cmd.args, Len(cmd.args), v, View(staging')[v], View(Opened)[v])
        BY <2>1, <2>4, <3>1, Zenon DEF RoomInv
    <3> QED
        BY <2>3, <3>2, LatestEffective, Zenon
  <2> QED
      BY <2>1, <2>2, <2>4, Zenon DEF RoomInv
<1>5. CASE staging_to_nvram
  <2>1. CASE pc' = "unlink" /\ cmd' = cmd
    <3>1. staging' = staging /\ pc = "to_flash"
        BY <1>5, Zenon DEF staging_to_nvram
    <3>2. WholeStaging' <=> WholeStaging
        BY <3>1, Zenon DEF WholeStaging
    <3> QED
        BY <2>1, <3>1, <3>2, Zenon DEF RoomInv
  <2>2. CASE pc' = "idle"
      BY <2>2, RoomSame, Zenon
  <2> QED
      BY <1>5, <2>1, <2>2, Zenon DEF staging_to_nvram, Exit
<1>6. CASE UNCHANGED vars
  <2>1. flash' = flash /\ staging' = staging /\ pc' = pc /\ table' = table /\ cmd' = cmd
      BY <1>6, Zenon DEF vars
  <2>2. Opened' = Opened /\ (WholeStaging' <=> WholeStaging)
      BY <2>1, Zenon DEF Opened, WholeStaging
  <2>3. View(Opened)' = View(Opened)
      BY <2>2, Zenon
  <2> QED
      BY <2>1, <2>2, <2>3, Zenon DEF RoomInv
<1> QED
    BY <1>1, <1>3, <1>4, <1>5, <1>6 DEF Next

\* With room for every variable, what holds besides Inv.
LEMMA RoomInvariant ==
    ASSUME Room
    PROVE  Spec => []RoomInv
<1>1. Init => RoomInv
    BY RoomInit, Zenon
<1>2. Inv /\ TableFaithful /\ RoomInv /\ [Next]_vars => RoomInv'
    BY RoomNext, Zenon
<1> QED
    BY <1>1, <1>2, Invariant, TablesFaithful, PTL DEF Spec

\* An invocation that starts with set or unset and contains commit exits with 0
\* only after unlink(), when staging_to_nvram() has written an image to the
\* partition in which readers find the last value given to every variable, or
\* write() to the partition failed: its result is not looked at.
THEOREM SavedOnExit ==
    ASSUME Room
    PROVE  Spec => SavedOnSuccess
<1> DEFINE A == (cmd.write /\ cmd.commit /\ stat = None /\ stat' = 0 /\ ~lost) => Effective(cmd.args, View(flash'))
<1>1. Inv /\ RoomInv /\ [Next]_vars => [A]_vars
  <2> SUFFICES ASSUME Inv, RoomInv, Next, cmd.write, cmd.commit, stat = None, stat' = 0, ~lost
               PROVE  Effective(cmd.args, View(flash'))
      BY Zenon
  <2>1. None # 0
      BY NoneAssumption, Zenon
  <2>2. CASE nvram_close
      BY <2>2, ZenonT(60), Zenon DEF nvram_close, RoomInv
  <2>3. CASE unlink
    <3>1. pc = "unlink" /\ flash' = flash
        BY <2>3, Zenon DEF unlink
    <3>2. Effective(cmd.args, View(staging)) /\ staging = flash
        BY <3>1, Zenon DEF RoomInv, Inv, Control
    <3> QED
        BY <3>1, <3>2, Zenon
  <2>4. CASE main \/ do_args \/ nvram_commit \/ Reboot
    <3>1. stat' \in {stat, None}
        BY <2>4, Zenon DEF main, do_args, nvram_commit, Reboot
    <3> QED
        BY <2>1, <3>1, Zenon
  <2>5. CASE nvram_to_staging \/ nvram_open \/ staging_to_nvram
    <3>1. stat' \in {stat, 1, -1}
        BY <2>5, Zenon DEF nvram_to_staging, nvram_open, staging_to_nvram, Exit, Status
    <3> QED
        BY <2>1, <3>1
  <2> QED
      BY <2>2, <2>3, <2>4, <2>5, Zenon DEF Next
<1>2. SavedOnSuccess <=> [][A]_vars
    BY Zenon DEF SavedOnSuccess, Effective
<1>3. Spec => []RoomInv
    BY RoomInvariant, Zenon
<1> HIDE DEF A
<1> QED
    BY <1>1, <1>2, <1>3, Invariant, PTL DEF Spec

LEMMA ViewType ==
    ASSUME NEW img \in Image
    PROVE  View(img) \in [Var -> Val \cup {None}]
<1> DEFINE q == img.tuples
           F(v) == IF Tuples(img, v) = {} THEN None ELSE q[LastOf(Tuples(img, v))].value
<1>1. View(img) = [v \in Var |-> F(v)]
    BY Zenon DEF View
<1>2. q \in Seq(Tuple)
    BY Zenon DEF Image
<1>3. Len(q) \in Nat /\ DOMAIN q = 1 .. Len(q)
    BY <1>2
<1>4. ASSUME NEW v \in Var, Tuples(img, v) # {}
      PROVE  F(v) \in Val
  <2> DEFINE S == Tuples(img, v)
  <2>0. \A i \in S : i \in 1 .. Len(q)
      BY <1>3, Zenon DEF Tuples
  <2>1. S \in SUBSET (0 .. Len(q))
    <3> HIDE DEF S, q
    <3> QED
        BY <1>3, <2>0
  <2>2. S # {}
      BY <1>4, Zenon
  <2> HIDE DEF S
  <2>3. PICK m \in S : \A y \in S : m >= y
      BY <1>3, <2>1, <2>2, GreatestNatural, Zenon
  <2>4. LastOf(S) \in S
      BY <2>3, Zenon DEF LastOf
  <2> DEFINE k == LastOf(S)
  <2>5. k \in 1 .. Len(q)
      BY <2>0, <2>4, ZenonT(60), Zenon
  <2> HIDE DEF k, q
  <2>t. q[k] \in Tuple
      BY <1>2, <2>5
  <2>6. q[k].value \in Val
      BY <2>t, Zenon DEF Tuple
  <2> QED
      BY <1>4, <2>6, ZenonT(60), Zenon DEF S, k
<1>5. \A v \in Var : F(v) \in Val \cup {None}
    BY <1>4, Zenon
<1> HIDE DEF F
<1> QED
    BY <1>1, <1>5, Zenon

\* The arguments take effect together when the staging image is regenerated.
LEMMA CommitUpdates ==
    ASSUME Room, Inv, RoomInv, nvram_commit, WholeStaging, Trust = "full", Trust' = "full"
    PROVE  Store!Update
<1> DEFINE q == cmd.args
           cur == View(Opened)
           new == View(staging')
           F(v) == IF Store!Given(q, v) = {} THEN cur[v] ELSE q[Store!LastOf(Store!Given(q, v))].value
<1>1. pc = "commit" /\ flash' = flash /\ reboots' = reboots
    BY Zenon DEF nvram_commit
<1>2. cmd \in Commands /\ cmd.write
    BY <1>1, AtCommit, Zenon
<1>3. q \in Seq(Arg)
    BY <1>2, CommandAssumption, Zenon DEF Command
<1>4. staging' # None /\ \A v \in Var : new[v] = nvram_get(table, v)
    BY CommitFits, Zenon
<1>5. \A v \in Var : Latest(q, Len(q), v, new[v], cur[v])
    BY <1>1, <1>4, Zenon DEF RoomInv
<1>6. ASSUME NEW v \in Var
      PROVE  new[v] = F(v)
  <2> DEFINE At == {i \in 1 .. Len(q) : q[i].name = v}
  <2>1. Store!Given(q, v) = At
      BY <1>3 DEF Store!Given
  <2>2. Store!LastOf(At) = LastOf(At)
      BY Zenon DEF Store!LastOf, LastOf
  <2>3. Len(q) \in Nat
      BY <1>3
  <2>4. Latest(q, Len(q), v, new[v], cur[v])
      BY <1>5, Zenon
  <2> DEFINE n == Len(q)
             x == new[v]
             y == cur[v]
  <2>a. At = {i \in 1 .. n : q[i].name = v} /\ n \in Nat /\ Latest(q, n, v, x, y)
      BY <2>3, <2>4, Zenon
  <2> HIDE DEF q, At, n, x, y
  <2>5. x = IF At = {} THEN y ELSE q[LastOf(At)].value
      BY <2>a, LatestIs
  <2> QED
      BY <2>1, <2>2, <2>5, ZenonT(60), Zenon DEF x, y
<1>7. new = [v \in Var |-> new[v]]
    BY Zenon DEF View
<1>8. Opened' = staging'
    BY <1>4, Zenon DEF Opened
<1>9. new = [v \in Var |-> F(v)]
  <2> HIDE DEF new, F
  <2> QED
      BY <1>6, <1>7, ZenonT(60), Zenon
<1>10. new = Store!Changed(cur, q)
    BY <1>9, Zenon DEF Store!Changed
<1>11. q \in {c.args : c \in {d \in Commands : d.write}}
    BY <1>2, Zenon
<1>12. View(Opened)' \in {Store!Changed(View(Opened), args) : args \in {c.args : c \in {d \in Commands : d.write}}}
  <2>1. View(Opened)' = Store!Changed(View(Opened), q)
      BY <1>8, <1>10, Zenon
  <2> HIDE DEF q
  <2> QED
      BY <1>11, <2>1, Zenon
<1>13. View(flash)' = View(flash)
    BY <1>1, Zenon
<1> QED
    BY <1>1, <1>12, <1>13, Zenon DEF Store!Update

\* A step in a store that cannot be relied on, before it or after it.
LEMMA StoreDamaged ==
    ASSUME Inv, Inv', [Next]_vars, Trust = "none" \/ Trust' = "none"
    PROVE  Store!Damaged
<1>1. View(Opened)' \in Store!Vars /\ View(flash)' \in Store!Vars
  <2>1. Opened' \in Image /\ flash' \in Image
      BY Zenon DEF Inv, TypeOK, Opened
  <2> QED
      BY <2>1, ViewType, Zenon DEF Store!Vars
<1>2. reboots' \in {reboots, reboots + 1}
    BY Zenon DEF Next, main, nvram_to_staging, nvram_open, do_args, nvram_commit, nvram_close, staging_to_nvram,
                 unlink, Reboot, vars
<1>3. Trust' \in {"none", "saved", "full"}
    BY Zenon DEF Trust
<1> QED
    BY <1>1, <1>2, <1>3, Zenon DEF Store!Damaged

LEMMA ShortOrWhole ==
    ASSUME NEW img \in Image
    PROVE  img.size < PartSize <=> img.size # PartSize
<1>1. img.size \in 0 .. PartSize
    BY Zenon DEF Image
<1> DEFINE z == img.size
<1> HIDE DEF z
<1>2. z \in 0 .. PartSize
    BY <1>1, Zenon DEF z
<1>3. z < PartSize <=> z # PartSize
    BY <1>2, NvramAssumption
<1> QED
    BY <1>3, Zenon DEF z

\* Every step of an invocation is one of the store, or changes nothing there.
LEMMA StoreNext ==
    ASSUME Room, Inv, Inv', RoomInv, [Next]_vars
    PROVE  [Store!Next]_(<<View(Opened), View(flash), Trust, reboots>>)
<1>1. CASE Trust = "none" \/ Trust' = "none"
    BY <1>1, StoreDamaged, Zenon DEF Store!Next
<1>2. CASE Trust # "none" /\ Trust' # "none"
  <2>1. /\ flash.body = "whole" /\ ~lost
        /\ staging = None \/ WholeStaging => Trust = "full"
        /\ staging # None /\ ~WholeStaging => Trust = "saved"
      BY <1>2, ShortOrWhole, ZenonT(60), Zenon DEF Trust, WholeStaging, Inv, TypeOK
  <2>2. /\ flash'.body = "whole" /\ ~lost'
        /\ staging' = None \/ WholeStaging' => Trust' = "full"
        /\ staging' # None /\ ~WholeStaging' => Trust' = "saved"
      BY <1>2, ShortOrWhole, ZenonT(60), Zenon DEF Trust, WholeStaging, Inv, TypeOK
  <2>3. View(Opened)' \in Store!Vars
    <3>1. Opened' \in Image
        BY Zenon DEF Inv, TypeOK, Opened
    <3> QED
        BY <3>1, ViewType, Zenon DEF Store!Vars
  <2>4. ASSUME flash' = flash, staging' = staging, reboots' = reboots
        PROVE  UNCHANGED <<View(Opened), View(flash), Trust, reboots>>
    <3>1. Opened' = Opened /\ Trust' = Trust
        BY <2>1, <2>2, <2>4, Zenon DEF Opened, Trust
    <3> QED
        BY <2>4, <3>1, Zenon
  <2>5. CASE main \/ nvram_open \/ do_args \/ nvram_close \/ UNCHANGED vars
    <3>1. flash' = flash /\ staging' = staging /\ reboots' = reboots
        BY <2>5, Zenon DEF main, nvram_open, do_args, nvram_close, vars
    <3> QED
        BY <2>4, <3>1, Zenon
  <2>6. CASE nvram_to_staging
    <3>1. flash' = flash /\ reboots' = reboots /\ staging = None /\ flash \in Image /\ flash.size = PartSize
        BY <2>6, Zenon DEF nvram_to_staging, Inv, Control, Images, TypeOK
    <3>2. CASE staging' = flash
      <4>1. WholeStaging' /\ Opened' = Opened
          BY <3>1, <3>2, NoneAssumption, Zenon DEF WholeStaging, Opened
      <4>2. Trust' = Trust
          BY <2>1, <2>2, <3>1, <4>1, Zenon
      <4> QED
          BY <3>1, <4>1, <4>2, Zenon
    <3>3. CASE Trust' = "saved"
      <4>1. Store!Spoilt
          BY <1>2, <2>3, <3>1, <3>3, Zenon DEF Store!Spoilt
      <4> QED
          BY <4>1, Zenon DEF Store!Next
    <3>4. CASE staging' # None /\ ~WholeStaging'
        BY <2>2, <3>3, <3>4, Zenon
    <3>5. CASE staging' = staging
        BY <2>4, <3>1, <3>5, Zenon
    <3>6. CASE \E n \in Short : staging' = [flash EXCEPT !.size = n]
      <4>1. PICK n \in Short : staging' = [flash EXCEPT !.size = n]
          BY <3>6, Zenon
      <4>2. staging'.size = n
          BY <3>1, <4>1, Zenon DEF Image
      <4>3. n # PartSize
          BY NvramAssumption
      <4>4. ~WholeStaging'
          BY <4>2, <4>3, Zenon DEF WholeStaging
      <4> QED
          BY <3>1, <3>4, <3>5, <4>4, Zenon
    <3> QED
        BY <2>6, <3>2, <3>5, <3>6, Zenon DEF nvram_to_staging
  <2>7. CASE nvram_commit
    <3>1. flash' = flash /\ reboots' = reboots /\ staging # None /\ staging' = Regenerated(table, size, staging)
        BY <2>7, AtCommit, Zenon DEF nvram_commit
    <3>2. staging'.size = staging.size
        BY <3>1, Zenon DEF Regenerated
    <3>3. CASE WholeStaging
      <4>1. staging' # None
          BY <2>7, <3>3, CommitFits, Zenon
      <4>2. Trust = "full" /\ Trust' = "full"
          BY <2>1, <2>2, <3>2, <3>3, <4>1, Zenon DEF WholeStaging
      <4> QED
          BY <2>7, <3>3, <4>2, CommitUpdates, Zenon DEF Store!Next
    <3>4. CASE ~WholeStaging
      <4>1. staging' # None /\ ~WholeStaging'
        <5>1. staging' # None
            BY <2>7, CommittedImage, Zenon
        <5> QED
            BY <3>1, <3>2, <3>4, <5>1, Zenon DEF WholeStaging
      <4>2. Trust' = "saved"
          BY <2>2, <4>1, Zenon
      <4>3. Store!Spoilt
          BY <1>2, <2>3, <3>1, <4>2, Zenon DEF Store!Spoilt
      <4> QED
          BY <4>3, Zenon DEF Store!Next
    <3> QED
        BY <3>3, <3>4, Zenon
  <2>8. CASE staging_to_nvram
    <3>1. staging' = staging /\ reboots' = reboots
        BY <2>8, Zenon DEF staging_to_nvram
    <3>2. CASE WholeStaging /\ flash' = staging
      <4>1. Opened = staging /\ Opened' = staging /\ WholeStaging'
          BY <3>1, <3>2, Zenon DEF Opened, WholeStaging
      <4>2. Trust = "full" /\ Trust' = "full"
          BY <2>1, <2>2, <3>2, <4>1, Zenon
      <4>3. Store!Commit
          BY <3>1, <3>2, <4>1, <4>2, Zenon DEF Store!Commit
      <4> QED
          BY <4>3, Zenon DEF Store!Next
    <3>3. CASE flash' = flash
        BY <2>4, <3>1, <3>3, Zenon
    <3> QED
        BY <2>2, <2>8, <3>2, <3>3, Zenon DEF staging_to_nvram
  <2>9. CASE unlink
    <3>1. /\ staging = flash /\ flash' = flash /\ reboots' = reboots /\ WholeStaging
          /\ staging' = staging \/ staging' = None
        BY <2>1, <2>9, Zenon DEF unlink, Inv, Control
    <3>2. Opened = flash /\ Opened' = flash
        BY <3>1, Zenon DEF Opened
    <3>3. staging' = None \/ WholeStaging'
        BY <3>1, Zenon DEF WholeStaging
    <3>4. Trust' = Trust
        BY <2>1, <2>2, <3>1, <3>3, Zenon
    <3> QED
        BY <3>1, <3>2, <3>4, Zenon
  <2>10. CASE Reboot
    <3>1. staging' = None /\ reboots' = reboots + 1
        BY <2>10, Zenon DEF Reboot
    <3>2. flash' = flash
      <4>1. CASE WholeStaging /\ flash' \in Unfinished(flash, staging)
        <5>1. flash \in Image /\ staging \in Image /\ staging.size = PartSize
            BY <4>1, Zenon DEF WholeStaging, Inv, TypeOK
        <5> QED
            BY <2>2, <4>1, <5>1, UnfinishedIs, Zenon
      <4> QED
          BY <2>10, <4>1, Zenon DEF Reboot
    <3>3. Opened' = flash /\ Trust' = "full"
        BY <2>2, <3>1, <3>2, Zenon DEF Opened
    <3>4. Store!Reboot
        BY <1>2, <3>1, <3>2, <3>3, Zenon DEF Store!Reboot
    <3> QED
        BY <3>4, Zenon DEF Store!Next
  <2> QED
      BY <2>5, <2>6, <2>7, <2>8, <2>9, <2>10, Zenon DEF Next
<1> QED
    BY <1>1, <1>2, Zenon

\* With room for every variable the nvram command is the store of NvramStore:
\* the arguments of an invocation take effect together, commit saves what readers
\* already see, and a reboot between any two system calls goes back to what was
\* saved, whether the invocation is understood to its end, whatever call of it
\* fails and at whatever point it does.  Only two failures break the promise,
\* those of the two write() calls whose result is not looked at: a /tmp that is
\* full spoils what readers see until a reboot and never what is saved, and
\* nothing is promised from a write() to the partition that fails until the
\* partition holds a whole image again and the next invocation starts.
THEOREM StoreRefined ==
    ASSUME Room
    PROVE  Spec => StoreSpec
<1>1. Init => Store!Init
  <2> SUFFICES ASSUME Init
               PROVE  Store!Init
      BY Zenon
  <2>1. Opened = flash /\ flash \in Image /\ reboots = 0 /\ Trust = "full"
      BY FlashAssumption, Zenon DEF Init, Opened, Trust
  <2> QED
      BY <2>1, ViewType, Zenon DEF Store!Init, Store!Vars
<1>2. Inv /\ Inv' /\ RoomInv /\ [Next]_vars => [Store!Next]_(<<View(Opened), View(flash), Trust, reboots>>)
    BY StoreNext, Zenon
<1>3. Spec => []RoomInv
    BY RoomInvariant
<1> QED
    BY <1>1, <1>2, <1>3, Invariant, PTL DEF Spec, StoreSpec, Store!Spec
==============================================================================
