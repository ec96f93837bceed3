------------------------------ MODULE DescFormat ------------------------------
(***************************************************************************)
(* The DESC section at the end of a .template or .tmp file: how            *)
(* JigdoDescVec::put() (src/mkimage.cc) writes the list of parts of an     *)
(* image, and how JigdoDesc::seekFromEnd() and JigdoDescVec::get() read it *)
(* back, from a file that may have been cut off or changed since.          *)
(*                                                                         *)
(* A file is a sequence of bytes.  A byte has Base values instead of 256,  *)
(* the widths of all fields are those of the format.  A digest is a byte   *)
(* repeated as often as the digest is long: only equality of digests       *)
(* matters.                                                                *)
(***************************************************************************)
EXTENDS Integers, Sequences, SequencesExt, FiniteSetsExt

CONSTANTS Base,       \* number of values of a byte
          Lists,      \* the lists of entries that are written
          Before,     \* what the file may hold in front of the section
          MaxLen,     \* upper limit of the length of a section (256 MB)
          SumChoices,    \* the checksums of the template that --check-... selects
          Changes     \* what happens to the file before it is read again

DescAssumption == /\ Base \in Nat /\ Base > 15
                         /\ MaxLen \in Nat /\ MaxLen > 45
                         /\ SumChoices \subseteq {"md5", "sha256"}

\* "DESC", byte by byte
Magic == <<4, 5, 3, 12>>

\* enum Type of an entry
OBSOLETE_IMAGE_INFO == 1
UNMATCHED_DATA == 2
OBSOLETE_MATCHED_FILE == 3
OBSOLETE_WRITTEN_FILE == 4
IMAGE_INFO_MD5 == 5
MATCHED_FILE_MD5 == 6
WRITTEN_FILE_MD5 == 7
IMAGE_INFO_SHA256 == 8
MATCHED_FILE_SHA256 == 9
WRITTEN_FILE_SHA256 == 10

ImageInfo == {OBSOLETE_IMAGE_INFO, IMAGE_INFO_MD5, IMAGE_INFO_SHA256}
FileMd5 == {MATCHED_FILE_MD5, WRITTEN_FILE_MD5}
FileSha256 == {MATCHED_FILE_SHA256, WRITTEN_FILE_SHA256}
ObsoleteFile == {OBSOLETE_MATCHED_FILE, OBSOLETE_WRITTEN_FILE}

VARIABLES list,     \* the JigdoDescVec that was written
          choice,   \* checksumChoice
          file,     \* the bytes of the file
          change,   \* what was done to it: a record of Changes
          start,    \* where the section begins in the file
          md, sd,   \* the bytes that were passed on to the MD5Sum and the SHA256Sum
          bufLen,   \* length of the buffer of put()
          used,     \* the bytes of it that were used at most
          pos,      \* position of the reader in the file
          state,    \* what the program does
          len,      \* length of the entries, as read
          read,     \* bytes of entries that were read
          off,      \* offset in the image
          got       \* the entries that were read

written == <<list, choice, md, sd, bufLen, used, start>>
vars == <<written, file, change, pos, state, len, read, off, got>>

-------------------------------------------------------------------------------
(* Numbers of n bytes, the lowest byte first *)

\* Mutant: the bytes are not masked
SerializeWide(x, n) == [i \in 1..n |-> x \div (Base^(i - 1))]

Serialize(x, n) == [i \in 1..n |-> (x \div (Base^(i - 1))) % Base]

Unserialize(bytes) ==
    FoldRight(LAMBDA b, value : b + (Base * value), bytes, 0)

Digest(d, n) == [i \in 1..n |-> d]

\* The fields of an entry of a type, after the type itself and the length
RsyncLen(type) == IF type \in FileMd5 \cup FileSha256 THEN 8 ELSE 0

DigestLen(type) ==
    CASE type = UNMATCHED_DATA -> 0
      [] type \in {IMAGE_INFO_SHA256} \cup FileSha256 -> 32
      [] OTHER -> 16

BlockLen(type) == IF type \in {IMAGE_INFO_MD5, IMAGE_INFO_SHA256} THEN 4 ELSE 0

SerialSizeOf(type) == 1 + 6 + RsyncLen(type) + DigestLen(type) + BlockLen(type)

SerializeEntry(e) ==
    <<e.type>> \o Serialize(e.size, 6) \o Digest(e.rsync, RsyncLen(e.type))
        \o Digest(e.digest, DigestLen(e.type)) \o Serialize(e.blockLength, BlockLen(e.type))

\* operator==: written and matched files are the same, areas of unmatched
\* data of the same size also, at whichever offset
Kind(type) ==
    CASE type \in FileMd5 \cup ObsoleteFile -> "fileMd5"
      [] type \in FileSha256 -> "fileSha256"
      [] type \in {OBSOLETE_IMAGE_INFO, IMAGE_INFO_MD5} -> "imageMd5"
      [] type = IMAGE_INFO_SHA256 -> "imageSha256"
      [] OTHER -> "unmatched"

SameEntry(a, b) ==
    /\ Kind(a.type) = Kind(b.type)
    /\ a.size = b.size /\ a.digest = b.digest
    /\ Kind(a.type) \in {"fileMd5", "fileSha256"} => a.offset = b.offset

SameList(a, b) == Len(a) = Len(b) /\ \A i \in DOMAIN a : SameEntry(a[i], b[i])

\* Entries of an older version of the program become entries of today's types
NewType(type) ==
    CASE type = OBSOLETE_IMAGE_INFO -> IMAGE_INFO_MD5
      [] type = OBSOLETE_MATCHED_FILE -> MATCHED_FILE_MD5
      [] type = OBSOLETE_WRITTEN_FILE -> WRITTEN_FILE_MD5
      [] OTHER -> type

SumOfSizes(l) == FoldLeft(LAMBDA sum, e : IF e.type \in ImageInfo THEN sum ELSE sum + e.size, 0, l)

\* The entries of a list as the objects of the classes: with their offsets
\* in the image and whole digests
Entries(l) ==
    [i \in DOMAIN l |->
        [type |-> NewType(l[i].type), size |-> l[i].size,
         offset |-> SumOfSizes(SubSeq(l, 1, i - 1)),
         rsync |-> Digest(l[i].rsync, RsyncLen(l[i].type)),
         digest |-> Digest(l[i].digest, DigestLen(l[i].type)),
         blockLength |-> l[i].blockLength]]

-------------------------------------------------------------------------------
Init ==
    /\ list \in Lists /\ choice \in SumChoices
    /\ file \in Before
    /\ change = [kind |-> "none"]
    /\ start = 0 /\ md = <<>> /\ sd = <<>> /\ bufLen = 0 /\ used = 0
    /\ pos = 0 /\ state = "put"
    /\ len = 0 /\ read = 0 /\ off = 0 /\ got = <<>>

\* Mutant: the two choices are mixed up
SumsSwapped(bytes) ==
    /\ md' = IF choice = "sha256" THEN md \o bytes ELSE md
    /\ sd' = IF choice = "md5" THEN sd \o bytes ELSE sd

Sums(bytes) ==
    /\ md' = IF choice = "md5" THEN md \o bytes ELSE md
    /\ sd' = IF choice = "sha256" THEN sd \o bytes ELSE sd

DescLen == 16 + FoldLeft(LAMBDA sum, e : sum + SerialSizeOf(e.type), 0, list)

\* Mutant: the buffer has room for the header only
PutHeaderTight ==
    LET bytes == Magic \o Serialize(DescLen, 6)
    IN /\ state = "put"
       /\ bufLen' = 10
       /\ used' = Len(bytes)
       /\ start' = Len(file)
       /\ file' = file \o bytes
       /\ Sums(bytes)
       /\ state' = "entries"
       /\ UNCHANGED <<list, choice, change, pos, len, read, off, got>>

\* The sizes are added up, the start of the section is written
PutHeader ==
    LET bytes == Magic \o Serialize(DescLen, 6)
    IN /\ state = "put"
       /\ bufLen' = Max({10} \cup {SerialSizeOf(list[i].type) : i \in DOMAIN list})
       /\ used' = Len(bytes)
       /\ start' = Len(file)
       /\ file' = file \o bytes
       /\ Sums(bytes)
       /\ state' = "entries"
       /\ UNCHANGED <<list, choice, change, pos, len, read, off, got>>

\* The next entry of the list is written.  "read" counts them.
PutEntry ==
    /\ state = "entries" /\ read < Len(list)
    /\ LET bytes == SerializeEntry(list[read + 1])
       IN /\ used' = Max({used, Len(bytes)})
          /\ file' = file \o bytes
          /\ Sums(bytes)
    /\ read' = read + 1
    /\ UNCHANGED <<list, choice, bufLen, start, change, pos, state, len, off, got>>

\* The length again.  The last six bytes go into both sums.
PutEnd ==
    LET bytes == Serialize(DescLen, 6)
    IN /\ state = "entries" /\ read = Len(list)
       /\ file' = file \o bytes
       /\ md' = md \o bytes /\ sd' = sd \o bytes
       /\ read' = 0 /\ state' = "written"
       /\ UNCHANGED <<list, choice, bufLen, used, start, change, pos, len, off, got>>

\* The file is cut off, or one of its bytes is changed, or nothing happens
Change ==
    /\ state = "written"
    /\ \E c \in Changes :
        /\ c.kind = "cut" => c.by <= Len(file)
        /\ c.kind = "byte" => c.at < Len(file)
        /\ change' = c
        /\ file' = CASE c.kind = "cut"  -> SubSeq(file, 1, Len(file) - c.by)
                     [] c.kind = "byte" -> [file EXCEPT ![Len(file) - c.at] = c.value]
                     [] OTHER           -> file
    /\ state' = "seek"
    /\ UNCHANGED <<written, pos, len, read, off, got>>

-------------------------------------------------------------------------------
(* seekFromEnd().  In a file of less than six bytes the stream fails at    *)
(* once: tellg() returns -1, as an unsigned number larger than any length, *)
(* and nothing is read into the buffer, the last byte of which is 0; it stays*)
(* 0 also for a length of less than four.                                  *)

Fail == state' = "error"

SeekFromEnd ==
    /\ state = "seek"
    /\ LET n == Len(file)
           descLen == Unserialize(SubSeq(file, n - 5, n))
       IN IF n < 6 \/ descLen \notin 4..n \/ SubSeq(file, n - descLen + 1, n - descLen + 4) # Magic
          THEN Fail /\ UNCHANGED pos
          ELSE state' = "length" /\ pos' = n - descLen + 4
    /\ UNCHANGED <<written, file, change, len, read, off, got>>

\* n bytes at the position of the reader; whether the file has them
Bytes(at, n) == SubSeq(file, at + 1, at + n)
Has(at, n) == at + n <= Len(file)

\* get(): the length of the section
GetLength ==
    /\ state = "length"
    /\ LET n == Unserialize(Bytes(pos, 6))
       IN IF ~Has(pos, 6) \/ n < 45 \/ n > MaxLen
          THEN Fail /\ UNCHANGED <<pos, len>>
          ELSE len' = n - 16 /\ pos' = pos + 6 /\ state' = "get"
    /\ UNCHANGED <<written, file, change, read, off, got>>

KnownType(type) == type \in 1..10

\* Mutant: the checksum of the first block is not skipped
EntryAtNoRsync(at, type) ==
    LET digestAt == at + 7
        blockAt == digestAt + DigestLen(type)
    IN [type |-> type, offset |-> off, size |-> Unserialize(Bytes(at + 1, 6)),
        rsync |-> Bytes(at + 7, RsyncLen(type)), digest |-> Bytes(digestAt, DigestLen(type)),
        blockLength |-> Unserialize(Bytes(blockAt, BlockLen(type)))]

\* The entry at the position of the reader
EntryAt(at, type) ==
    LET digestAt == at + 7 + RsyncLen(type)
        blockAt == digestAt + DigestLen(type)
    IN [type |-> type, offset |-> off, size |-> Unserialize(Bytes(at + 1, 6)),
        rsync |-> Bytes(at + 7, RsyncLen(type)), digest |-> Bytes(digestAt, DigestLen(type)),
        blockLength |-> Unserialize(Bytes(blockAt, BlockLen(type)))]

\* One entry.  At the end of the file peek() returns -1: a type of 255.
GetEntry ==
    /\ state = "get" /\ read < len
    /\ IF ~Has(pos, 1) \/ ~KnownType(file[pos + 1])
       THEN Fail /\ UNCHANGED <<pos, read, off, got>>
       ELSE LET type == file[pos + 1]
                size == SerialSizeOf(type)
                e == EntryAt(pos, type)
            IN IF ~Has(pos, size)
               THEN Fail /\ UNCHANGED <<pos, read, off, got>>
               ELSE /\ got' = Append(got, [e EXCEPT !.type = NewType(type)])
                    /\ off' = IF type \in ImageInfo THEN off ELSE off + e.size
                    /\ read' = read + size /\ pos' = pos + size
                    /\ UNCHANGED state
    /\ UNCHANGED <<written, file, change, len>>

\* Mutant: the size of the image is not compared with the sizes of its parts
GetEndUnchecked ==
    /\ state = "get" /\ read >= len
    /\ IF Last(got).type \in ImageInfo THEN state' = "accepted" ELSE Fail
    /\ UNCHANGED <<written, file, change, pos, len, read, off, got>>

\* The last entry has to be the information about the image
GetEnd ==
    /\ state = "get" /\ read >= len
    /\ IF Last(got).type \in ImageInfo /\ Last(got).size = off
       THEN state' = "accepted"
       ELSE Fail
    /\ UNCHANGED <<written, file, change, pos, len, read, off, got>>

Done ==
    /\ state \in {"accepted", "error"}
    /\ UNCHANGED vars

Next ==
    \/ PutHeader \/ PutEntry \/ PutEnd
    \/ Change
    \/ SeekFromEnd \/ GetLength \/ GetEntry \/ GetEnd
    \/ Done

Spec == Init /\ [][Next]_vars

-------------------------------------------------------------------------------
TypeOK ==
    /\ list \in Lists /\ choice \in SumChoices /\ change \in Changes \cup {[kind |-> "none"]}
    /\ file \in Seq(0..Base - 1) /\ start \in Nat
    /\ md \in Seq(0..Base - 1) /\ sd \in Seq(0..Base - 1)
    /\ pos \in 0..Len(file)
    /\ state \in {"put", "entries", "written", "seek", "length", "get", "accepted", "error"}
    /\ bufLen \in Nat /\ used \in Nat /\ len \in Nat /\ read \in Nat /\ off \in Nat
    /\ \A i \in DOMAIN got : KnownType(got[i].type)

\* The section as put() should have written it, checksums and all
Section == SubSeq(file, start + 1, Len(file))

Unchanged == change.kind = "none"

\* put() never writes past the end of its buffer, whichever entries the list
\* has: the guard byte that put() asserts (src/mkimage.cc:344) stays in place.
BufferFits == used <= bufLen

\* When the section is complete, the checksum that was chosen for the
\* template has been given every byte of it, in order.
ChosenSumComplete ==
    (state = "written") => (IF choice = "md5" THEN md ELSE sd) = Section

\* A file that nobody changed is read back as the list that was written,
\* with the offsets that the sizes give, whatever is in front of the section.
RoundTrip ==
    Unchanged =>
        /\ (state = "accepted" => SameList(got, Entries(list)))
        /\ (state = "error" => \A i \in DOMAIN list : list[i].size = 0)

\* What is accepted describes an image: the parts follow each other without
\* a gap, and their sizes add up to the size of the image, named at the end.
AcceptedIsConsistent ==
    state = "accepted" =>
        /\ Last(got).type \in ImageInfo
        /\ \A i \in DOMAIN got : got[i].offset = SumOfSizes(SubSeq(got, 1, i - 1))
        /\ Last(got).size = Last(got).offset

\* The bytes of the section that say what follows or how long something is
\* (as opposed to digests and checksums of blocks): a byte of Changes counts
\* from the end of the file.
EntryStart(i) ==
    10 + FoldLeft(LAMBDA sum, e : sum + SerialSizeOf(e.type), 0, SubSeq(list, 1, i - 1))

Structural(at) ==
    LET p == DescLen - 1 - at      \* position in the section
    IN \/ p < 10 \/ p >= DescLen - 6
       \/ \E i \in DOMAIN list : p \in EntryStart(i)..EntryStart(i) + 6

\* A section that was cut off, or in which a byte of a type or of a length
\* was changed, is rejected or still means the same; at worst a whole older
\* section in front of it is found instead.
DamageDetected ==
    (state = "accepted" /\ (change.kind = "cut" => change.by \in 1..DescLen - 1)
        /\ (change.kind = "byte" => Structural(change.at))) =>
            SameList(got, Entries(list)) \/ pos <= start

\* What put() writes, get() can read: JigdoDescVec is documented as
\* reading and writing DESC sections, the empty image is one.
WrittenIsReadable == Unchanged => state # "error"
===============================================================================
