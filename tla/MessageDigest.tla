----------------------------- MODULE MessageDigest -----------------------------
(***************************************************************************)
(* Objects of MD5Sum and SHA256Sum (src/util/md5sum.*, sha256sum.*,        *)
(* glibc-md5.cc, glibc-sha256.cc): how a message that arrives in pieces of *)
(* any size is cut into blocks, padded, and given its length, and what an  *)
(* object is worth after finish(), finishForReuse(), reset() and copies.   *)
(*                                                                         *)
(* A message is the sequence <<1, 2, ...>>, so that no byte is like        *)
(* another.  The compression function is an injective one: the state of a  *)
(* context is the sequence of all bytes that went into it.  Sizes are      *)
(* scaled: a block has Block bytes instead of 64, the two words of the     *)
(* length at its end take two places instead of eight, a word has          *)
(* 8 * Block values instead of 2^32.                                       *)
(***************************************************************************)
EXTENDS Integers, Sequences, SequencesExt, FiniteSetsExt

CONSTANTS Objects,     \* names of the objects
          Block,       \* bytes of a block
          MaxMessage,  \* bound: length of a message
          MaxChunk,    \* bound: length of one piece
          BufSize,     \* buffer of updateFromStream()
          CopyReused   \* whether objects are copied after finishForReuse()

DigestAssumption == /\ Block \in Nat /\ Block > 3
                           /\ MaxMessage \in Nat /\ MaxChunk \in Nat
                           /\ BufSize \in Nat \ {0}
                           /\ CopyReused \in BOOLEAN

Word == 8 * Block
Room == Block - 2      \* what a block holds besides the length
One == 128             \* the first byte of fillbuf
Junk == <<"junk">>     \* sums and contexts nobody has written to
NoCtx == [none |-> TRUE]

VARIABLES alg,      \* which of the two algorithms
          obj,      \* the objects: their context p and their sum
          fed,      \* what was put in since reset(): the length of the message
          top,      \* how much of the buffer of 2 * Block bytes was written to
          returned  \* what the last updateFromStream() reported, and should have

vars == <<alg, obj, fed, top, returned>>

\* The context after init_ctx(): total is the pair of words, low word first
EmptyCtx == [state |-> <<>>, total |-> <<0, 0>>, buffer |-> <<>>]

md5_init_ctx == EmptyCtx
sha256_init_ctx == EmptyCtx

-------------------------------------------------------------------------------
(* The number of bytes *)

\* Mutant: the low word is not cut off
md5_countWide(total, n) == <<total[1] + n, total[2]>>

\* Two words, with a carry
md5_count(total, n) ==
    LET low == (total[1] + n) % Word
    IN <<low, IF low < n THEN (total[2] + 1) % Word ELSE total[2]>>

\* One word of twice the size
sha256_count(total, n) ==
    LET total64 == (total[1] + (Word * total[2]) + n) % (Word * Word)
    IN <<total64 % Word, total64 \div Word>>

\* The number of bits, in the order in which the algorithm stores it: the low
\* word is shifted left by three bits, the high one takes what falls out
Bits(total) == <<(8 * total[1]) % Word, ((8 * total[2]) % Word) + ((8 * total[1]) \div Word)>>

md5_process_block(ctx, bytes) ==
    [ctx EXCEPT !.state = @ \o bytes, !.total = md5_count(@, Len(bytes))]

sha256_process_block(ctx, bytes) ==
    [ctx EXCEPT !.state = @ \o bytes, !.total = sha256_count(@, Len(bytes))]

-------------------------------------------------------------------------------
(* process_bytes(), the same in both algorithms but for the process_block()*)
(* that they call.  buffer is the part of the buffer in use.               *)

First(s, n) == SubSeq(s, 1, n)
From(s, n) == SubSeq(s, n + 1, Len(s))
Blocks(n) == n - (n % Block)

\* Mutant: the room in the buffer is not looked at
AddAll(buffer, chunk) == Len(chunk)

\* How much is added to the buffer
Add(buffer, chunk) == Min({Len(chunk), (2 * Block) - Len(buffer)})

\* Mutant: one block is assumed
KeptOne(all) == From(all, Block)

\* What stays in the buffer when its blocks were processed
Kept(all) == From(all, Blocks(Len(all)))

\* The bytes that are left in the buffer are completed, up to two blocks, and
\* processed if they are more than one
FillBuffer(ctx, chunk, process(_, _)) ==
    LET add == Add(ctx.buffer, chunk)
        all == ctx.buffer \o First(chunk, add)
    IN [ctx  |-> IF Len(all) > Block
                 THEN [process(ctx, First(all, Blocks(Len(all)))) EXCEPT !.buffer = Kept(all)]
                 ELSE [ctx EXCEPT !.buffer = all],
        rest |-> From(chunk, add), top |-> Len(all)]

\* Whole blocks are processed where they are; if they are not aligned, each is
\* copied to the buffer first, all but the last
WholeBlocks(ctx, chunk, aligned, process(_, _)) ==
    LET n == IF aligned THEN Blocks(Len(chunk)) ELSE Blocks(Len(chunk) - 1)
        done == process(ctx, First(chunk, n))
    IN IF Len(chunk) < Block \/ n = 0
       THEN [ctx |-> ctx, rest |-> chunk]
       ELSE [ctx |-> IF aligned
                     THEN done
                     ELSE [done EXCEPT !.buffer = First(SubSeq(chunk, n - Block + 1, n), Len(@))],
             rest |-> From(chunk, n)]

\* What remains goes to the buffer.  It may be a whole block.
Remaining(ctx, chunk, process(_, _)) ==
    LET all == ctx.buffer \o chunk
    IN IF Len(chunk) > 0 /\ Len(all) >= Block
       THEN [process(ctx, First(all, Block)) EXCEPT !.buffer = From(all, Block)]
       ELSE [ctx EXCEPT !.buffer = all]

ProcessBytes(ctx, chunk, aligned, process(_, _)) ==
    LET one == IF ctx.buffer # <<>>
               THEN FillBuffer(ctx, chunk, process)
               ELSE [ctx |-> ctx, rest |-> chunk, top |-> 0]
        two == WholeBlocks(one.ctx, one.rest, aligned, process)
    IN [ctx |-> Remaining(two.ctx, two.rest, process),
        top |-> Max({one.top, Len(two.ctx.buffer) + Len(two.rest)})]

md5_process_bytes(ctx, chunk, aligned) == ProcessBytes(ctx, chunk, aligned, md5_process_block)
sha256_process_bytes(ctx, chunk, aligned) ==
    ProcessBytes(ctx, chunk, aligned, sha256_process_block)

\* Mutant: no block is added when the buffer has exactly the room
PadShort(n) == IF n > Room THEN Block + Room - n ELSE Room - n

\* The last blocks: a one, zeros up to the place of the length, the length.
\* The rest of the buffer is counted before, the padding is counted too, but
\* the length was taken already.
Pad(n) == IF n >= Room THEN Block + Room - n ELSE Room - n

Padding(n) == [i \in 1..n |-> IF i = 1 THEN One ELSE 0]

\* In little-endian order: the low word first
md5_finish_ctx(ctx) ==
    LET n == Len(ctx.buffer)
        total == md5_count(ctx.total, n)
        last == ctx.buffer \o Padding(Pad(n)) \o Bits(total)
    IN md5_process_block([ctx EXCEPT !.total = total], last)

\* In big-endian order: the high word first
sha256_finish_ctx(ctx) ==
    LET n == Len(ctx.buffer)
        total == sha256_count(ctx.total, n)
        last == ctx.buffer \o Padding(Pad(n)) \o Reverse(Bits(total))
    IN sha256_process_block([ctx EXCEPT !.total = total], last)

ProcessAny(ctx, chunk, aligned) ==
    IF alg = "md5" THEN md5_process_bytes(ctx, chunk, aligned)
    ELSE sha256_process_bytes(ctx, chunk, aligned)

FinishAny(ctx) == IF alg = "md5" THEN md5_finish_ctx(ctx) ELSE sha256_finish_ctx(ctx)

-------------------------------------------------------------------------------
(* The objects.  finished is the flag that a debug build keeps to assert    *)
(* that update() is not called between finish() and reset(): what it       *)
(* forbids, the callers do not do.                                         *)

MD5Sum == [p |-> md5_init_ctx, sum |-> Junk, finished |-> FALSE]
SHA256Sum == [p |-> sha256_init_ctx, sum |-> Junk, finished |-> FALSE]

NoCall == [is |-> 0, should |-> 0]

Init ==
    /\ alg \in {"md5", "sha256"}
    /\ obj = [o \in Objects |-> IF alg = "md5" THEN MD5Sum ELSE SHA256Sum]
    /\ fed = [o \in Objects |-> 0]
    /\ top = 0 /\ returned = NoCall

\* The old sum stays where it is, but nobody reads it any more
reset(o) ==
    /\ fed[o] > 0 \/ obj[o].finished \/ obj[o].p = NoCtx
    /\ obj' = [obj EXCEPT ![o] = [p |-> EmptyCtx, sum |-> Junk, finished |-> FALSE]]
    /\ fed' = [fed EXCEPT ![o] = 0]
    /\ returned' = NoCall
    /\ UNCHANGED <<alg, top>>

Usable(o) == ~obj[o].finished /\ obj[o].p # NoCtx

Chunk(from, n) == [i \in 1..n |-> from + i]

update(o) ==
    /\ Usable(o)
    /\ \E n \in 1..Min({MaxChunk, MaxMessage - fed[o]}), aligned \in BOOLEAN :
        LET r == ProcessAny(obj[o].p, Chunk(fed[o], n), aligned)
        IN /\ obj' = [obj EXCEPT ![o].p = r.ctx]
           /\ top' = Max({top, r.top})
           /\ fed' = [fed EXCEPT ![o] = @ + n]
    /\ returned' = NoCall
    /\ UNCHANGED alg

\* Mutant: what was wanted is returned
updateFromStreamAll(o) ==
    /\ Usable(o)
    /\ \E size, avail \in 0..Min({MaxChunk, MaxMessage - fed[o]}) :
        LET got == Min({size, avail})
            pieces == [i \in 1..(got + BufSize - 1) \div BufSize |->
                          Chunk(fed[o] + ((i - 1) * BufSize),
                                Min({BufSize, got - ((i - 1) * BufSize)}))]
            r == FoldLeft(LAMBDA acc, piece :
                             LET s == ProcessAny(acc.ctx, piece, TRUE)
                             IN [ctx |-> s.ctx, top |-> Max({acc.top, s.top}),
                                 read |-> acc.read + Len(piece)],
                          [ctx |-> obj[o].p, top |-> top, read |-> 0], pieces)
        IN /\ obj' = [obj EXCEPT ![o].p = r.ctx]
           /\ top' = r.top
           /\ fed' = [fed EXCEPT ![o] = @ + got]
           /\ returned' = [is |-> size, should |-> got]
    /\ UNCHANGED alg

\* size bytes are wanted from a stream that has avail, in pieces of BufSize
updateFromStream(o) ==
    /\ Usable(o)
    /\ \E size, avail \in 0..Min({MaxChunk, MaxMessage - fed[o]}) :
        LET got == Min({size, avail})
            pieces == [i \in 1..(got + BufSize - 1) \div BufSize |->
                          Chunk(fed[o] + ((i - 1) * BufSize),
                                Min({BufSize, got - ((i - 1) * BufSize)}))]
            r == FoldLeft(LAMBDA acc, piece :
                             LET s == ProcessAny(acc.ctx, piece, TRUE)
                             IN [ctx |-> s.ctx, top |-> Max({acc.top, s.top}),
                                 read |-> acc.read + Len(piece)],
                          [ctx |-> obj[o].p, top |-> top, read |-> 0], pieces)
        IN /\ obj' = [obj EXCEPT ![o].p = r.ctx]
           /\ top' = r.top
           /\ fed' = [fed EXCEPT ![o] = @ + got]
           /\ returned' = [is |-> r.read, should |-> got]
    /\ UNCHANGED alg

finish(o) ==
    /\ Usable(o)
    /\ obj' = [obj EXCEPT ![o] = [p |-> NoCtx, sum |-> FinishAny(obj[o].p).state,
                                  finished |-> TRUE]]
    /\ top' = Max({top, Len(obj[o].p.buffer) + Pad(Len(obj[o].p.buffer)) + 2})
    /\ returned' = NoCall
    /\ UNCHANGED <<alg, fed>>

\* The context stays allocated
finishForReuse(o) ==
    /\ Usable(o)
    /\ obj' = [obj EXCEPT ![o] = [p |-> FinishAny(obj[o].p), sum |-> FinishAny(obj[o].p).state,
                                  finished |-> TRUE]]
    /\ top' = Max({top, Len(obj[o].p.buffer) + Pad(Len(obj[o].p.buffer)) + 2})
    /\ returned' = NoCall
    /\ UNCHANGED <<alg, fed>>

abort(o) ==
    /\ Usable(o)
    /\ obj' = [obj EXCEPT ![o].p = NoCtx, ![o].finished = FALSE]
    /\ returned' = NoCall
    /\ UNCHANGED <<alg, fed, top>>

\* Mutants: only the context is copied; an object keeps the context it has
assignContext(a, b) ==
    /\ obj[b].p = NoCtx => obj[b].finished
    /\ CopyReused \/ obj[b].p = NoCtx \/ ~obj[b].finished
    /\ obj' = [obj EXCEPT ![a] = [@ EXCEPT !.p = obj[b].p, !.finished = obj[b].finished]]
    /\ fed' = [fed EXCEPT ![a] = fed[b]]
    /\ returned' = NoCall
    /\ UNCHANGED <<alg, top>>
assignKeeps(a, b) ==
    /\ obj[b].p = NoCtx => obj[b].finished
    /\ CopyReused \/ obj[b].p = NoCtx \/ ~obj[b].finished
    /\ obj' = [obj EXCEPT ![a] = IF obj[b].p = NoCtx
                                 THEN [p |-> NoCtx, sum |-> obj[b].sum, finished |-> TRUE]
                                 ELSE [@ EXCEPT !.p = IF @ = NoCtx THEN obj[b].p ELSE @,
                                                !.finished = obj[b].finished]]
    /\ fed' = [fed EXCEPT ![a] = fed[b]]
    /\ returned' = NoCall
    /\ UNCHANGED <<alg, top>>

\* The assignment a = b copies the sum, or the context if there is one
assign(a, b) ==
    /\ obj[b].p = NoCtx => obj[b].finished     \* nobody uses an aborted one
    /\ CopyReused \/ obj[b].p = NoCtx \/ ~obj[b].finished
    /\ obj' = [obj EXCEPT ![a] = IF obj[b].p = NoCtx
                                 THEN [p |-> NoCtx, sum |-> obj[b].sum, finished |-> TRUE]
                                 ELSE [@ EXCEPT !.p = obj[b].p, !.finished = obj[b].finished]]
    /\ fed' = [fed EXCEPT ![a] = fed[b]]
    /\ returned' = NoCall
    /\ UNCHANGED <<alg, top>>

Next ==
    \/ \E o \in Objects : \/ reset(o) \/ update(o) \/ updateFromStream(o)
                          \/ finish(o) \/ finishForReuse(o) \/ abort(o)
    \/ \E a, b \in Objects : assign(a, b)

Spec == Init /\ [][Next]_vars

-------------------------------------------------------------------------------
\* The message as RFC 1321 and FIPS 180-2 pad it: a one, as few zeros as are
\* needed, the number of bits as a number of two words
Length(n) ==
    LET low == (8 * n) % Word
        high == ((8 * n) \div Word) % Word
    IN IF alg = "md5" THEN <<low, high>> ELSE <<high, low>>

Padded(n) ==
    LET zeros == CHOOSE z \in 0..Block - 1 : (n + 1 + z + 2) % Block = 0
    IN Chunk(0, n) \o <<One>> \o [i \in 1..zeros |-> 0] \o Length(n)

TypeOK ==
    /\ alg \in {"md5", "sha256"}
    /\ fed \in [Objects -> 0..MaxMessage]
    /\ \A o \in Objects :
        /\ obj[o].finished \in BOOLEAN
        /\ obj[o].p # NoCtx =>
              /\ obj[o].p.total[1] \in 0..Word - 1 /\ obj[o].p.total[2] \in 0..Word - 1
              /\ Len(obj[o].p.state) % Block = 0

\* Nothing is written past the end of the buffer of two blocks, and between
\* two calls it holds at most one block.
BufferBounded ==
    /\ top <= 2 * Block
    /\ \A o \in Objects : obj[o].p # NoCtx => Len(obj[o].p.buffer) <= Block

\* In whatever pieces a message arrives, what has been processed and what is
\* in the buffer is the message so far.
NothingLostOrReordered ==
    \A o \in Objects :
        Usable(o) => obj[o].p.state \o obj[o].p.buffer = Chunk(0, fed[o])

\* A finished object holds the digest of its message, padded as the standards
\* say, also when the message is longer than a word can count.
DigestCorrect == \A o \in Objects : obj[o].finished => obj[o].sum = Padded(fed[o])

\* updateFromStream() returns the number of bytes that it passed on: all of
\* them, unless the stream ended.
StreamCounted == returned.is = returned.should
===============================================================================
