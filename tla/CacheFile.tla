----------------------------- MODULE CacheFile -----------------------------
(***************************************************************************)
(* The database file behind JigdoCache (src/cachefile.cc, src/cachefile.hh *)
(* and their callers in src/scan.cc and src/scan.hh), one level below      *)
(* module JigdoCache: the buffer into which entries are read and in which  *)
(* they are built, the numbers of fixed width in the header of an entry,   *)
(* the clock that wraps around, and the errors of libdb.                   *)
(*                                                                         *)
(* The header has numbers of 4 bytes (times) and of 6 bytes (sizes): here  *)
(* 0..TimeWord-1 and 0..SizeWord-1.  What JigdoCache stores behind the     *)
(* header is one opaque value.                                             *)
(***************************************************************************)
EXTENDS Integers, FiniteSets

CONSTANTS
  Names,            \* of files, as they are given on the command line
  LeafName,         \* [Names -> Keys]: FilePart::leafName()
  NameAsKey,        \* [Names -> Keys]: the same names, unchanged
  Keys,
  UserData,
  Sizes, MTimes,    \* of files: off_t and time_t
  TimeWord, SizeWord,
  Expiry,
  MaxTime,          \* bound: ticks of the clock
  DbErrors,         \* may a call of libdb fail?
  NoCheckFiles      \* may findName() be called?

CacheFileAssumption ==
  /\ LeafName \in [Names -> Keys] /\ NameAsKey \in [Names -> Keys]
  /\ Sizes \subseteq Nat /\ MTimes \subseteq Int
  /\ TimeWord \in Nat \ {0} /\ SizeWord \in Nat \ {0}
  /\ Expiry \in Nat \ {0} /\ MaxTime \in Nat
  /\ DbErrors \in BOOLEAN /\ NoCheckFiles \in BOOLEAN

VARIABLES
  now,
  cacheFile,        \* of JigdoCache: "none" before it exists, "null", "open",
                    \* "crashed" once a null pointer has been followed
  entries,          \* [Keys -> entries or NoEntry]: the database
  data,             \* the DBT of the object: an entry or NoEntry
  result,           \* of the last call
  put,              \* what was last stored for a key, numbers not cut off
  used              \* when the entry was last read or written

vars == <<now, cacheFile, entries, data, result, put, used>>

NoEntry == << >>
NoResult == [call |-> "none"]
Failed(call, n) == [call |-> call, name |-> n, ok |-> FALSE]
Found(call, n, size, mtime, d) ==
  [call |-> call, name |-> n, ok |-> TRUE, size |-> size, mtime |-> mtime,
   user |-> d.user]

\* serialize4, unserialize4 and serialize6, unserialize6.
Time4(t) == t % TimeWord
Size6(s) == s % SizeWord

Init ==
  /\ now = 0 /\ cacheFile = "none" /\ data = NoEntry /\ result = NoResult
  /\ entries = [k \in Keys |-> NoEntry]
  /\ put = [k \in Keys |-> NoEntry] /\ used = [k \in Keys |-> 0]

Tick ==
  /\ now < MaxTime /\ now' = now + 1
  /\ UNCHANGED <<cacheFile, entries, data, result, put, used>>

-----------------------------------------------------------------------------
(* JigdoCache::JigdoCache and ~JigdoCache *)

Opened(new) ==
  /\ cacheFile' = "open" /\ entries' = new
  /\ put' = [k \in Keys |-> IF new[k] = NoEntry THEN NoEntry ELSE put[k]]

\* CacheFile::CacheFile: a database that is old or corrupt is truncated.  The
\* handle that is used for this is closed already; either it works or it does
\* not.  DbError leaves the pointer null.
Open ==
  /\ cacheFile = "none" /\ data' = NoEntry /\ result' = NoResult
  /\ \/ Opened(entries)
     \/ DbErrors /\ Opened([k \in Keys |-> NoEntry])
     \/ DbErrors /\ cacheFile' = "null" /\ UNCHANGED <<entries, put>>
  /\ UNCHANGED <<now, used>>

Close ==
  /\ cacheFile \in {"open", "null"}
  /\ cacheFile' = "none" /\ data' = NoEntry /\ result' = NoResult
  /\ UNCHANGED <<now, entries, put, used>>

-----------------------------------------------------------------------------
(* find and findName *)

\* What cursor.get(DB_SET) may return; only "found" fills the buffer.
Statuses(k) ==
  {IF entries[k] = NoEntry THEN "missing" ELSE "found"}
    \union (IF DbErrors THEN {"error"} ELSE {})

\* Mutant of Same: the numbers are compared as they are stored.
SameStored(d, size, mtime) == d.mtime = Time4(mtime) /\ d.size = Size6(size)

Same(d, size, mtime) == d.mtime = mtime /\ d.size = size

\* Mutant of Touched: the time is written where the mtime is.
TouchedMtime(d) == [d EXCEPT !.mtime = Time4(now)]

\* Mutant of Touched: the time is not cut off.
TouchedWide(d) == [d EXCEPT !.access = now]

\* The time of the access, in the buffer and, with a partial put, in the
\* database.
Touched(d) == [d EXCEPT !.access = Time4(now)]

\* db->cursor() fails.
NoCursor(call, n) ==
  /\ DbErrors /\ result' = Failed(call, n) /\ UNCHANGED <<data, entries, used>>

\* The common part: get the entry and, if Match holds for what is in the
\* buffer then, note the access.  An error in between is not looked at.
Look(call, n, k, Match(_), Answer(_)) ==
  \/ NoCursor(call, n)
  \/ \E status \in Statuses(k) :
         LET d == IF status = "found" THEN entries[k] ELSE data
         IN IF status = "missing" \/ d = NoEntry \/ ~Match(d)
            THEN /\ data' = d /\ result' = Failed(call, n)
                 /\ UNCHANGED <<entries, used>>
            ELSE /\ data' = Touched(d)
                 /\ result' = Answer(d)
                 /\ \/ /\ status = "found"
                       /\ entries' = [entries EXCEPT ![k] = Touched(@)]
                       /\ used' = [used EXCEPT ![k] = now]
                    \/ /\ DbErrors
                       /\ UNCHANGED <<entries, used>>

\* getChecksumsRead(): "if (c->cacheFile != 0 ..."
Find(n, size, mtime) ==
  /\ cacheFile = "open"
  /\ Look("find", n, LeafName[n], LAMBDA d : Same(d, size, mtime),
          LAMBDA d : Found("find", n, size, mtime, d))
  /\ UNCHANGED <<now, cacheFile, put>>

\* readFilenames() with --no-check-files, which looks at no pointer.
FindName(n) ==
  /\ NoCheckFiles
  /\ CASE cacheFile = "open" ->
            /\ Look("findName", n, NameAsKey[n], LAMBDA d : TRUE,
                    LAMBDA d : Found("findName", n, d.size, d.mtime, d))
            /\ UNCHANGED <<now, cacheFile, put>>
       [] cacheFile = "null" ->
            /\ cacheFile' = "crashed"
            /\ UNCHANGED <<now, entries, data, result, put, used>>
       [] OTHER -> FALSE

-----------------------------------------------------------------------------
(* insert, expire *)

\* Mutant of Header: the mtime is not set, as a buffer that is reused has one.
HeaderPartly(size, mtime, user) ==
  [access |-> Time4(now), size |-> Size6(size), user |-> user,
   mtime |-> IF data = NoEntry THEN Time4(mtime) ELSE data.mtime]

Header(size, mtime, user) ==
  [access |-> Time4(now), mtime |-> Time4(mtime), size |-> Size6(size),
   user |-> user]

\* insert_prepare(), the functor, insert_perform().
Insert(n, size, mtime, user) ==
  LET e == Header(size, mtime, user)
      k == LeafName[n]
  IN /\ cacheFile = "open"
     /\ data' = e /\ result' = NoResult
     /\ \/ /\ entries' = [entries EXCEPT ![k] = e]
           /\ put' = [put EXCEPT ![k] = [size |-> size, mtime |-> mtime,
                                         user |-> user]]
           /\ used' = [used EXCEPT ![k] = now]
        \/ DbErrors /\ UNCHANGED <<entries, put, used>>
     /\ UNCHANGED <<now, cacheFile>>

\* Mutant of IsOld: without the cast to signed.
IsOldPlain(e) == e.access < Time4(now - Expiry)

\* static_cast<signed>(t - lastAccess) > 0
IsOld(e) ==
  LET diff == (now - Expiry - e.access) % TimeWord
  IN 0 < diff /\ diff < TimeWord \div 2

\* An error ends the loop: only some of the entries are looked at.
Expire ==
  /\ cacheFile = "open" /\ result' = NoResult
  /\ \E seen \in IF DbErrors THEN SUBSET Keys ELSE {Keys} :
       entries' = [k \in Keys |->
                    IF k \in seen /\ entries[k] # NoEntry /\ IsOld(entries[k])
                    THEN NoEntry ELSE entries[k]]
  /\ put' = [k \in Keys |-> IF entries'[k] = NoEntry THEN NoEntry ELSE put[k]]
  /\ UNCHANGED <<now, cacheFile, data, used>>

Next ==
  \/ Tick \/ Open \/ Close \/ Expire
  \/ \E n \in Names :
       \/ FindName(n)
       \/ \E s \in Sizes, t \in MTimes :
            \/ Find(n, s, t)
            \/ \E u \in UserData : Insert(n, s, t, u)
  \/ cacheFile = "crashed" /\ UNCHANGED vars

Spec == Init /\ [][Next]_vars

-----------------------------------------------------------------------------
(* Properties *)

Entries == [access : 0..(TimeWord - 1), mtime : 0..(TimeWord - 1),
            size : 0..(SizeWord - 1), user : UserData]

\* Types: every number fits into its bytes.
TypeOK ==
  /\ now \in 0..MaxTime /\ cacheFile \in {"none", "null", "open", "crashed"}
  /\ entries \in [Keys -> Entries \union {NoEntry}]
  /\ data \in Entries \union {NoEntry} /\ used \in [Keys -> 0..MaxTime]
  /\ \A k \in Keys : entries[k] = NoEntry <=> put[k] = NoEntry

\* find() returns what was last stored under the name of the file, for a file
\* of just this size and modification time: "If no entry is found, return
\* FAILED".  Sizes and times that do not fit into the header may be asked for;
\* what is stored for a file that has such a one is not covered.
FoundIsStored ==
  result.call = "find" /\ result.ok =>
    LET p == put[LeafName[result.name]]
    IN /\ p # NoEntry /\ p.user = result.user
       /\ p.mtime = Time4(p.mtime) /\ p.size = Size6(p.size) =>
            p.mtime = result.mtime /\ p.size = result.size

\* The header in the database is that of the last insertion, and its time
\* that of the last use, whatever calls came in between and whatever was left
\* in the buffer by them.
HeaderIsRight ==
  \A k \in Keys : entries[k] # NoEntry =>
    /\ entries[k].mtime = Time4(put[k].mtime)
    /\ entries[k].size = Size6(put[k].size)
    /\ entries[k].access = Time4(used[k])

\* expire() removes just the entries whose last use is longer ago than the
\* time of expiry, also when the clock has wrapped around in between ("deals
\* with wraparound"), as long as it is less than half a turn.
ExpiresStep ==
  \A k \in Keys : entries[k] # NoEntry /\ cacheFile' = cacheFile /\ Expire =>
    LET since == now - used[k]
    IN since - Expiry < TimeWord \div 2 /\ Expiry =< TimeWord \div 2 =>
         (entries'[k] = NoEntry <=> since > Expiry)
ExpiresExactly == [][ExpiresStep]_vars

\* A file that was inserted is found as long as it does not change.
InsertedIsFound ==
  [][\A n \in Names, s \in Sizes, t \in MTimes :
       LET p == put[LeafName[n]]
       IN p # NoEntry /\ p.size = s /\ p.mtime = t /\ Find(n, s, t) =>
            result'.ok]_vars

\* A file that was inserted is found by its name (findName(), "which matches
\* the specified filename").
NamedIsFound ==
  result.call = "findName" /\ ~result.ok => put[LeafName[result.name]] = NoEntry

\* No method is called of a database that could not be opened.
NoNullCall == cacheFile # "crashed"
=============================================================================
