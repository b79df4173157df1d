-------------------------------- MODULE WAL --------------------------------
(***************************************************************************)
(* wal.WAL (src/pkg/wal/wal.go): one file of encoded entries, one handle   *)
(* at a time, one writer ("single writer assumed"), the operating system   *)
(* under it, and crashes.                                                  *)
(*                                                                         *)
(* The file is a sequence of cells.  An entry e is Size[e] cells, cell i   *)
(* of e being <<e, i>>: the first HeaderLen of them are the fixed header   *)
(* (Seq, TraceID, EventHash, PrevHash, PayloadLen, 92 bytes in the code),  *)
(* the others payload and checksum.  A cell is what a write keeps or loses *)
(* as one, Blank a hole read as zeros.  SHA-256 is taken to be free of     *)
(* collisions: an entry passes its checksum only if all its cells are its  *)
(* own.  Of the file system it is assumed that a Sync that succeeds makes  *)
(* all that was written durable, after an earlier one that failed as well. *)
(*                                                                         *)
(* The client is a careful one: it appends to a file that NewWAL created,  *)
(* or after a Recover of this handle returned no error, and no more after  *)
(* an Append failed.                                                       *)
(***************************************************************************)
EXTENDS Integers, Sequences, FiniteSets, Functions

CONSTANTS
    Entry,      \* entries offered to Append
    Size,       \* Size[e]: cells of entry e
    HeaderLen,  \* cells of the fixed header
    Chunk,      \* cells that one file.Read of Recover returns (4096 bytes)
    Blank,      \* a cell of a hole
    None,       \* no entry
    MaxFile     \* bound: cells in the file

ASSUME WALAssumption ==
    /\ HeaderLen \in Nat \ {0}
    /\ Size \in [Entry -> Nat]
    /\ \A e \in Entry : Size[e] > HeaderLen
    /\ Chunk \in Nat \ {0}
    /\ MaxFile \in Nat
    /\ None \notin Entry
    /\ Blank \notin Entry \X Nat

VARIABLES
    file,       \* the file as reads see it
    synced,     \* the file as of the last successful Sync
    handle,     \* "none", "open" or "closed"
    offset,     \* cells before the file position of the open handle
    pending,    \* entry that Append has written and not yet synced, or None
    ready,      \* the client's discipline lets it append (external)
    acked       \* entries whose Append returned nil

vars == <<file, synced, handle, offset, pending, ready, acked>>

Cell == (Entry \X Nat) \cup {Blank}

CellsOf(e) == [i \in 1..Size[e] |-> <<e, i>>]

-----------------------------------------------------------------------------
(* What Recover finds *)

\* All cells of entry e stand at position p.
IntactAt(f, p, e) ==
    /\ p + Size[e] - 1 <= Len(f)
    /\ \A i \in 1..Size[e] : f[p + i - 1] = <<e, i>>

\* The entries decoded from the start of f, up to the first that is torn,
\* overwritten or incomplete.
Parsed(f) ==
    LET from[p \in 1..(Len(f) + 1)] ==
            IF \E e \in Entry : IntactAt(f, p, e)
            THEN LET e == CHOOSE e \in Entry : IntactAt(f, p, e)
                 IN  <<e>> \o from[p + Size[e]]
            ELSE <<>>
    IN  from[1]

\* The position at which decoding stops.
StopAt(f) ==
    LET next[k \in 0..Len(Parsed(f))] ==
            IF k = 0 THEN 1 ELSE next[k-1] + Size[Parsed(f)[k]]
    IN  next[Len(Parsed(f))]

\* The header at position p is that of e, so its PayloadLen is true.
HeaderOf(f, p, e) ==
    /\ p + HeaderLen - 1 <= Len(f)
    /\ \A i \in 1..HeaderLen : f[p + i - 1] = <<e, i>>

\* The last positions of an entry at which Recover may report corruption.  A
\* whole header says where its entry ends; a header of mixed cells holds a
\* PayloadLen nobody wrote, which may end anywhere in the file or beyond it.
CorruptEnds(f) ==
    LET p == StopAt(f)
    IN  IF p + HeaderLen > Len(f)
        THEN {}
        ELSE IF \E e \in Entry : HeaderOf(f, p, e)
             THEN {p + Size[e] - 1 : e \in {x \in Entry : HeaderOf(f, p, x)}}
                    \cap (p..Len(f))
             ELSE (p + HeaderLen)..Len(f)

\* An entry that is not all in the file is waited for and then forgotten: no
\* error.  So it is when a header of mixed cells claims more than there is.
MayEndQuietly(f) ==
    LET p == StopAt(f)
    IN  \/ p + HeaderLen > Len(f)
        \/ \A e \in Entry : HeaderOf(f, p, e) => p + Size[e] - 1 > Len(f)

\* Where the read position is after the chunk that completed cell last.
ChunkEnd(f, last) ==
    LET full == Chunk * ((last + Chunk - 1) \div Chunk)
    IN  IF full < Len(f) THEN full ELSE Len(f)

-----------------------------------------------------------------------------
(* Writing *)

\* f with the first k cells of e written at file position o.
Written(f, o, e, k) ==
    [i \in 1..(IF o + k > Len(f) THEN o + k ELSE Len(f)) |->
        IF i \in (o+1)..(o+k) THEN CellsOf(e)[i - o] ELSE f[i]]

Init ==
    /\ file = <<>>
    /\ synced = <<>>
    /\ handle = "none"
    /\ offset = 0
    /\ pending = None
    /\ ready = FALSE
    /\ acked = {}

\* NewWAL: no O_APPEND, no seek to the end.
NewWAL ==
    /\ handle # "open"
    /\ handle' = "open"
    /\ offset' = 0
    /\ ready' = (file = <<>>)
    /\ UNCHANGED <<file, synced, pending, acked>>

MayAppend(e) ==
    /\ handle = "open"
    /\ pending = None
    /\ ready
    /\ e \notin acked
    /\ offset + Size[e] <= MaxFile

\* Append up to a Write that took every byte.
AppendWrite(e) ==
    /\ MayAppend(e)
    /\ file' = Written(file, offset, e, Size[e])
    /\ offset' = offset + Size[e]
    /\ pending' = e
    /\ UNCHANGED <<synced, handle, ready, acked>>

\* Append whose Write fails after k cells: the error is returned, the cells and
\* the file position stay.
AppendWriteFails(e, k) ==
    /\ MayAppend(e)
    /\ file' = Written(file, offset, e, k)
    /\ offset' = offset + k
    /\ ready' = FALSE
    /\ UNCHANGED <<synced, handle, pending, acked>>

\* Slip: nil is returned without a Sync.
AppendSyncSkipped ==
    /\ pending # None
    /\ acked' = acked \cup {pending}
    /\ pending' = None
    /\ UNCHANGED <<file, synced, handle, offset, ready>>

\* Append's Sync succeeds; Append returns nil.
AppendSync ==
    /\ pending # None
    /\ synced' = file
    /\ acked' = acked \cup {pending}
    /\ pending' = None
    /\ UNCHANGED <<file, handle, offset, ready>>

\* Append's Sync fails; the entry is in the file and Append returns an error.
AppendSyncFails ==
    /\ pending # None
    /\ pending' = None
    /\ ready' = FALSE
    /\ UNCHANGED <<file, synced, handle, offset, acked>>

\* Slip: the entries are read without moving the file position.
RecoverInPlace ==
    /\ handle = "open"
    /\ pending = None
    /\ MayEndQuietly(file)
    /\ ready' = TRUE
    /\ UNCHANGED <<file, synced, handle, offset, pending, acked>>

\* Recover, and Stats which calls it, with no error: the position is at the end.
RecoverOK ==
    /\ handle = "open"
    /\ pending = None
    /\ MayEndQuietly(file)
    /\ offset' = Len(file)
    /\ ready' = TRUE
    /\ UNCHANGED <<file, synced, handle, pending, acked>>

\* Recover that reports corruption: the position is where reading stopped.
RecoverCorrupt ==
    /\ handle = "open"
    /\ pending = None
    /\ \E last \in CorruptEnds(file) : offset' = ChunkEnd(file, last)
    /\ ready' = FALSE
    /\ UNCHANGED <<file, synced, handle, pending, acked>>

\* Recover whose Seek fails, or a later Read after so many chunks.
RecoverReadFails ==
    /\ handle = "open"
    /\ pending = None
    /\ \/ offset' = offset
       \/ \E n \in 0..(Len(file) \div Chunk) : offset' = n * Chunk
    /\ ready' = FALSE
    /\ UNCHANGED <<file, synced, handle, pending, acked>>

Close ==
    /\ handle = "open"
    /\ pending = None
    /\ handle' = "closed"
    /\ ready' = FALSE
    /\ UNCHANGED <<file, synced, offset, pending, acked>>

\* The process, or the machine, stops at any point.  Of what was written since
\* the last Sync any cells may have reached the disk, up to some length.
Crash ==
    /\ handle' = "none"
    /\ pending' = None
    /\ ready' = FALSE
    /\ offset' = 0
    /\ LET old(i) == IF i <= Len(synced) THEN synced[i] ELSE Blank
           new == {i \in 1..Len(file) : file[i] # old(i)}
       IN  \E n \in Len(synced)..Len(file) : \E kept \in SUBSET new :
                file' = [i \in 1..n |-> IF i \in kept THEN file[i] ELSE old(i)]
    /\ synced' = file'
    /\ UNCHANGED acked

Next ==
    \/ NewWAL
    \/ \E e \in Entry : AppendWrite(e)
    \/ \E e \in Entry : \E k \in 0..(Size[e] - 1) : AppendWriteFails(e, k)
    \/ AppendSync
    \/ AppendSyncFails
    \/ RecoverOK
    \/ RecoverCorrupt
    \/ RecoverReadFails
    \/ Close
    \/ Crash

Spec == Init /\ [][Next]_vars

-----------------------------------------------------------------------------
(* Properties *)

\* Type invariant.
TypeOK ==
    /\ file \in Seq(Cell)
    /\ synced \in Seq(Cell)
    /\ handle \in {"none", "open", "closed"}
    /\ offset \in Nat
    /\ pending \in Entry \cup {None}
    /\ ready \in BOOLEAN
    /\ acked \subseteq Entry

\* The file ends with cells that belong to no whole entry.
Residue == StopAt(file) <= Len(file)

\* A careful client never overwrites: when it may append, the file position is
\* the end of the file, although NewWAL leaves it at 0 and a failed Recover in
\* the middle.  It has to be careful: "WAL is a crash-safe, append-only write-ahead
\* log" (wal.go:267), yet with nothing failing an append on a handle as NewWAL
\* returns it puts its entry in place of the first of a clean file, and a recovery
\* finds no more entries than before.
AppendsAtEnd ==
    /\ ready /\ pending = None => offset = Len(file)
    /\ offset = 0 /\ handle = "open" /\ ~Residue /\ file # <<>> =>
         \A e \in Entry :
            LET after == Parsed(Written(file, 0, e, Size[e]))
            IN  after[1] = e /\ Len(after) <= Len(Parsed(file))

\* What an acknowledged entry is sure of.  As long as no write has left a residue,
\* a recovery returns it, of what is on the disk and not only of the file.  Behind
\* a residue it does not, although the log is "crash-safe" and an append "atomic"
\* (wal.go:267, 285): nobody cuts a torn write off.  But the entry is not destroyed:
\* it is whole on the disk for ever, whatever was torn, failed or appended before
\* and after it.
AckedWhileClean == ~Residue => acked \subseteq Range(Parsed(synced))
AckedOnDisk == \A e \in acked : \E p \in 1..Len(synced) : IntactAt(synced, p, e)
AckedKept == AckedWhileClean /\ AckedOnDisk

Durable == INSTANCE DurableLog WITH log <- Parsed(file), durable <- Len(Parsed(synced))

\* The entries a recovery returns are a durable log: a crash, a failed write or a
\* failed sync takes entries from the end only and never a synced one, and none
\* is invented or reordered, residues included.
ImplementsDurableLog == Durable!Spec
=============================================================================
