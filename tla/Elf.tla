--------------------------------- MODULE Elf ---------------------------------
(***************************************************************************)
(* How pipeline.rs reads native libraries: the program table, the file     *)
(* offset of a hook, the dynamic string table and the GNU build id.  All   *)
(* numbers come out of the file.  A u64 is a number below Wide, and an     *)
(* Option is a set with at most one element: checked_add gives {} where it *)
(* would overflow.                                                         *)
(***************************************************************************)
EXTENDS Integers, Sequences, SequencesExt

CONSTANTS
    Wide,           \* 2^64
    Usize,          \* 2^32 or 2^64, the width of an index
    MinEntry,       \* size of a program header: 32 or 56 bytes
    MaxPrograms,    \* 256
    NoteHeader,     \* 12 bytes in front of every note
    MaxNote         \* 64 KiB, the largest note segment that is read

ASSUME ElfAssumption ==
    /\ Wide \in Nat \ {0}
    /\ Usize \in Nat \ {0} /\ Usize % 4 = 0
    /\ MinEntry \in Nat \ {0} /\ MaxPrograms \in Nat
    /\ NoteHeader \in Nat \ {0} /\ NoteHeader % 4 = 0
    /\ MaxNote \in Nat /\ MaxNote + 5 <= Usize

CheckedAdd(a, b) == {c \in {a + b} : c < Wide}
CheckedMul(a, b) == {c \in {a * b} : c < Wide}
CheckedSub(a, b) == {c \in {a - b} : c >= 0}
SaturatingAdd(a, b) == IF a + b < Usize THEN a + b ELSE Usize - 1
WrappingAdd(a, b) == (a + b) % Wide

\* A file has a size and a program table at `table' with `count' entries of
\* `entry' bytes, whose programs are `programs'.
TableInside(f) ==
    /\ f.entry >= MinEntry
    /\ f.count \in 1..MaxPrograms
    /\ \E s \in CheckedMul(f.entry, f.count) :
        \E end \in CheckedAdd(f.table, s) : end <= f.size

SegmentInside(f, p) == \E end \in CheckedAdd(p.offset, p.size) : end <= f.size

\* elf_programs accepts the file.
ElfPrograms(f) ==
    /\ TableInside(f)
    /\ \A i \in DOMAIN f.programs : SegmentInside(f, f.programs[i])

\* Where elf_programs reads the headers.
HeaderReads(f) ==
    {[from |-> WrappingAdd(f.table, i * f.entry), size |-> MinEntry] :
        i \in 0..(f.count - 1)}

-----------------------------------------------------------------------------
\* elf_rva_to_file_offset stops at the first executable segment that holds
\* the range, or whose end overflows.
Executable(p) == p.kind = "load" /\ p.executable

\* Mutant: the length of the range is forgotten.
HoldsStart(p, rva, len) ==
    CheckedAdd(p.address, p.size) = {} \/ (rva >= p.address /\ rva <= p.address + p.size)

Holds(p, rva, len) ==
    CheckedAdd(p.address, p.size) = {} \/ (rva >= p.address /\ rva + len <= p.address + p.size)

RvaToFileOffset(f, rva, len) ==
    LET Stops(p) == Executable(p) /\ Holds(p, rva, len)
        i == SelectInSeq(f.programs, Stops)
        p == f.programs[i]
    IN  IF \/ ~ElfPrograms(f) \/ CheckedAdd(rva, len) = {}
           \/ i = 0
        THEN {}
        ELSE IF CheckedAdd(p.address, p.size) = {} THEN {}
             ELSE {WrappingAdd(p.offset, rva - p.address)}

\* elf_dynamic takes the first load segment that holds the string table.
StringOffsets(p, address, size) ==
    UNION {CheckedAdd(p.offset, relative) : relative \in
        {r \in CheckedSub(address, p.address) :
            \E end \in CheckedAdd(r, size) : end <= p.size}}

StringTable(f, address, size) ==
    LET Fits(p) == p.kind = "load" /\ StringOffsets(p, address, size) # {}
        i == SelectInSeq(f.programs, Fits)
    IN  IF ~ElfPrograms(f) \/ size = 0 \/ i = 0 THEN {}
        ELSE StringOffsets(f.programs[i], address, size)

-----------------------------------------------------------------------------
\* elf_gnu_build_id walks the notes of a segment: each has a header, a name
\* and a descriptor, both padded to four bytes.
Floor4(n) == 4 * (n \div 4)
Padded(n) == Floor4(SaturatingAdd(n, 3))

\* Mutant: ends wrap around.
NoteExtentWrapping(cursor, h) ==
    LET name == (cursor + NoteHeader + h.name) % Usize
        from == Floor4((name + 3) % Usize)
        to == (from + h.desc) % Usize
    IN  [name |-> name, from |-> from, to |-> to, end |-> Floor4((to + 3) % Usize)]

NoteExtent(cursor, h) ==
    LET name == SaturatingAdd(cursor + NoteHeader, h.name)
        from == Padded(name)
        to == SaturatingAdd(from, h.desc)
    IN  [name |-> name, from |-> from, to |-> to, end |-> Padded(to)]

\* One turn of the loop; `id' is the range of the build id once it is found.
NoteStep(size, walk, h) ==
    LET e == NoteExtent(walk.cursor, h)
    IN  IF walk.stop \/ walk.cursor + NoteHeader > size \/ e.end > size
        THEN [walk EXCEPT !.stop = TRUE]
        ELSE IF h.gnu
             THEN [walk EXCEPT !.stop = TRUE, !.id = {[from |-> e.from, to |-> e.to]}]
             ELSE [walk EXCEPT !.cursor = e.end]

\* The loop after each of the notes.
NoteWalk(size, headers) ==
    LET walk[k \in 0..Len(headers)] ==
            IF k = 0 THEN [cursor |-> 0, stop |-> FALSE, id |-> {}]
            ELSE NoteStep(size, walk[k - 1], headers[k])
    IN  walk

SegmentId(s) == NoteWalk(s.size, s.headers)[Len(s.headers)].id

\* The note segments are read in their order, up to one that is oversized, an
\* error, or has a build id.
GnuBuildId(segments) ==
    LET Ends(s) == s.size > MaxNote \/ SegmentId(s) # {}
        i == SelectInSeq(segments, Ends)
    IN  IF i = 0 \/ segments[i].size > MaxNote THEN {}
        ELSE {[segment |-> i, id |-> d] : d \in SegmentId(segments[i])}
=============================================================================
