---- MODULE Archives ----
(* How the API inspects a zip archive.  The file is a row of local records, which *)
(* need not be what the entries of the central directory say they are.  The       *)
(* headers have to agree with the entries in name, method and encryption; where   *)
(* the data end is taken from the entry alone, and by that the entries have to    *)
(* fill the file, and to inflate to what they declare, within the limits.  The    *)
(* sizes and the checksum of a local header are not read.  A position is a unit:  *)
(* a header is one, a data descriptor is one, and the data are as many as their   *)
(* size.  The inflater gives one unit of output at a time.                        *)
(* A name is one of a few kinds; "unsafe" is a path that leaves the folder, a     *)
(* name that is rewritten on extraction, or one that Windows runs.                *)
EXTENDS Integers, Sequences, FiniteSets

CONSTANTS
  MaxEntries,  \* ZipLimits
  MaxTotal,
  MaxEntry,
  MaxRatio,
  RatioFloor,
  MaxRecords,  \* bound: records and entries of an archive
  LieSets      \* bound: what one entry may get wrong, or tell wrong together

(* What an entry may say that its record does not: it may flip a flag, give data  *)
(* that are longer or shorter, or reach over the whole record that follows        *)
(* ("swallow"), and declare less or more than comes out or a wrong checksum, or   *)
(* fit what it declares ("sized") and its checksum ("matching") to those data.    *)
Lies == {"name", "method", "encrypted", "descriptor", "offset", "longer", "shorter", "swallow",
         "less", "more", "sized", "checksum", "matching"}

ASSUME ArchiveAssumption ==
  /\ {MaxEntries, MaxTotal, MaxEntry, MaxRatio, RatioFloor, MaxRecords} \subseteq Nat /\ MaxEntry # 0
  /\ LieSets \subseteq SUBSET Lies

VARIABLES
  archive,   \* the file, and whether it has to be a Word document
  verdict,   \* "none", "pending", "ok" or "rejected"
  current,   \* the entry that is inflated
  produced,  \* what the inflater has produced of it
  inflated   \* inflatedTotal

archiveVars == <<archive, verdict, current, produced, inflated>>

-----------------------------------------------------------------------------
(* Files *)

(* A record with one unit of text, and its variations; a gap is no record at all. *)
Plain == [name |-> "notes.txt", method |-> "stored", encrypted |-> FALSE, renamed |-> FALSE,
          descriptor |-> FALSE, size |-> 1, out |-> 1, content |-> "text"]
Types == "[Content_Types].xml"
Records ==
  {Plain, [Plain EXCEPT !.encrypted = TRUE], [Plain EXCEPT !.renamed = TRUE], [Plain EXCEPT !.method = "other"],
   [Plain EXCEPT !.name = Types, !.content = "macro"]}
    \cup {[Plain EXCEPT !.name = n] : n \in {Types, "word/document.xml", "vbaProject.bin", "unsafe"}}
    \cup {[Plain EXCEPT !.content = c] : c \in {"pe", "script", "gap"}}
    \cup {[Plain EXCEPT !.method = "deflated", !.descriptor = TRUE, !.out = n] : n \in {2, MaxEntry, MaxEntry + 1}}

(* What the first bytes are.  A script is executable, but only native code is not *)
(* allowed within an archive.                                                     *)
Sniffed(content) == IF content \in {"pe", "script"} THEN "executable" ELSE "unknown"
NativeFormats == {"pe"}

(* What may be wrong at the end: no end record, bytes after it, ZIP64, volumes,   *)
(* bytes before it, and a number of entries that is not theirs.                   *)
EndFaults == {"missing", "trailing", "zip64", "volumes", "hole", "count"}

(* Every entry is of a record and may tell lies, or the end is wrong. *)
Entries(n, lies) == UNION {[1..m -> (1..n) \X lies] : m \in 0..MaxRecords}
Files(n) ==
  [records : [1..n -> Records], entries : Entries(n, LieSets), end : {"fine"}, docx : {FALSE}]
    \cup [records : [1..n -> Records], entries : Entries(n, {{}}), end : {"fine"} \cup EndFaults, docx : BOOLEAN]

(* One with too many entries. *)
Crowd == [records |-> [i \in 1..(MaxEntries + 1) |-> Plain], entries |-> [i \in 1..(MaxEntries + 1) |-> <<i, {}>>],
          end |-> "fine", docx |-> FALSE]

SizeOf(r) == IF r.content = "gap" THEN 1 ELSE 1 + r.size + (IF r.descriptor THEN 1 ELSE 0)

(* What the first, the first two ... of a row of numbers come to. *)
Sums(w) == LET sum[n \in 0..Len(w)] == IF n = 0 THEN 0 ELSE sum[n - 1] + w[n] IN sum

Ends(a) == Sums([i \in DOMAIN a.records |-> SizeOf(a.records[i])])
Start(a, i) == Ends(a)[i - 1]
CentralOffset(a) == Ends(a)[Len(a.records)]
FileLength(a) == CentralOffset(a) + Len(a.entries) + 1

(* How much comes out of data that begin at the data of a record.  What follows    *)
(* the end of a deflated stream is not looked at, and nothing comes out of one     *)
(* that is cut short.                                                              *)
Yields(r, method, size) == IF method = "stored" THEN size ELSE IF size < r.size THEN 0 ELSE r.out

(* The checksum of that much, which begins with what the record holds. *)
Checksum(r, length) == <<r.content, length>>

(* The size of the data that an entry gives for record i. *)
Extent(a, i, lies) ==
  LET next == IF i < Len(a.records) THEN SizeOf(a.records[i + 1]) ELSE 0 IN
  a.records[i].size + (IF "longer" \in lies THEN 1 ELSE 0) - (IF "shorter" \in lies THEN 1 ELSE 0)
                    + (IF "swallow" \in lies THEN next ELSE 0)

(* An entry as the central directory gives it. *)
Entry(a, e) ==
  LET i == a.entries[e][1]
      lies == a.entries[e][2]
      r == a.records[i]
      yields == Yields(r, r.method, Extent(a, i, lies))
      out == IF "sized" \in lies THEN yields ELSE r.out IN
  [name |-> IF "name" \in lies THEN "other.txt" ELSE r.name,
   method |-> IF "method" \notin lies THEN r.method ELSE IF r.method = "stored" THEN "deflated" ELSE "stored",
   encrypted |-> r.encrypted # ("encrypted" \in lies),
   descriptor |-> r.descriptor # ("descriptor" \in lies),
   at |-> Start(a, i) + (IF "offset" \in lies THEN 1 ELSE 0),
   size |-> Extent(a, i, lies),
   declared |-> IF "less" \in lies /\ out > 0 THEN out - 1 ELSE IF "more" \in lies THEN out + 1 ELSE out,
   checksum |-> IF "checksum" \in lies THEN <<>> ELSE Checksum(r, IF "matching" \in lies THEN yields ELSE r.out)]

(* The record whose header is at a position, or 0. *)
RecordAt(a, p) ==
  LET at == {i \in DOMAIN a.records : Start(a, i) = p /\ a.records[i].content # "gap"} IN
  IF at = {} THEN 0 ELSE CHOOSE i \in at : TRUE

EndOf(e) == e.at + 1 + e.size + (IF e.descriptor THEN 1 ELSE 0)

(* What is in the data of an entry: when they are stored, also of the records that *)
(* they reach over.                                                                *)
Within(a, e) ==
  IF e.method = "stored"
    THEN {a.records[i].content : i \in {j \in DOMAIN a.records : Start(a, j) >= e.at /\ Start(a, j) < e.at + e.size}}
  ELSE {a.records[RecordAt(a, e.at)].content}

-----------------------------------------------------------------------------
(* The checks that need no inflation *)

DirectoryReads(a) == a.end = "fine" /\ Len(a.entries) <= MaxEntries

DeclaredTotal(a) == Sums([e \in DOMAIN a.entries |-> Entry(a, e).declared])[Len(a.entries)]

(* The cheap filter on what the entries declare. *)
Declarable(e) ==
  /\ ~e.encrypted /\ e.method \in {"stored", "deflated"} /\ e.name # "unsafe"
  /\ e.declared <= MaxEntry

(* The local header is there, agrees with the entry, and its data fit. *)
Agrees(a, e) ==
  LET i == RecordAt(a, e.at) IN
  /\ i # 0 /\ e.at + 1 <= CentralOffset(a)
  /\ a.records[i].name = e.name /\ a.records[i].method = e.method
  /\ a.records[i].encrypted = e.encrypted /\ ~a.records[i].renamed
  /\ EndOf(e) <= CentralOffset(a)

(* The entries by offset, and where the last of some of them ends. *)
Before(a, d, e) == Entry(a, d).at < Entry(a, e).at \/ (Entry(a, d).at = Entry(a, e).at /\ d < e)
Latest(a, S) == CHOOSE d \in S : \A c \in S : c = d \/ Before(a, c, d)
Reached(a, S) == IF S = {} THEN 0 ELSE EndOf(Entry(a, Latest(a, S)))

(* Mutant: what lies between the last record and the directory is not looked at. *)
Tiles_OpenEnd(a) ==
  \A e \in DOMAIN a.entries : Entry(a, e).at = Reached(a, {d \in DOMAIN a.entries : Before(a, d, e)})

(* Sorted by offset, each record starts where the one before ended. *)
Tiles(a) ==
  /\ \A e \in DOMAIN a.entries : Entry(a, e).at = Reached(a, {d \in DOMAIN a.entries : Before(a, d, e)})
  /\ CentralOffset(a) = Reached(a, DOMAIN a.entries)

Names(a) == {Entry(a, e).name : e \in DOMAIN a.entries}
IsWord(a) == "vbaProject.bin" \notin Names(a) /\ {Types, "word/document.xml"} \subseteq Names(a)

(* Up to the first await. *)
Check ==
  /\ verdict = "none"
  /\ LET passes == /\ DirectoryReads(archive)
                   /\ \A e \in DOMAIN archive.entries : Declarable(Entry(archive, e))
                   /\ DeclaredTotal(archive) <= MaxTotal
                   /\ \A e \in DOMAIN archive.entries : Agrees(archive, Entry(archive, e))
                   /\ Tiles(archive)
                   /\ archive.docx => IsWord(archive) IN
     verdict' = IF ~passes THEN "rejected" ELSE IF archive.entries = <<>> THEN "ok" ELSE "pending"
  /\ current' = 1
  /\ UNCHANGED <<archive, produced, inflated>>

-----------------------------------------------------------------------------
(* Inflating, entry by entry *)

Declared == Entry(archive, current)
Found == archive.records[RecordAt(archive, Declared.at)]

Budget == IF MaxTotal - inflated < MaxEntry THEN MaxTotal - inflated ELSE MaxEntry
Limit == IF Declared.declared < Budget THEN Declared.declared ELSE Budget

(* The length of what the entry's data hold or inflate to.                         *)
Length == Yields(Found, Declared.method, Declared.size)

(* A chunk of output; the inflater is destroyed as soon as the limit is passed.    *)
Inflate ==
  /\ verdict = "pending" /\ Declared.method = "deflated" /\ produced < Length
  /\ produced' = produced + 1
  /\ verdict' = IF produced' > Limit THEN "rejected" ELSE "pending"
  /\ UNCHANGED <<archive, current, inflated>>

(* The stream is complete, its length and checksum are those of the entry, and     *)
(* its first bytes are not those of native code.                                   *)
Genuine ==
  /\ Declared.method = "deflated" => Declared.size >= Found.size
  /\ Length = Declared.declared
  /\ Declared.checksum = Checksum(Found, Length)
  /\ ~(Length > 0 /\ Sniffed(Found.content) = "executable" /\ Found.content \in NativeFormats)
  /\ ~(archive.docx /\ Declared.name = Types /\ "macro" \in Within(archive, Declared))

Bomb(total) == total > RatioFloor /\ total > MaxRatio * FileLength(archive)

(* The inflater has ended; stored data need none.                                  *)
Finish ==
  /\ verdict = "pending" /\ (Declared.method = "deflated" => produced = Length)
  /\ produced' = 0 /\ current' = current + 1
  /\ IF Length <= Limit /\ Genuine
       THEN /\ inflated' = inflated + Length
            /\ verdict' = IF Bomb(inflated') THEN "rejected"
                          ELSE IF current < Len(archive.entries) THEN "pending" ELSE "ok"
     ELSE verdict' = "rejected" /\ UNCHANGED inflated
  /\ UNCHANGED archive

ArchiveInit ==
  /\ archive \in {Crowd} \cup UNION {Files(n) : n \in 0..MaxRecords}
  /\ verdict = "none" /\ current = 0 /\ produced = 0 /\ inflated = 0

ArchiveNext == Check \/ Inflate \/ Finish

ArchiveSpec == ArchiveInit /\ [][ArchiveNext]_archiveVars

-----------------------------------------------------------------------------
(* What an archive has to be, without an order of checks: every unit before the    *)
(* directory belongs to exactly one entry, whose header is where it says, ...      *)
Unambiguous(a) ==
  /\ a.end = "fine"
  /\ \A e \in DOMAIN a.entries : Agrees(a, Entry(a, e))
  /\ \A u \in 0..(CentralOffset(a) - 1) :
       Cardinality({e \in DOMAIN a.entries : Entry(a, e).at <= u /\ u < EndOf(Entry(a, e))}) = 1

Taken(a, e) == Yields(a.records[RecordAt(a, e.at)], e.method, e.size)

(* ... and what the data of each give is as declared, allowed and small enough. *)
Honest(a) ==
  \A d \in DOMAIN a.entries :
    LET e == Entry(a, d)
        r == a.records[RecordAt(a, e.at)] IN
    /\ r.method \in {"stored", "deflated"} /\ ~r.encrypted /\ r.name # "unsafe"
    /\ r.method = "deflated" => e.size >= r.size
    /\ e.declared = Taken(a, e) /\ Taken(a, e) <= MaxEntry /\ e.checksum = Checksum(r, Taken(a, e))
    /\ Taken(a, e) > 0 => r.content \notin NativeFormats
    /\ a.docx => r.name # "vbaProject.bin" /\ (r.name = Types => "macro" \notin Within(a, e))

Total(a) == Sums([e \in DOMAIN a.entries |-> Taken(a, Entry(a, e))])[Len(a.entries)]

Acceptable(a) ==
  /\ Unambiguous(a) /\ Honest(a)
  /\ Len(a.entries) <= MaxEntries
  /\ Total(a) <= MaxTotal
  /\ Total(a) > RatioFloor => Total(a) <= MaxRatio * FileLength(a)
  /\ a.docx => {Types, "word/document.xml"} \subseteq Names(a)

(* Every local record is that of an entry, and nothing else is between them. *)
NothingHidden(a) ==
  \A i \in DOMAIN a.records : a.records[i].content # "gap" /\ \E e \in DOMAIN a.entries : Entry(a, e).at = Start(a, i)

(* The data of every entry end where those of its record do. *)
SizesAgree(a) == \A e \in DOMAIN a.entries : EndOf(Entry(a, e)) = Ends(a)[RecordAt(a, Entry(a, e).at)]

(* An archive is accepted exactly if the entries share out the file, whatever they *)
(* declare, and what they give is as declared and small enough; nothing is hidden  *)
(* in one whose entries end where their records do; and inflating stops within a   *)
(* chunk of the limit (zip-inspection.ts:14-19, :171-172 "a bomb costs at most     *)
(* `limit' bytes", :309-312; upload-inspection.test.ts).                           *)
ArchivesAreSound ==
  /\ verdict = "ok" => Acceptable(archive) /\ (SizesAgree(archive) => NothingHidden(archive))
  /\ verdict = "rejected" => ~Acceptable(archive)
  /\ inflated + produced <= MaxTotal + 1

(* In an archive that is accepted no record is hidden within another, whatever the *)
(* entries say (zip-inspection.ts:27-29 "the local entries must tile the file      *)
(* exactly ... with no gaps, duplicates or hidden extra entries").                 *)
NoHiddenRecords == verdict = "ok" => NothingHidden(archive)
====
