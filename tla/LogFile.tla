------------------------------ MODULE LogFile ------------------------------
(***************************************************************************)
(* The log of a partition: ProcessLogFile reads each $LogFile into one     *)
(* buffer and parses its restart pages and its record pages                *)
(* (disk/disk.go, FS/NTFS/LogFile).                                        *)
(*                                                                         *)
(* Sizes and offsets count cells, of which a restart page has PageCells.   *)
(* What LocateData (module Export) puts into the buffer is the log of a    *)
(* record, by what begins at each cell:                                    *)
(*  - restart: a restart page, of that version and size of record pages;   *)
(*  - record: a record page, that is told by id;                           *)
(*  - rest: anything else.                                                 *)
(* fixups is how many cells the update sequence of a page goes over, ends  *)
(* the cell in which the first log record of a page ends, and fault what   *)
(* the values in its header lead to, wherever it lies.                     *)
(***************************************************************************)
EXTENDS Evidence

CONSTANT PageCells  \* the 4096 bytes of PAGE_SIZE

LogRest == [kind |-> "rest"]

\* What can begin at a cell.
LogCell ==
  [kind : {"restart"}, version : STRING, page : Nat, fixups : Nat, fault : STRING]
    \cup [kind : {"record"}, id : Nat, ends : Nat, fixups : Nat, fault : STRING]
    \cup {LogRest}

ASSUME LogFileAssumption ==
  /\ PageCells \in Nat \ {0}
  /\ \A j \in Jobs : \A p \in DOMAIN j.parts : \A n \in DOMAIN j.parts[p].records :
       j.parts[p].records[n].log \in Seq(LogCell)

VARIABLE logfile  \* pc, the records left, the buffer and how much of it is this log,
                  \* where in it, Version, Page_Size and, by log, the RCRDRecords

LogFileInit ==
  logfile = [pc |-> "idle", left |-> <<>>, buf |-> <<>>, size |-> 0, at |-> 0,
             version |-> "", page |-> 0, found |-> <<>>]

Crash == phase' = "panic" /\ UNCHANGED logfile

LogFiles(p) == Keep(job.parts[p].records, {r \in ToSet(job.parts[p].records) : r.name = "$LogFile"})

\* Partition 0 of the command line is no partition, nor is any after a search.
ProcessLogFile ==
  /\ logfile.pc = "idle"
  /\ IF args.partition \notin DOMAIN Partitions THEN Crash
     ELSE /\ logfile' = IF job.parts[args.partition].volume = "none" THEN [logfile EXCEPT !.pc = "done"]
                        ELSE [logfile EXCEPT !.pc = "next", !.left = LogFiles(args.partition)]
          /\ UNCHANGED phase
  /\ UNCHANGED job

\* The buffer of the logs before it, if it is large enough.
Buffer(r) == IF Len(logfile.buf) < r.lsize THEN [n \in 1 .. r.lsize |-> LogRest] ELSE logfile.buf

ReadLog ==
  /\ logfile.pc = "next"
  /\ IF logfile.left = <<>> THEN logfile' = [logfile EXCEPT !.pc = "done"]
     ELSE LET r == Head(logfile.left)
          IN logfile' = [logfile EXCEPT !.pc = "restart", !.left = Tail(@), !.size = r.lsize, !.at = 0,
                           !.buf = [n \in DOMAIN Buffer(r) |-> IF n <= Len(r.log) THEN r.log[n] ELSE Buffer(r)[n]],
                           !.version = "", !.page = 0, !.found = Append(@, <<>>)]
  /\ UNCHANGED <<job, phase>>

\* The cells from an offset to the end of this log; the page at an offset, and the
\* buffer when its update sequence has been undone.
Ahead(at) == logfile.size - at
PageAt(at) == logfile.buf[at + 1]
Undone(at) == [logfile.buf EXCEPT ![at + 1].fixups = 1]

-----------------------------------------------------------------------------
(* RSTR.Parse *)

RestartFails == Ahead(logfile.at) = 0 \/ PageAt(logfile.at).kind # "restart" \/ PageAt(logfile.at).fault = "error"

RestartPanics ==
  \/ Ahead(logfile.at) < 0 \/ logfile.at >= Len(logfile.buf)
  \/ ~RestartFails /\ (PageAt(logfile.at).fault = "panic" \/ PageAt(logfile.at).fixups > Ahead(logfile.at))

\* Two restart pages; an error ends Parse, the log counts as read.
ParseRestart ==
  /\ logfile.pc = "restart"
  /\ IF RestartPanics THEN Crash
     ELSE /\ logfile' = IF RestartFails THEN [logfile EXCEPT !.pc = "next"]
                        ELSE [logfile EXCEPT !.pc = IF logfile.at = 0 THEN "restart" ELSE "pages",
                                             !.at = @ + PageCells, !.buf = Undone(logfile.at),
                                             !.version = PageAt(logfile.at).version,
                                             !.page = PageAt(logfile.at).page]
          /\ UNCHANGED phase
  /\ UNCHANGED job

-----------------------------------------------------------------------------
(* The loop over record pages *)

\* Mutation: the area is that of version 1.1.
MutBufferPages(version) == 2

\* Pages of the buffer area.
BufferPages(version) == IF version = "2.0" THEN 32 ELSE 2

\* It is passed before every page.
NextPage == logfile.at + BufferPages(logfile.version) * logfile.page

IsRecord(at) == at < Len(logfile.buf) /\ PageAt(at).kind = "record"

\* Slices out of range: the signature, a page behind the end of the log, its update
\* sequence, what that goes over, and its first record.
PagePanics(at) ==
  \/ at >= Len(logfile.buf)
  \/ IsRecord(at) /\ Ahead(at) < 0
  \/ IsRecord(at) /\ Ahead(at) > 0 /\ PageAt(at).fault = "panic"
  \/ IsRecord(at) /\ Ahead(at) > 0 /\ PageAt(at).fault # "error"
       /\ (PageAt(at).fixups > Ahead(at) \/ PageAt(at).ends > Len(logfile.buf) - at)

Parsed(at) == IsRecord(at) /\ Ahead(at) > 0 /\ PageAt(at).fault # "error"

\* Pages of no size are never left.
ParsePage ==
  /\ logfile.pc = "pages"
  /\ IF logfile.at >= logfile.size \/ logfile.version \notin {"1.1", "2.0"}
     THEN logfile' = [logfile EXCEPT !.pc = "next"] /\ UNCHANGED phase
     ELSE IF PagePanics(NextPage) THEN Crash
     ELSE IF logfile.page = 0 THEN phase' = "hang" /\ UNCHANGED logfile
     ELSE /\ logfile' = [logfile EXCEPT !.at = NextPage + logfile.page,
                           !.buf = IF Parsed(NextPage) THEN Undone(NextPage) ELSE @,
                           !.found[Len(logfile.found)] =
                              IF Parsed(NextPage) THEN Append(@, PageAt(NextPage).id) ELSE @]
          /\ UNCHANGED phase
  /\ UNCHANGED job

ReadLogFile == ProcessLogFile \/ ReadLog \/ ParseRestart \/ ParsePage

-----------------------------------------------------------------------------
(* Correctness *)

LogFileTypeOK ==
  /\ logfile.pc \in {"idle", "next", "restart", "pages", "done"}
  /\ logfile.pc \in {"restart", "pages"} => logfile.size <= Len(logfile.buf)
  /\ logfile.pc \in {"restart", "pages"} => logfile.at <= logfile.size + PageCells + 33 * logfile.page

\* A log as it is written: whole pages of one size, two restart pages that agree, and
\* pages that lie in the log.
SoundLog(r) ==
  /\ Len(r.log) = r.lsize /\ r.lsize >= 2 * PageCells /\ r.lsize % PageCells = 0
  /\ r.log[1].kind = "restart" /\ r.log[1].version \in {"1.1", "2.0"}
  /\ r.log[PageCells + 1].kind = "restart" /\ r.log[PageCells + 1].version = r.log[1].version
  /\ \A n \in DOMAIN r.log :
       /\ r.log[n].kind # "rest" => r.log[n].fault = "none" /\ r.log[n].fixups = PageCells /\ n % PageCells = 1
       /\ r.log[n].kind = "restart" => r.log[n].page = PageCells
       /\ r.log[n].kind = "record" => r.log[n].ends <= PageCells

PagesOf(r) == r.lsize \div PageCells
PageOf(r, n) == r.log[n * PageCells + 1]

\* Pages are looked at in steps of one buffer area and a page.
Step(r) == IF r.log[1].version = "1.1" THEN 2 + 1 ELSE 32 + 1
LookedAt(r, n) == n >= 2 /\ (n - 2) % Step(r) = Step(r) - 1

\* The first page to be looked at that is not in the log.
Behind(r) == Min({n \in PagesOf(r) .. PagesOf(r) + Step(r) - 1 : LookedAt(r, n)})

\* That page is out of the buffer, or a record page that an earlier log left there, but
\* not next to the end, where there is nothing of it to parse.
Overruns(logs, k) ==
  LET r == logs[k]
      left == {j \in 1 .. k - 1 : PagesOf(logs[j]) > Behind(r)}
  IN /\ (PagesOf(r) - 2) % Step(r) # 0
     /\ left # {} => Behind(r) > PagesOf(r) /\ PageOf(logs[Max(left)], Behind(r)).kind = "record"

LogPagesOf(r) ==
  LET pages == {n \in 0 .. PagesOf(r) - 1 : LookedAt(r, n) /\ PageOf(r, n).kind = "record"}
      order == Keep([k \in 1 .. PagesOf(r) |-> k - 1], pages)
  IN [k \in DOMAIN order |-> PageOf(r, order[k]).id]

\* Of sound logs, one page in three is looked at, or one in 33, and the program ends at
\* the first log that does not have a whole number of these steps, unless a larger one
\* before it has left no record page there.
LogsExact ==
  LET logs == LogFiles(args.partition)
      over == {k \in DOMAIN logs : Overruns(logs, k)}
  IN (\A k \in DOMAIN logs : SoundLog(logs[k])) =>
       /\ \A k \in DOMAIN logfile.found : k # Len(logfile.found) \/ logfile.pc \in {"next", "done"} =>
            logfile.found[k] = LogPagesOf(logs[k])
       /\ logfile.pc = "done" => over = {} /\ Len(logfile.found) = Len(logs)
       /\ phase \in {"panic", "hang"} /\ logfile.pc \notin {"idle", "done"} =>
            phase = "panic" /\ over # {} /\ Len(logfile.found) = Min(over)
===============================================================================
