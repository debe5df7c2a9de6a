------------------------------- MODULE Main -------------------------------
(***************************************************************************)
(* main after the partitions are read: the change journal if it is asked   *)
(* for, the log, the shadow copies, the unallocated space, the clusters    *)
(* that are looked for, and the loop over the partitions, that looks       *)
(* through the journal again (main.go).                                    *)
(***************************************************************************)
EXTENDS Journal, LogFile, Shadow, Unallocated, Selection

VARIABLE usnrecords  \* what main has of the first call of ProcessJrnl

vars == <<job, phase, journalVars, logfile, shadowVars, unallocatedVars, selectionVars, usnrecords>>

Init ==
  /\ job \in Jobs
  /\ phase = "start"
  /\ JournalInit /\ LogFileInit /\ ShadowInit /\ UnallocatedInit /\ SelectionInit
  /\ usnrecords = <<>>

\* What main does next, of what the arguments ask for.
Asked(p) ==
  CASE p = "logfile"     -> args.logfile
    [] p = "vss"         -> args.vss
    [] p = "unallocated" -> args.unallocated
    [] p = "clusters"    -> args.clusters # <<>>
    [] p = "loop"        -> TRUE

Order == <<"logfile", "vss", "unallocated", "clusters", "loop">>

From(n) == Order[Min({m \in n .. Len(Order) : Asked(Order[m])})]

Start ==
  /\ phase = "start"
  /\ phase' = "journal"
  /\ IF args.usnjrnl THEN Call(args.partition) ELSE UNCHANGED journalVars
  /\ UNCHANGED <<job, logfile, shadowVars, unallocatedVars, selectionVars, usnrecords>>

First ==
  /\ phase = "journal" /\ Returned
  /\ usnrecords' = got
  /\ phase' = From(1)
  /\ UNCHANGED <<job, journalVars, logfile, shadowVars, unallocatedVars, selectionVars>>

Logs ==
  /\ phase = "logfile" /\ logfile.pc = "done"
  /\ phase' = From(2)
  /\ UNCHANGED <<job, journalVars, logfile, shadowVars, unallocatedVars, selectionVars, usnrecords>>

Shadows ==
  /\ phase = "vss" /\ shadow.pc = "done"
  /\ phase' = From(3)
  /\ UNCHANGED <<job, journalVars, logfile, shadowVars, unallocatedVars, selectionVars, usnrecords>>

Unallocate ==
  /\ phase = "unallocated" /\ Collected
  /\ phase' = From(4)
  /\ UNCHANGED <<job, journalVars, logfile, shadowVars, unallocatedVars, selectionVars, usnrecords>>

\* Main drops what the journal has in the loop.
Again ==
  /\ phase = "selected"
  /\ phase' = "again"
  /\ IF args.usnjrnl THEN Call(Last(seen).part) ELSE UNCHANGED journalVars
  /\ UNCHANGED <<job, logfile, shadowVars, unallocatedVars, selectionVars, usnrecords>>

Report ==
  /\ phase = "again" /\ Returned
  /\ BuildAndShow
  /\ UNCHANGED <<journalVars, logfile, shadowVars, unallocatedVars, usnrecords>>

Finish ==
  /\ phase = "loop" /\ todo = {}
  /\ phase' = "done"
  /\ UNCHANGED <<job, journalVars, logfile, shadowVars, unallocatedVars, selectionVars, usnrecords>>

Ended == phase \in {"done", "panic", "hang"} /\ UNCHANGED vars

Next ==
  \/ Start \/ First \/ Logs \/ Shadows \/ Unallocate \/ Again \/ Report \/ Finish
  \/ /\ phase \in {"journal", "again"} /\ ProcessJrnl
     /\ UNCHANGED <<logfile, shadowVars, unallocatedVars, selectionVars, usnrecords>>
  \/ /\ phase = "logfile" /\ ReadLogFile
     /\ UNCHANGED <<journalVars, shadowVars, unallocatedVars, selectionVars, usnrecords>>
  \/ /\ phase = "vss" /\ ReadShadow
     /\ UNCHANGED <<journalVars, logfile, unallocatedVars, selectionVars, usnrecords>>
  \/ /\ phase = "clusters" /\ ShowClusters
     /\ UNCHANGED <<journalVars, logfile, unallocatedVars, selectionVars, usnrecords>>
  \/ /\ phase = "unallocated" /\ CollectUnallocated
     /\ UNCHANGED <<journalVars, logfile, shadowVars, selectionVars, usnrecords>>
  \/ /\ phase = "loop" /\ \E p \in todo : Select(p)
     /\ UNCHANGED <<journalVars, logfile, shadowVars, unallocatedVars, usnrecords>>
  \/ Ended

Spec == Init /\ [][Next]_vars
-----------------------------------------------------------------------------
\* The type invariant.
TypeOK ==
  /\ phase \in {"start", "journal", "logfile", "vss", "unallocated", "clusters", "loop", "selected", "again",
                "done", "panic", "hang"}
  /\ JournalTypeOK /\ LogFileTypeOK /\ ShadowTypeOK /\ UnallocatedTypeOK /\ SelectionTypeOK

\* If the fragments are those of a journal, main has every record of it once and in
\* order, up to where a fragment cannot be parsed, whatever the goroutines' order and the
\* capacity of the channel (ProcessJrnl).
JournalExact ==
  args.usnjrnl /\ phase \in {"logfile", "vss", "unallocated", "clusters", "loop", "done"} /\ Formed =>
    Found(usnrecords, args.partition)

\* The file ends with every sector of the disk that is in a cluster taken for free and no
\* other, partition by partition; a reader that refuses reads past the disk loses a run of
\* free clusters at its end, and a file that cannot be opened stays as it is
\* (CollectUnallocated, ExportUnallocated).
UnallocatedExact ==
  args.unallocated /\ phase \in {"clusters", "loop", "done"} =>
    LET found == FlattenSeq([p \in DOMAIN Partitions |-> IF p \in Ntfs THEN SectorsOf(job.parts[p], job.size, Limit, job.bits) ELSE <<>>])
    IN file = job.old \o (IF job.writable THEN found ELSE <<>>)

\* Of the logs of a partition main parses one page of every buffer area and a page, and
\* goes on only if none of them ends within such a step (ProcessLogFile, LogFile.Parse).
LogFileExact ==
  args.logfile /\ args.partition \in DOMAIN Partitions /\ logfile.pc # "idle" => LogsExact

\* Every store is known that a block of the catalog other than its last lists, as often
\* as there are blocks behind that one, and a cluster is found in the first of them that
\* has a copy of it, but not as the first of a range (ShadowVolume.Process,
\* GetShadowClusterOffset).
ShadowExact ==
  phase \in {"loop", "done"} /\ args.partition \in DOMAIN Partitions \cap Ntfs =>
    /\ args.vss => StoresExact
    /\ LET spc == job.parts[args.partition].spc
       IN spc = RangeUnit => ClustersExact(spc) /\ Len(clOffsets) = Len(args.clusters)

\* Filters and signatures select what they say, whatever the order of the signatures and
\* of the partitions (ApplyFilters, FindSignature).
SelectionExact == \A k \in DOMAIN seen : Exact(k)

\* The tree has the root of the last partition that has one, and as orphans the nodes of
\* every partition that have no parent; what is shown are the folders the root is above,
\* with what is in them, and the orphan folders (Build, Show).
TreeExact ==
  LET with == {k \in DOMAIN seen : 5 \in DOMAIN Nodes(seen[k])}
      root == IF with = {} THEN 0 ELSE seen[Max(with)].part
      lone == {o \in UNION {{<<s.part, e>> : e \in DOMAIN Nodes(s) \ {5}} : s \in ToSet(seen)} :
                 NodesOf(o[1])[o[2]].parref \notin DOMAIN NodesOf(o[1])}
      has(p, e, c) == c # 5 /\ NodesOf(p)[c].parref = e /\ NodesOf(p)[e].folder
      shown(p, e) ==
        \E d \in DOMAIN NodesOf(p) :
          \/ p = root /\ Below(NodesOf(p), d) /\ \E c \in DOMAIN NodesOf(p) :
               has(p, d, c) /\ e \in {c, d}
          \/ <<p, d>> \in lone /\ NodesOf(p)[d].folder /\ (e = d \/ has(p, d, e))
  IN args.tree /\ phase \in {"loop", "done"} =>
       /\ tree.root = root
       /\ tree.orphans = lone
       /\ args.showtree /\ seen # <<>> =>
            tree.printed = {o \in UNION {{<<s.part, e>> : e \in DOMAIN Nodes(s)} : s \in ToSet(seen)} :
                              shown(o[1], o[2])}
===============================================================================
