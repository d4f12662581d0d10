------------------------------ MODULE UsageLogs ------------------------------
(* The tokens counted from the logs of the Codex client                     *)
(* (providers/codex/local_usage.rs, providers/log_usage.rs, storage.rs).    *)
(* The client goes on writing while a scan lists the files, looks at their  *)
(* size and time, and reads those its cache does not hold.  A forked session *)
(* begins with a copy of its parent's lines.  Models, tiers, prices and the *)
(* window of 30 days are left out: a line is what tells tokens apart.       *)
EXTENDS Integers, FiniteSets, SequencesExt

CONSTANTS NumSessions,
          Reports,      \* kinds of clients
          MaxWrites,    \* bound: writes of the client
          MaxSecond,    \* bound: seconds that pass
          MaxScans      \* bound: scans begun

VARIABLES second, writes,  \* the clock and the number of writes so far
          reports,         \* what this client's lines carry: "both", "totals" or "last"
          file,            \* of each session: its lines
          place,           \* of each session: the directories its file is in
          used,            \* of each session: tokens so far, its parent's included
          task,            \* of each session: a task of its own has begun
          spent,           \* tokens used by all sessions
          blurred,         \* a fork was made in the second its parent's task began
          row,             \* of each path: the cached row, or NoRow
          scan, scans,
          sum,             \* tokens of the last scan
          quiet            \* nothing was written, moved or unreadable since it began

logVars == <<second, writes, reports, file, place, used, task, spent, blurred,
             row, scan, scans, sum, quiet>>
clientVars == <<reports, file, place, used, task, spent, blurred>>

Sessions == 1 .. NumSessions
Places == {"sessions", "archived_sessions"}
Paths == Sessions \X Places

None == -1        \* a field that is missing
SelfTimed == -1   \* the gate of a child whose first line has no time
Open == -2        \* no gate
NoRow == [size |-> None, modified |-> None, events |-> {}]

-----------------------------------------------------------------------------
(* The lines, and what parse_jsonl makes of them.                          *)

At(t) == [second |-> t, n |-> writes + 1]

Meta(child, at) == [kind |-> "session_meta", child |-> child, at |-> at]
Started(at) == [kind |-> "task_started", at |-> at, started |-> at.second]
Count(at, total, last) ==
  [kind |-> "token_count", at |-> at, total |-> total, last |-> last]

Unparsed == [sawMeta |-> FALSE, gate |-> Open, previous |-> None, events |-> {}]

(* Only the first session_meta counts; that of a child closes the gate.    *)
ReadMeta(p, line) ==
  IF p.sawMeta THEN p
  ELSE [p EXCEPT !.sawMeta = TRUE,
                 !.gate = IF line.child THEN line.at.second ELSE Open]

(* Variant: a task that began in the second of the fork is the parent's.   *)
IsClearedLater(gate, line) ==
  IF gate = SelfTimed THEN line.started > line.at.second ELSE line.started > gate

IsCleared(gate, line) ==
  IF gate = SelfTimed THEN line.started >= line.at.second ELSE line.started >= gate

ReadStarted(p, line) ==
  IF p.gate # Open /\ IsCleared(p.gate, line) THEN [p EXCEPT !.gate = Open] ELSE p

(* saturating_sub(), from nothing if nothing was said before.              *)
Subtracting(total, previous) ==
  LET before == IF previous = None THEN 0 ELSE previous
  IN IF total > before THEN total - before ELSE 0

Usage(p, line) ==
  IF line.last # None THEN line.last ELSE Subtracting(line.total, p.previous)

WithTotals(p, line) ==
  IF line.total = None THEN p ELSE [p EXCEPT !.previous = line.total]

(* Behind the gate only the totals are noted; totals that did not change   *)
(* are the same usage reported again.                                      *)
ReadCount(p, line) ==
  IF p.gate # Open THEN WithTotals(p, line)
  ELSE IF line.total # None /\ line.total = p.previous THEN p
  ELSE IF Usage(p, line) = 0 THEN WithTotals(p, line)
  ELSE [WithTotals(p, line) EXCEPT
          !.events = @ \union {[at |-> line.at, usage |-> Usage(p, line)]}]

ReadLine(p, line) ==
  CASE line.kind = "session_meta" -> ReadMeta(p, line)
    [] line.kind = "task_started" -> ReadStarted(p, line)
    [] line.kind = "token_count"  -> ReadCount(p, line)

(* What is known after the lines, one after the other.                     *)
ParseFrom(start, lines) ==
  LET parsed[i \in 0 .. Len(lines)] ==
        IF i = 0 THEN start ELSE ReadLine(parsed[i - 1], lines[i])
  IN parsed[Len(lines)]

ParseJsonl(lines) == ParseFrom(Unparsed, lines).events

(* The tokens of the events.  An event is known by its time and its        *)
(* numbers: the same one in two files counts once.                         *)
Aggregated(events) ==
  Cardinality(UNION {{event} \X (1 .. event.usage) : event \in events})

-----------------------------------------------------------------------------
(* The client: external, as the tests of the parser describe its files.    *)

(* Bound: the client changes one thing during a scan.                      *)
MayChange == scan.at = "idle" \/ quiet

(* Time is looked at where tasks begin and sessions are forked: it passes   *)
(* with these.                                                             *)
Writes(s, t, lines) ==
  /\ writes < MaxWrites /\ MayChange
  /\ second' = t
  /\ writes' = writes + 1
  /\ file' = [file EXCEPT ![s] = @ \o lines]
  /\ quiet' = FALSE
  /\ UNCHANGED <<reports, row, scan, scans, sum>>

Active(s) == place[s] = {"sessions"}

(* A line with the total of the session and the last usage, or one of them.*)
Counted(at, total) ==
  Count(at, IF reports = "last" THEN None ELSE total,
            IF reports = "totals" THEN None ELSE 1)

Use(s) ==
  /\ Active(s) /\ task[s]
  /\ Writes(s, second, <<Counted(At(second), used[s] + 1)>>)
  /\ used' = [used EXCEPT ![s] = @ + 1]
  /\ spent' = spent + 1
  /\ UNCHANGED <<place, task, blurred>>

(* The usage is reported again, with a change of the limits for instance.  *)
Repeat(s) ==
  /\ Active(s) /\ task[s] /\ reports # "last"
  /\ Writes(s, second, <<Counted(At(second), used[s])>>)
  /\ UNCHANGED <<place, used, task, spent, blurred>>

NewTask(s, t) ==
  /\ Active(s)
  /\ Writes(s, t, <<Started(At(t))>>)
  /\ task' = [task EXCEPT ![s] = TRUE]
  /\ UNCHANGED <<place, used, spent, blurred>>

(* The copy keeps the times of its lines, or gives them the time of the    *)
(* fork, except for the seconds at which tasks began.                      *)
Replayed(lines, rewritten, at) ==
  [i \in DOMAIN lines |-> IF rewritten THEN [lines[i] EXCEPT !.at = at] ELSE lines[i]]

Fork(p, s, t, rewritten, timed) ==
  /\ Active(p) /\ place[s] = {}
  /\ Writes(s, t, <<Meta(TRUE, [At(t) EXCEPT !.second = IF timed THEN t ELSE SelfTimed])>>
                    \o Replayed(file[p], rewritten, At(t)))
  /\ place' = [place EXCEPT ![s] = {"sessions"}]
  /\ used' = [used EXCEPT ![s] = used[p]]
  /\ task' = [task EXCEPT ![s] = FALSE]
  /\ blurred' = (blurred \/ \E i \in DOMAIN file[p] :
                     file[p][i].kind = "task_started" /\ file[p][i].started = t)
  /\ UNCHANGED spent

(* A closed session is moved, or copied.  Bound: one of them.              *)
Archive(s, places) ==
  /\ MayChange
  /\ Active(s) /\ \A t \in Sessions : "archived_sessions" \notin place[t]
  /\ place' = [place EXCEPT ![s] = places]
  /\ quiet' = FALSE
  /\ UNCHANGED <<second, writes, reports, file, used, task, spent, blurred,
                 row, scan, scans, sum>>

Client ==
  \E s \in Sessions :
    \/ Use(s) \/ Repeat(s)
    \/ \E t \in second .. MaxSecond :
         \/ NewTask(s, t)
         \/ \E p \in Sessions, rewritten, timed \in BOOLEAN : Fork(p, s, t, rewritten, timed)
    \/ \E places \in {{"archived_sessions"}, Places} : Archive(s, places)

-----------------------------------------------------------------------------
(* A scan: scan_codex_events() and load_or_parse_log() for each file.      *)

Idle == [at |-> "idle", todo |-> {}, seen |-> {}, stamp |-> NoRow, events |-> {}]

(* What is found under both directories is read where it is active.        *)
Listing ==
  {path \in Paths : /\ path[2] \in place[path[1]]
                    /\ path[2] = "sessions" \/ "sessions" \notin place[path[1]]}

StartScan ==
  /\ scan.at = "idle" /\ scans < MaxScans
  /\ scan' = [Idle EXCEPT !.at = "stat", !.todo = Listing, !.seen = Listing]
  /\ scans' = scans + 1
  /\ quiet' = TRUE
  /\ UNCHANGED <<second, writes, clientVars, row, sum>>

(* The active sessions come first, and each directory in order.            *)
Turn(path) == path[1] + IF path[2] = "sessions" THEN 0 ELSE NumSessions
Path == CHOOSE path \in scan.todo : \A other \in scan.todo : Turn(path) <= Turn(other)
Lines(path) == file[path[1]]
Exists(path) == path[2] \in place[path[1]]
Fingerprint(path) ==
  [size |-> Len(Lines(path)), modified |-> Last(Lines(path)).at.n]
SameStamp(r, stamp) == r.size = stamp.size /\ r.modified = stamp.modified

Done(events) ==
  [scan EXCEPT !.at = "stat", !.todo = @ \ {Path}, !.stamp = NoRow,
               !.events = @ \union events]

Reading == scan.at = "stat" /\ scan.todo # {}

Missing ==
  /\ Reading /\ ~Exists(Path)
  /\ row' = [row EXCEPT ![Path] = NoRow]
  /\ scan' = Done({})
  /\ UNCHANGED <<second, writes, clientVars, scans, sum, quiet>>

Hit ==
  /\ Reading /\ Exists(Path) /\ SameStamp(row[Path], Fingerprint(Path))
  /\ scan' = Done(row[Path].events)
  /\ UNCHANGED <<second, writes, clientVars, row, scans, sum, quiet>>

Miss ==
  /\ Reading /\ Exists(Path) /\ ~SameStamp(row[Path], Fingerprint(Path))
  /\ scan' = [scan EXCEPT !.at = "read", !.stamp = Fingerprint(Path)]
  /\ UNCHANGED <<second, writes, clientVars, row, scans, sum, quiet>>

Row(stamp, events) ==
  [size |-> stamp.size, modified |-> stamp.modified, events |-> events]

(* Variant: the size and time are taken when the row is written, after a   *)
(* read that began earlier: what was read is an older state of the file.   *)
ReadStampedLate ==
  /\ scan.at = "read" /\ Exists(Path)
  /\ LET events == ParseJsonl(SubSeq(Lines(Path), 1, scan.stamp.size))
     IN /\ row' = [row EXCEPT ![Path] = Row(Fingerprint(Path), events)]
        /\ scan' = Done(events)
  /\ UNCHANGED <<second, writes, clientVars, scans, sum, quiet>>

(* The row is stored under the size and time looked at before the file was *)
(* read.                                                                   *)
Read ==
  /\ scan.at = "read" /\ Exists(Path)
  /\ LET events == ParseJsonl(Lines(Path))
     IN /\ row' = [row EXCEPT ![Path] = Row(scan.stamp, events)]
        /\ scan' = Done(events)
  /\ UNCHANGED <<second, writes, clientVars, scans, sum, quiet>>

(* The file is gone by now, or cannot be read.                             *)
ReadFails ==
  /\ scan.at = "read"
  /\ row' = [row EXCEPT ![Path] = NoRow]
  /\ scan' = Done({})
  /\ quiet' = FALSE
  /\ UNCHANGED <<second, writes, clientVars, scans, sum>>

(* Rows of files that were not listed are pruned; the sum is shown.        *)
Finish ==
  /\ scan.at = "stat" /\ scan.todo = {}
  /\ row' = [path \in Paths |-> IF path \in scan.seen THEN row[path] ELSE NoRow]
  /\ sum' = Aggregated(scan.events)
  /\ scan' = Idle
  /\ UNCHANGED <<second, writes, clientVars, scans, quiet>>

-----------------------------------------------------------------------------
(* A session whose task began in the second before, and has used a token.  *)
LogInit ==
  /\ second = 1 /\ writes = 2
  /\ reports \in Reports
  /\ LET at(n) == [second |-> 0, n |-> n]
     IN file = [s \in Sessions |->
          IF s = 1 THEN <<Meta(FALSE, at(1)), Started(at(1)), Counted(at(2), 1)>> ELSE <<>>]
  /\ place = [s \in Sessions |-> IF s = 1 THEN {"sessions"} ELSE {}]
  /\ used = [s \in Sessions |-> IF s = 1 THEN 1 ELSE 0]
  /\ task = [s \in Sessions |-> s = 1]
  /\ spent = 1 /\ blurred = FALSE
  /\ row = [path \in Paths |-> NoRow]
  /\ scan = Idle /\ scans = 0
  /\ sum = 0 /\ quiet = FALSE

Scanner ==
  StartScan \/ Missing \/ Hit \/ Miss \/ Read \/ ReadFails \/ Finish

LogNext == Client \/ Scanner

LogSpec == LogInit /\ [][LogNext]_logVars

-----------------------------------------------------------------------------
(* After a scan during which nothing was written every token used is       *)
(* counted, and at no time is one counted twice: whatever was forked,      *)
(* copied, moved or cached.  A fork in the second in which its parent's    *)
(* task began is excepted: seconds are all the log says of a task.         *)
TokensCountedOnce ==
  ~blurred =>
     /\ sum <= spent
     /\ scan.at = "idle" /\ quiet => sum = spent
=============================================================================
