------------------------------ MODULE CsvMerge ------------------------------
(***************************************************************************)
(* The merge of the multi-stream CSV handlers of httpinterface/csv.go:     *)
(* request_post_MULTICSV_IMPL ("multi", the plotter's export, windows of   *)
(* 2^PointWidth ns) and request_post_MULTI_ALIGNED_CSV_IMPL ("aligned",    *)
(* windows of WindowWidth ns from StartTime).  Each handler opens one      *)
(* query channel per uuid, primes chanHead with a reload of each, and      *)
(* then walks the windows t = st, st+w, ... while t < et, writing one row  *)
(* per window: blank lines up to the earliest head, then a row with the    *)
(* heads at that time and blanks for the other streams.                    *)
(*                                                                         *)
(* A record is abstracted to its time; a cell of a row is the position of  *)
(* the record in its channel (so a repeated window is told apart), or 0    *)
(* for the ",,,," of emitb.  The channel of column c delivers data[c] and  *)
(* is then closed, or sends an error (both set chanBad[c]); a stream that  *)
(* does not exist delivers nothing.  What a channel may deliver is the     *)
(* query's contract: QueryStatisticalValuesStream aligns start and end     *)
(* down to 2^pw (quasar.go) and the tree yields windows of that grid in    *)
(* time order; QueryWindow yields windows st + k*wt below et.  A window    *)
(* may be delivered twice: the multi handlers discard the repeat.          *)
(*                                                                         *)
(* request_get_CSV ("single") copies the one channel of one uuid, a row    *)
(* per record, and ends at its close, or with an "!ABORT ERROR" line at    *)
(* an error on echan, which its select may take before records still       *)
(* pending on rvchan.  A failed query (no such stream) only errors.        *)
(***************************************************************************)
EXTENDS Integers, Sequences, SequencesExt

CONSTANTS
  K,             \* len(req.UUIDS): the streams merged into one CSV
  Times,         \* request start and end times, in ns after the unit divisor
  PointWidths,   \* req.PointWidth of a multi request, within 0..62
  WindowWidths,  \* req.WindowWidth of an aligned request
  MaxRecords     \* bound on the records one query channel delivers

ASSUME /\ K \in Nat \ {0} /\ Times \subseteq Int /\ MaxRecords \in Nat
       /\ PointWidths \subseteq 0..62 /\ WindowWidths \subseteq Nat \ {0}

Cols == 1..K

VARIABLES
  handler,  \* "multi", "aligned" or "single"
  st, et,   \* the request's start and end time in ns
  w,        \* the window width: 1 << pw, or wt
  data,     \* data[c]: the record times chanVs[c] delivers
  pos,      \* pos[c]: the records of chanVs[c] reload has taken;
            \* chanHead[c] is data[c][pos[c]]
  bad,      \* chanBad
  t,        \* the window of the merge loop
  min,      \* the earliest live head of this iteration
  out,      \* the rows written after the heading row
  fail,     \* the query's echan delivers an error (single only: in the
            \* multi handlers an error ends a column as a close does)
  pc        \* "prime", "scan", "catchup", "copy", "done" (returned), "error"
            \* (doError) or "panic" (log.Panic)

vars == <<handler, st, et, w, data, pos, bad, t, min, out, fail, pc>>

\* st &^ ((1 << pw) - 1) for a window width that is a power of two.
AlignDown(x, width) == x - (x % width)

\* What QueryStatisticalValuesStream(uid, st, et, gen, pw) can deliver:
\* start and end are aligned down to the window, one record per window.
StatWindows(s, e, width) ==
  {x \in AlignDown(s, width) .. AlignDown(e, width) - 1 : x % width = 0}

\* What QueryWindow(uid, st, et, gen, wt, 0) can deliver.
AlignedWindows(s, e, width) ==
  {x \in s .. e - 1 : (x - s) % width = 0}

\* A channel's content: the windows in time order, a window possibly twice.
Deliveries(G) == {sq \in BoundedSeq(G, MaxRecords) : IsSorted(sq, <=)}

\* A parsed multi request: PointWidth is within 0..62, so no doError.
MultiStart(s, e, pw) ==
  /\ handler = "multi" /\ st = s /\ et = e /\ w = 2^pw
  /\ data \in [Cols -> Deliveries(StatWindows(s, e, 2^pw))]
  /\ fail = FALSE /\ pc = "prime"

\* A parsed aligned request: a window wider than the range, or a uuid
\* whose QueryWindow reports generation 0 (no such stream), is a doError.
AlignedStart(s, e, wt) ==
  /\ handler = "aligned" /\ st = s /\ et = e /\ w = wt
  /\ data \in [Cols -> Deliveries(AlignedWindows(s, e, wt))]
  /\ fail = FALSE
  /\ \E missing \in BOOLEAN :
        pc = IF s + wt > e \/ missing THEN "error" ELSE "prime"

\* A parsed single request (unit ns): et <= st is a doError; the uuid's
\* query either delivers records and closes, or errors, possibly after
\* some records (a missing stream: none).
SingleStart(s, e, pw) ==
  /\ handler = "single" /\ st = s /\ et = e /\ w = 2^pw
  /\ \E recs \in Deliveries(StatWindows(s, e, 2^pw)) :
        data = [c \in Cols |-> IF c = 1 THEN recs ELSE <<>>]
  /\ fail \in BOOLEAN
  /\ pc = IF e <= s THEN "error" ELSE "copy"

Init ==
  /\ \/ \E s, e \in Times, pw \in PointWidths : MultiStart(s, e, pw)
     \/ \E s, e \in Times, wt \in WindowWidths : AlignedStart(s, e, wt)
     \/ \E s, e \in Times, pw \in PointWidths : SingleStart(s, e, pw)
  /\ pos = [c \in Cols |-> 0] /\ bad = [c \in Cols |-> FALSE]
  /\ t = 0 /\ min = 0 /\ out = <<>>

-----------------------------------------------------------------------------

\* The index of the first record of column c from p on that is at or after
\* time x, or 0: the reloads of the "discarding duplicate time" loop.
FirstFrom(c, p, x) == SelectInSubSeq(data[c], p, Len(data[c]), LAMBDA r : r >= x)

\* Mutant: the multi handler starts the loop at the requested start time.
FirstWindowUnaligned == st

\* The first window: st &^ ((1 << pw) - 1) in the multi handler, st in the
\* aligned one.
FirstWindow == IF handler = "multi" THEN AlignDown(st, w) ELSE st

\* Prime the first results: reload(i) for every stream, then the loop.
Prime ==
  /\ pc = "prime"
  /\ pos' = [c \in Cols |-> IF data[c] = <<>> THEN 0 ELSE 1]
  /\ bad' = [c \in Cols |-> data[c] = <<>>]
  /\ t' = FirstWindow /\ pc' = "scan"
  /\ UNCHANGED <<handler, st, et, w, data, min, out, fail>>

\* The loop condition t < et fails: the handler returns.
Return ==
  /\ pc = "scan" /\ t >= et /\ pc' = "done"
  /\ UNCHANGED <<handler, st, et, w, data, pos, bad, t, min, out, fail>>

\* Locate the min time: each live stream drops its heads before t; with no
\* live stream left the handler returns.
Scan ==
  /\ pc = "scan" /\ t < et
  /\ LET p == [c \in Cols |-> IF bad[c] THEN pos[c] ELSE FirstFrom(c, pos[c], t)]
         live == {c \in Cols : ~bad[c] /\ p[c] # 0}
     IN /\ pos' = [c \in Cols |-> IF c \in live THEN p[c] ELSE pos[c]]
        /\ bad' = [c \in Cols |-> c \notin live]
        /\ IF live = {}
             THEN pc' = "done" /\ UNCHANGED min
             ELSE pc' = "catchup" /\ min' = Min({data[c][p[c]] : c \in live})
  /\ UNCHANGED <<handler, st, et, w, data, t, out, fail>>

\* The min time is later than t: a blank line, the time columns only.
CatchUp ==
  /\ pc = "catchup" /\ t < min
  /\ out' = Append(out, [t |-> t, cells |-> <<>>])
  /\ t' = t + w
  /\ UNCHANGED <<handler, st, et, w, data, pos, bad, min, pc, fail>>

\* Mutant: every live head is written, whatever its time.
EmitAllLive ==
  /\ pc = "catchup" /\ t >= min
  /\ IF t # min
       THEN pc' = "panic" /\ UNCHANGED <<pos, bad, t, out>>
       ELSE LET at == {c \in Cols : ~bad[c]}
            IN /\ out' = Append(out, [t |-> t, cells |->
                           [c \in Cols |-> IF c \in at THEN pos[c] ELSE 0]])
               /\ pos' = [c \in Cols |-> IF c \in at /\ pos[c] < Len(data[c])
                                           THEN pos[c] + 1 ELSE pos[c]]
               /\ bad' = [c \in Cols |-> bad[c] \/ (c \in at /\ pos[c] = Len(data[c]))]
               /\ t' = t + w /\ pc' = "scan"
  /\ UNCHANGED <<handler, st, et, w, data, min, fail>>

\* t caught up with min: t != min is log.Panic("critical error"); otherwise
\* the row of time t, emit and reload for the heads at min, emitb for the
\* rest, and the loop's t += w.
Emit ==
  /\ pc = "catchup" /\ t >= min
  /\ IF t # min
       THEN pc' = "panic" /\ UNCHANGED <<pos, bad, t, out>>
       ELSE LET at == {c \in Cols : ~bad[c] /\ data[c][pos[c]] = min}
            IN /\ out' = Append(out, [t |-> t, cells |->
                           [c \in Cols |-> IF c \in at THEN pos[c] ELSE 0]])
               /\ pos' = [c \in Cols |-> IF c \in at /\ pos[c] < Len(data[c])
                                           THEN pos[c] + 1 ELSE pos[c]]
               /\ bad' = [c \in Cols |-> bad[c] \/ (c \in at /\ pos[c] = Len(data[c]))]
               /\ t' = t + w /\ pc' = "scan"
  /\ UNCHANGED <<handler, st, et, w, data, min, fail>>

\* The line of the abort: "!ABORT ERROR: %v".
Abort == [abort |-> TRUE]

\* A record received on rvchan: its line "%d,%f,%f,%f,%d".
Copy ==
  /\ pc = "copy" /\ pos[1] < Len(data[1])
  /\ out' = Append(out, [t |-> data[1][pos[1] + 1], cells |-> <<pos[1] + 1>>])
  /\ pos' = [pos EXCEPT ![1] = @ + 1]
  /\ UNCHANGED <<handler, st, et, w, data, bad, t, min, fail, pc>>

\* rvchan closed: return.  An error on echan: the abort line, and return,
\* whether or not records are still pending.
Finish ==
  /\ pc = "copy" /\ (fail \/ pos[1] = Len(data[1]))
  /\ out' = IF fail THEN Append(out, Abort) ELSE out
  /\ pc' = "done"
  /\ UNCHANGED <<handler, st, et, w, data, pos, bad, t, min, fail>>

Next == Prime \/ Return \/ Scan \/ CatchUp \/ Emit \/ Copy \/ Finish

\* One goroutine runs the handler; the query goroutines feeding the
\* channels run too, so a step that is enabled is taken.
Spec == Init /\ [][Next]_vars /\ WF_vars(Next)

-----------------------------------------------------------------------------
(* The CSV the handler should write *)

\* The query's first window, computed as quasar.go aligns it.
QueryStart == IF handler = "multi" THEN AlignDown(st, w) ELSE st

\* One row per window from the first to the last one with a record; a
\* window with records shows, per stream, the first record of that window
\* or a blank; a window with none is a blank line.
RefRows ==
  LET recs == UNION {Range(data[c]) : c \in Cols}
      row(x) == IF x \in recs
                  THEN [t |-> x, cells |->
                         [c \in Cols |-> SelectInSeq(data[c], LAMBDA r : r = x)]]
                  ELSE [t |-> x, cells |-> <<>>]
  IN IF recs = {} THEN <<>>
     ELSE [k \in 1 .. (Max(recs) - QueryStart) \div w + 1 |->
             row(QueryStart + (k - 1) * w)]

\* The single handler's rows: each record delivered, in order.
SingleRows == [k \in 1 .. Len(data[1]) |-> [t |-> data[1][k], cells |-> <<k>>]]

\* What a handler may have written when it returns.
Expected ==
  IF handler # "single" THEN {RefRows}
  ELSE IF fail THEN {SubSeq(SingleRows, 1, k) \o <<Abort>> : k \in 0 .. Len(data[1])}
  ELSE {SingleRows}

\* When a multi or aligned CSV handler returns, it has written every window
\* from the first to the last one with data, in order, with each stream's
\* record of that window in its column and repeats of a window dropped;
\* the single handler has written its records in order and, exactly when
\* the query failed, ends with the abort line after some of them.
MergeCorrect == pc = "done" => out \in Expected

\* Every request ends: the handler returns or answers with an error, and
\* never reaches the log.Panic of a window the loop stepped over.
Completes == <>(pc \in {"done", "error"})
==============================================================================
