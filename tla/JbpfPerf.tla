------------------------------ MODULE JbpfPerf ------------------------------
(***************************************************************************)
(* Performance data of the hooks (core/jbpf_perf.c, core/jbpf_perf.h).     *)
(* Every hook has an array with one slot for each thread id.  A thread     *)
(* that calls a hook adds the time it took to its own slot, inside the     *)
(* epoch section of the call.  The maintenance thread replaces the arrays, *)
(* waits for a grace period, merges the old ones into a report, frees them *)
(* and passes the report to the hook report_stats, whose own array is      *)
(* never replaced.                                                          *)
(***************************************************************************)
EXTENDS Ebr, Integers, FiniteSetsExt, Functions

CONSTANTS Hooks,       \* the hooks, "report_stats" among them
          Maint,       \* the maintenance thread
          Times,       \* elapsed times of a call, in ns
          NumBins,     \* JBPF_NUM_HIST_BINS
          MaxArrays,   \* arrays that are allocated at most
          MaxCalls     \* bound on the number of calls

VARIABLES perf,        \* perf_data of each hook
          arr,         \* the arrays: one slot for each thread, or Freed
          call,        \* the call each thread is in
          maint,       \* the maintenance thread: pc, what it has replaced, its report
          logged       \* number of times each hook has logged (for the properties)

vars == <<section, waitFor, perf, arr, call, maint, logged>>
epochVars == <<section, waitFor>>

Bins == 0 .. NumBins - 1
Arrays == 1 .. MaxArrays
Empty == [num |-> 0, min |-> 0, max |-> 0, hist |-> [k \in Bins |-> 0]]
Freed == [t \in {} |-> 0]   \* no array
NoCall == [pc |-> "idle", hook |-> "report_stats", arr |-> 0, et |-> 0]
Reported == Hooks \ {"report_stats"}

\* jbpf_init_perf: every hook gets an array of empty slots.
PerfInit ==
  /\ EbrInit
  /\ perf = CHOOSE f \in [Hooks -> 1 .. Cardinality(Hooks)] : IsInjective(f)
  /\ arr = [a \in Arrays |-> IF \E h \in Hooks : perf[h] = a THEN [t \in Threads |-> Empty] ELSE Freed]
  /\ call = [t \in Threads |-> NoCall]
  /\ maint = [pc |-> "idle", todo |-> {}, old |-> [h \in Reported |-> 0],
              report |-> [h \in Reported |-> Empty], sent |-> [h \in Reported |-> 0]]
  /\ logged = [h \in Hooks |-> 0]

(* ------------------------------ hook calls ------------------------------ *)

Calls == FoldSet(LAMBDA h, n : n + logged[h], 0, Hooks)

\* A hook is called: ck_epoch_begin, and the codelets run.
CallHook(t, h) ==
  /\ call[t].pc = "idle" /\ Calls < MaxCalls
  /\ t = Maint => maint.pc = "stats" /\ h = "report_stats"
  /\ h = "report_stats" => t = Maint
  /\ EpochBegin(t)
  /\ call' = [call EXCEPT ![t] = [pc |-> "run", hook |-> h, arr |-> 0, et |-> 0]]
  /\ UNCHANGED <<perf, arr, maint, logged>>

\* JBPF_STOP_MEASURE_TIME reads the hook's perf_data.
StopMeasure(t, et) ==
  /\ call[t].pc = "run"
  /\ call' = [call EXCEPT ![t].pc = "log", ![t].arr = perf[call[t].hook], ![t].et = et]
  /\ UNCHANGED <<epochVars, perf, arr, maint, logged>>

\* The bin of a time: JBPF_NUM_HIST_BINS - 1 minus its leading zeros.
BinIdx(et) == CHOOSE k \in Bins : 2 ^ k <= et /\ et < 2 ^ (k + 1)

\* _jbpf_perf_log on a slot; a time of 0 is refused (and stands for a hook
\* whose jbpf_perf_active is not set).
Add(d, et) ==
  IF et = 0 THEN d
  ELSE [num |-> d.num + 1,
        min |-> IF et < d.min \/ d.min = 0 THEN et ELSE d.min,
        max |-> IF et > d.max THEN et ELSE d.max,
        hist |-> [d.hist EXCEPT ![BinIdx(et)] = @ + 1]]

\* _jbpf_perf_log, ck_epoch_end.  The slot is the thread's own.
PerfLog(t) ==
  /\ call[t].pc = "log"
  /\ LET c == call[t] IN
       /\ arr[c.arr] # Freed
       /\ arr' = [arr EXCEPT ![c.arr][t] = Add(@, c.et)]
       /\ logged' = [logged EXCEPT ![c.hook] = @ + (IF c.et = 0 THEN 0 ELSE 1)]
  /\ EpochEnd(t)
  /\ call' = [call EXCEPT ![t] = NoCall]
  /\ maint' = IF t = Maint THEN [maint EXCEPT !.pc = "idle"] ELSE maint
  /\ UNCHANGED perf

(* ----------------------- jbpf_report_perf_stats -------------------------- *)

ReportStarts ==
  /\ maint.pc = "idle" /\ call[Maint].pc = "idle"
  /\ maint' = [maint EXCEPT !.pc = "swap", !.todo = Reported, !.old = [h \in Reported |-> 0]]
  /\ UNCHANGED <<epochVars, perf, arr, call, logged>>

\* jbpf_get_perf_data: a new array for the next hook.  The code does not test
\* the allocation; one that fails, and would publish NULL, is left out.
GetPerfData(h) ==
  /\ maint.pc = "swap" /\ h \in maint.todo
  /\ LET a == Min({b \in Arrays : arr[b] = Freed}) IN
       /\ arr' = [arr EXCEPT ![a] = [t \in Threads |-> Empty]]
       /\ perf' = [perf EXCEPT ![h] = a]
  /\ maint' = [maint EXCEPT !.todo = @ \ {h}, !.old[h] = perf[h]]
  /\ UNCHANGED <<epochVars, call, logged>>

\* Mutant: no grace period.
BarrierSkipped ==
  /\ maint.pc = "swap" /\ maint.todo = {}
  /\ maint' = [maint EXCEPT !.pc = "wait"]
  /\ UNCHANGED <<epochVars, perf, arr, call, logged>>

\* ck_epoch_barrier begins.
Barrier ==
  /\ maint.pc = "swap" /\ maint.todo = {}
  /\ StartGrace(Maint)
  /\ maint' = [maint EXCEPT !.pc = "wait"]
  /\ UNCHANGED <<perf, arr, call, logged>>

\* Mutant: a slot replaces what has been merged before it.
MergeSlotLast(r, d) == d

\* One slot merged into the report.
MergeSlot(r, d) ==
  [num |-> r.num + d.num,
   min |-> IF r.min = 0 \/ (r.min > d.min /\ d.min > 0) THEN d.min ELSE r.min,
   max |-> IF r.max < d.max THEN d.max ELSE r.max,
   hist |-> [k \in Bins |-> r.hist[k] + d.hist[k]]]

\* It ends: every replaced array is merged slot by slot and freed.
MergeAndFree ==
  /\ maint.pc = "wait" /\ GraceElapsed(Maint)
  /\ LET merged == [h \in Reported |->
           FoldSet(LAMBDA t, r : MergeSlot(r, arr[maint.old[h]][t]), Empty, Threads)] IN
       maint' = [maint EXCEPT !.pc = "stats", !.report = merged, !.old = [h \in Reported |-> 0],
                   !.sent = [h \in Reported |-> @[h] + merged[h].num]]
  /\ arr' = [a \in Arrays |-> IF \E h \in Reported : maint.old[h] = a THEN Freed ELSE arr[a]]
  /\ UNCHANGED <<epochVars, perf, call, logged>>

\* hook_report_stats without a codelet: the hook does nothing.
NoStats ==
  /\ maint.pc = "stats" /\ call[Maint].pc = "idle"
  /\ maint' = [maint EXCEPT !.pc = "idle"]
  /\ UNCHANGED <<epochVars, perf, arr, call, logged>>

PerfNext ==
  \/ \E t \in Threads : \/ \E h \in Hooks : CallHook(t, h)
                        \/ \E et \in Times : StopMeasure(t, et)
                        \/ PerfLog(t)
  \/ ReportStarts \/ Barrier \/ MergeAndFree \/ NoStats
  \/ \E h \in Hooks : GetPerfData(h)

PerfSpec == PerfInit /\ [][PerfNext]_vars

(* ------------------------------ properties ------------------------------ *)

\* A thread that has read a hook's perf_data logs into an array that is still
\* allocated, and the report only reads such arrays: jbpf_report_perf_stats
\* frees an array after every section that may have read it has ended.
PerfArraysLive ==
  /\ \A t \in Threads : call[t].pc = "log" => arr[call[t].arr] # Freed
  /\ \A h \in Reported : maint.old[h] # 0 => arr[maint.old[h]] # Freed
  /\ \A h \in Hooks : arr[perf[h]] # Freed

NumIn(a) == IF a = 0 \/ arr[a] = Freed THEN 0
            ELSE FoldSet(LAMBDA t, n : n + arr[a][t].num, 0, Threads)

\* Every call that was timed is in exactly one report: what a hook has logged
\* is what its reports have said so far, plus what its array holds and what
\* the array being reported holds.  No sample is lost or counted twice when
\* the arrays are replaced while hooks run.
SamplesCounted ==
  \A h \in Reported :
    logged[h] = maint.sent[h] + NumIn(perf[h]) + NumIn(maint.old[h])
=============================================================================
